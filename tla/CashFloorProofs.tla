-------------------------- MODULE CashFloorProofs --------------------------
(***************************************************************************)
(* The safety invariants of CashFloor hold for any number of tables,       *)
(* shifts, tickets, payments and expenses and for any amounts.             *)
(*                                                                         *)
(* For the invariants no sum is ever evaluated: a step either leaves the   *)
(* rows a sum ranges over alone, so that the two sums are the same         *)
(* expression, or compares the sum it stores or tests with itself.  Only   *)
(* the refinement of AccountLifecycle needs that a payment adds its amount *)
(* to what its account was paid.                                           *)
(*                                                                         *)
(* The second half is about PosRequests, the same floor under several      *)
(* requests at once: their inductive invariant is PosIInv, and a request   *)
(* that nobody overtook is one call of CashFloor.                          *)
(***************************************************************************)
EXTENDS PosRequests, SumTheorems

\* A payment that is active sits in the shift of its ticket.
PaymentInItsShift ==
    \A p \in Payments : payment[p].status = Active =>
        /\ payment[p].ticket \in Tickets
        /\ payment[p].shift = ticket[payment[p].ticket].shift

\* A ticket that exists sits on a table.
ActiveOnTable ==
    \A t \in Tickets : ticket[t].status \in ActiveStatus => ticket[t].table \in Tables

\* The inductive invariant.
IInv ==
    /\ TypeOK
    /\ OneOpenShift
    /\ ActiveTicketsInOpenShift
    /\ OneActiveTicketPerTable
    /\ ActiveOnTable
    /\ CacheAgrees
    /\ PaymentInItsShift
    /\ MoneyOnlyOnBilled
    /\ PaidIsCovered
    /\ ClosedShiftBalances

USE DEF Absent, Open, Closed, InPayment, Paid, Cancelled, Free, Occupied, Active, ActiveStatus

-----------------------------------------------------------------------------
(* Type correctness.                                                       *)

LEMMA InitTypeOK == Init => TypeOK
  BY CashFloorAssumption DEF Init, TypeOK, ShiftRow, TicketRow, PaymentRow, ExpenseRow

LEMMA NextTypeOK == TypeOK /\ [Next]_vars => TypeOK'
<1> SUFFICES ASSUME TypeOK, [Next]_vars PROVE TypeOK'
  OBVIOUS
<1>1. ASSUME NEW s \in Shifts, NEW a \in Amounts, OpenShift(s, a) PROVE TypeOK'
  <2>1. [shift[s] EXCEPT !.status = Open, !.opening = a] \in ShiftRow
    BY DEF TypeOK, ShiftRow
  <2> QED BY <1>1, <2>1 DEF OpenShift, TypeOK
<1>2. ASSUME NEW s \in Shifts, NEW a \in Amounts, CloseShift(s, a) PROVE TypeOK'
  <2>1. [shift[s] EXCEPT !.status = Closed, !.declared = a] \in ShiftRow
    BY DEF TypeOK, ShiftRow
  <2> QED BY <1>2, <2>1 DEF CloseShift, TypeOK
<1>3. ASSUME NEW s \in Shifts, NEW e \in Expenses, NEW a \in Amounts, RegisterExpense(e, s, a)
      PROVE TypeOK'
  <2>1. [status |-> Active, shift |-> s, amount |-> a] \in ExpenseRow
    BY DEF ExpenseRow
  <2> QED BY <1>3, <2>1 DEF RegisterExpense, TypeOK
<1>4. ASSUME NEW t \in Tickets, NEW b \in Tables, NEW s \in Shifts, OpenTicket(t, b, s)
      PROVE TypeOK'
  <2>1. [status |-> Open, table |-> b, shift |-> s, due |-> 0] \in TicketRow
    BY CashFloorAssumption DEF TicketRow
  <2> QED BY <1>4, <2>1 DEF OpenTicket, TypeOK
<1>5. ASSUME NEW t \in Tickets, NEW a \in Amounts, EditTicket(t, a) \/ ReduceTicket(t, a)
      PROVE TypeOK'
  <2>1. [ticket[t] EXCEPT !.due = a] \in TicketRow
    BY DEF TypeOK, TicketRow
  <2> QED BY <1>5, <2>1 DEF EditTicket, ReduceTicket, TypeOK
<1> DEFINE Restated(t, st) == [ticket[t] EXCEPT !.status = st]
<1>6. ASSUME NEW t \in Tickets, NEW st \in {InPayment, Paid, Cancelled}
      PROVE Restated(t, st) \in TicketRow
  BY DEF TypeOK, TicketRow
<1>7. ASSUME NEW t \in Tickets, StartPayment(t) PROVE TypeOK'
  <2>1. Restated(t, InPayment) \in TicketRow BY <1>6
  <2> QED BY <1>7, <2>1 DEF StartPayment, TypeOK
<1>8. ASSUME NEW t \in Tickets, CloseByCourtesy(t) PROVE TypeOK'
  <2>1. Restated(t, Paid) \in TicketRow BY <1>6
  <2> QED BY <1>8, <2>1 DEF CloseByCourtesy, Released, TypeOK
<1>9. ASSUME NEW t \in Tickets, NEW p \in Payments, NEW a \in Amounts, NEW cash \in BOOLEAN,
             CreatePayment(p, t, a, cash)
      PROVE TypeOK'
  <2>1. [status |-> Active, ticket |-> t, shift |-> ticket[t].shift,
         amount |-> a, cash |-> cash] \in PaymentRow
    BY DEF TypeOK, TicketRow, PaymentRow
  <2>2. payment' \in [Payments -> PaymentRow]
    BY <1>9, <2>1 DEF CreatePayment, TypeOK
  <2>3. Restated(t, Paid) \in TicketRow BY <1>6
  <2>4. CASE Covers(payment', t)
    BY <1>9, <2>2, <2>3, <2>4 DEF CreatePayment, Released, TypeOK
  <2>5. CASE ~Covers(payment', t)
    BY <1>9, <2>2, <2>5 DEF CreatePayment, TypeOK
  <2> QED BY <2>4, <2>5
<1>10. ASSUME NEW t \in Tickets, CancelTicket(t) PROVE TypeOK'
  <2>1. Restated(t, Cancelled) \in TicketRow BY <1>6
  <2>2. ASSUME NEW p \in Payments
        PROVE [payment[p] EXCEPT !.status = Cancelled] \in PaymentRow
    BY DEF TypeOK, PaymentRow
  <2>3. payment' \in [Payments -> PaymentRow]
    BY <1>10, <2>2 DEF CancelTicket, CancelledPayments, TypeOK
  <2> QED BY <1>10, <2>1, <2>3 DEF CancelTicket, Released, TypeOK
<1>11. CASE UNCHANGED vars
  BY <1>11 DEF vars, TypeOK
<1> QED
  BY <1>1, <1>2, <1>3, <1>4, <1>5, <1>7, <1>8, <1>9, <1>10, <1>11
     DEF Next, ShiftStep, TicketStep

\* The rows always have the shape of their tables.
THEOREM TypeCorrect == Spec => []TypeOK
  BY InitTypeOK, NextTypeOK, PTL DEF Spec

-----------------------------------------------------------------------------
(* Sums over rows that a step leaves alone are the same sum.               *)

\* What a ticket was paid depends on its active payments and their amounts.
LEMMA SamePaid ==
  ASSUME NEW f, NEW g, NEW t,
         ActivePaymentsOf(f, t) = ActivePaymentsOf(g, t),
         \A p \in ActivePaymentsOf(f, t) : f[p].amount = g[p].amount
  PROVE  PaidTo(f, t) = PaidTo(g, t)
<1> DEFINE S == ActivePaymentsOf(f, t)
<1>1. [p \in S |-> f[p].amount] = [p \in S |-> g[p].amount]
  OBVIOUS
<1> QED BY <1>1 DEF PaidTo

\* The expected cash of a shift depends on its opening cash, its active cash
\* payments and its expenses.
LEMMA SameExpectedCash ==
  ASSUME NEW s, shift'[s].opening = shift[s].opening,
         CashPaymentsIn(payment', s) = CashPaymentsIn(payment, s),
         \A p \in CashPaymentsIn(payment, s) : payment'[p].amount = payment[p].amount,
         ExpensesIn(expense', s) = ExpensesIn(expense, s),
         \A e \in ExpensesIn(expense, s) : expense'[e].amount = expense[e].amount
  PROVE  ExpectedCash(s)' = ExpectedCash(s)
<1> DEFINE P == CashPaymentsIn(payment, s)
           E == ExpensesIn(expense, s)
<1>1. [p \in P |-> payment'[p].amount] = [p \in P |-> payment[p].amount]
  OBVIOUS
<1>2. [e \in E |-> expense'[e].amount] = [e \in E |-> expense[e].amount]
  OBVIOUS
<1>3. ExpectedCash(s)' = shift'[s].opening
                           + SumFunction([p \in P |-> payment'[p].amount])
                           - SumFunction([e \in E |-> expense'[e].amount])
  BY DEF ExpectedCash
<1> HIDE DEF P, E
<1>4. ExpectedCash(s)' = shift[s].opening
                           + SumFunction([p \in P |-> payment[p].amount])
                           - SumFunction([e \in E |-> expense[e].amount])
  BY <1>1, <1>2, <1>3
<1> QED BY <1>4 DEF ExpectedCash, P, E

-----------------------------------------------------------------------------
(* The invariant is inductive.                                             *)

LEMMA InitIInv == Init => IInv
<1> SUFFICES ASSUME Init PROVE IInv
  OBVIOUS
<1>1. TypeOK
  BY InitTypeOK
<1>2. OneOpenShift /\ ActiveTicketsInOpenShift /\ OneActiveTicketPerTable /\ ActiveOnTable
  BY DEF Init, OneOpenShift, ActiveTicketsInOpenShift, OneActiveTicketPerTable,
         ActiveOnTable, IsCurrent
<1>3. CacheAgrees
  BY DEF Init, CacheAgrees, Taken
<1>4. PaymentInItsShift /\ MoneyOnlyOnBilled
  BY DEF Init, PaymentInItsShift, MoneyOnlyOnBilled, ActivePaymentsOf
<1>5. PaidIsCovered /\ ClosedShiftBalances
  BY DEF Init, PaidIsCovered, ClosedShiftBalances
<1> QED BY <1>1, <1>2, <1>3, <1>4, <1>5 DEF IInv

\* What each part of the invariant reads: a step that leaves those rows
\* alone keeps it.
LEMMA Untouched ==
  ASSUME IInv
  PROVE  /\ UNCHANGED shift => OneOpenShift'
         /\ UNCHANGED <<shift, ticket>> => ActiveTicketsInOpenShift'
         /\ UNCHANGED ticket => OneActiveTicketPerTable' /\ ActiveOnTable'
         /\ UNCHANGED <<ticket, cache>> => CacheAgrees'
         /\ UNCHANGED <<ticket, payment>> =>
               PaymentInItsShift' /\ MoneyOnlyOnBilled' /\ PaidIsCovered'
         /\ UNCHANGED <<shift, expected, payment, expense>> => ClosedShiftBalances'
<1>1. UNCHANGED shift => OneOpenShift'
  BY DEF IInv, OneOpenShift, IsCurrent
<1>2. UNCHANGED <<shift, ticket>> => ActiveTicketsInOpenShift'
  BY DEF IInv, ActiveTicketsInOpenShift, IsCurrent
<1>3. UNCHANGED ticket => OneActiveTicketPerTable' /\ ActiveOnTable'
  BY DEF IInv, OneActiveTicketPerTable, ActiveOnTable
<1>4. UNCHANGED <<ticket, cache>> => CacheAgrees'
  BY DEF IInv, CacheAgrees, Taken
<1>5. UNCHANGED <<ticket, payment>> =>
         PaymentInItsShift' /\ MoneyOnlyOnBilled' /\ PaidIsCovered'
  BY DEF IInv, PaymentInItsShift, MoneyOnlyOnBilled, PaidIsCovered
<1>6. UNCHANGED <<shift, expected, payment, expense>> => ClosedShiftBalances'
  BY DEF IInv, ClosedShiftBalances, ExpectedCash
<1> QED BY <1>1, <1>2, <1>3, <1>4, <1>5, <1>6

\* Opening a shift when no other is open.
LEMMA OpenShiftKeepsIInv ==
  ASSUME IInv, TypeOK', NEW s \in Shifts, NEW a \in Amounts, OpenShift(s, a)
  PROVE  IInv'
<1>1. /\ shift[s].status = Absent
      /\ \A r \in Shifts : ~IsCurrent(r)
      /\ shift' = [shift EXCEPT ![s] = [@ EXCEPT !.status = Open, !.opening = a]]
      /\ UNCHANGED <<expected, ticket, cache, payment, expense>>
  BY DEF OpenShift
<1>2. shift'[s].status = Open
  BY <1>1 DEF IInv, TypeOK, ShiftRow
<1>3. \A r \in Shifts : r # s => shift'[r] = shift[r]
  BY <1>1 DEF IInv, TypeOK
<1>4. OneOpenShift'
  BY <1>1, <1>3 DEF OneOpenShift, IsCurrent
<1>5. ActiveTicketsInOpenShift'
  BY <1>1, <1>2, <1>3 DEF IInv, ActiveTicketsInOpenShift, IsCurrent
<1>6. ClosedShiftBalances'
  <2> SUFFICES ASSUME NEW r \in Shifts, shift'[r].status = Closed
               PROVE  expected'[r] = ExpectedCash(r)'
    BY DEF ClosedShiftBalances
  <2>1. shift'[r] = shift[r]
    BY <1>2, <1>3
  <2>2. ExpectedCash(r)' = ExpectedCash(r)
    BY <1>1, <2>1 DEF ExpectedCash
  <2> QED BY <1>1, <2>1, <2>2 DEF IInv, ClosedShiftBalances
<1> QED BY <1>1, <1>4, <1>5, <1>6, Untouched DEF IInv

\* Closing a shift that no active account belongs to.
LEMMA CloseShiftKeepsIInv ==
  ASSUME IInv, TypeOK', NEW s \in Shifts, NEW a \in Amounts, CloseShift(s, a)
  PROVE  IInv'
<1>1. /\ \A t \in Tickets : ~BlocksClosing(t, s)
      /\ shift' = [shift EXCEPT ![s] = [@ EXCEPT !.status = Closed, !.declared = a]]
      /\ expected' = [expected EXCEPT ![s] = ExpectedCash(s)]
      /\ UNCHANGED <<ticket, cache, payment, expense>>
  BY DEF CloseShift
<1>2. shift'[s].status = Closed /\ shift'[s].opening = shift[s].opening
  BY <1>1 DEF IInv, TypeOK, ShiftRow
<1>3. \A r \in Shifts : r # s => shift'[r] = shift[r] /\ expected'[r] = expected[r]
  BY <1>1 DEF IInv, TypeOK
<1>4. OneOpenShift'
  BY <1>2, <1>3 DEF IInv, OneOpenShift, IsCurrent
<1>5. ActiveTicketsInOpenShift'
  <2> SUFFICES ASSUME NEW t \in Tickets, ticket'[t].status \in ActiveStatus
               PROVE  ticket'[t].shift \in Shifts /\ shift'[ticket'[t].shift].status = Open
    BY DEF ActiveTicketsInOpenShift, IsCurrent
  <2>1. ticket[t].shift \in Shifts /\ shift[ticket[t].shift].status = Open
    BY <1>1 DEF IInv, ActiveTicketsInOpenShift, IsCurrent
  <2>2. ticket[t].shift # s
    BY <1>1 DEF BlocksClosing
  <2> QED BY <1>1, <1>3, <2>1, <2>2
<1>6. ClosedShiftBalances'
  <2> SUFFICES ASSUME NEW r \in Shifts, shift'[r].status = Closed
               PROVE  expected'[r] = ExpectedCash(r)'
    BY DEF ClosedShiftBalances
  <2>1. shift'[r].opening = shift[r].opening
    BY <1>2, <1>3
  <2>2. ExpectedCash(r)' = ExpectedCash(r)
    BY <1>1, <2>1 DEF ExpectedCash
  <2>3. CASE r = s
    BY <1>1, <2>2, <2>3 DEF IInv, TypeOK
  <2>4. CASE r # s
    BY <1>3, <2>2, <2>4 DEF IInv, ClosedShiftBalances
  <2> QED BY <2>3, <2>4
<1> QED BY <1>1, <1>4, <1>5, <1>6, Untouched DEF IInv

\* An expense is booked on an open shift, so no closed shift's recount moves.
LEMMA RegisterExpenseKeepsIInv ==
  ASSUME IInv, TypeOK', NEW s \in Shifts, NEW e \in Expenses, NEW a \in Amounts,
         RegisterExpense(e, s, a)
  PROVE  IInv'
<1>1. /\ expense[e].status = Absent
      /\ shift[s].status = Open
      /\ expense' = [expense EXCEPT ![e] = [status |-> Active, shift |-> s, amount |-> a]]
      /\ UNCHANGED <<shift, expected, ticket, cache, payment>>
  BY DEF RegisterExpense, IsCurrent
<1>2. expense'[e].shift = s /\ \A x \in Expenses : x # e => expense'[x] = expense[x]
  BY <1>1 DEF IInv, TypeOK
<1>3. ClosedShiftBalances'
  <2> SUFFICES ASSUME NEW r \in Shifts, shift'[r].status = Closed
               PROVE  expected'[r] = ExpectedCash(r)'
    BY DEF ClosedShiftBalances
  <2>1. r # s /\ shift[r].status = Closed
    BY <1>1
  <2>2. ExpensesIn(expense', r) = ExpensesIn(expense, r)
    BY <1>1, <1>2, <2>1 DEF ExpensesIn
  <2>3. \A x \in ExpensesIn(expense, r) : expense'[x].amount = expense[x].amount
    BY <1>1, <1>2 DEF ExpensesIn
  <2>4. ExpectedCash(r)' = ExpectedCash(r)
    BY <1>1, <2>2, <2>3, SameExpectedCash
  <2> QED BY <1>1, <2>1, <2>4 DEF IInv, ClosedShiftBalances
<1> QED BY <1>1, <1>3, Untouched DEF IInv

-----------------------------------------------------------------------------
(* Tickets.                                                                *)

\* A ticket that changes without taking or losing a payment.
LEMMA TicketStepKeepsMoney ==
  ASSUME IInv, NEW t \in Tickets,
         \A u \in Tickets : u # t => ticket'[u] = ticket[u],
         UNCHANGED payment,
         ActivePaymentsOf(payment, t) # {} =>
            ticket'[t].shift = ticket[t].shift /\ ticket'[t].status = InPayment,
         ticket'[t].status = Paid => ticket'[t].due = 0
  PROVE  PaymentInItsShift' /\ MoneyOnlyOnBilled' /\ PaidIsCovered'
<1>1. PaymentInItsShift'
  BY DEF IInv, PaymentInItsShift, ActivePaymentsOf
<1>2. MoneyOnlyOnBilled'
  BY DEF IInv, MoneyOnlyOnBilled
<1>3. PaidIsCovered'
  BY DEF IInv, PaidIsCovered
<1> QED BY <1>1, <1>2, <1>3

\* A step that makes no account active and moves none leaves the active
\* accounts where they were.
LEMMA FewerActiveTickets ==
  ASSUME IInv, UNCHANGED shift,
         \A u \in Tickets : ticket'[u].status \in ActiveStatus =>
             /\ ticket[u].status \in ActiveStatus
             /\ ticket'[u].table = ticket[u].table
             /\ ticket'[u].shift = ticket[u].shift
  PROVE  ActiveTicketsInOpenShift' /\ OneActiveTicketPerTable' /\ ActiveOnTable'
<1>1. ActiveTicketsInOpenShift'
  <2> SUFFICES ASSUME NEW u \in Tickets, ticket'[u].status \in ActiveStatus
               PROVE  ticket'[u].shift \in Shifts /\ shift'[ticket'[u].shift].status = Open
    BY DEF ActiveTicketsInOpenShift, IsCurrent
  <2>1. ticket[u].shift \in Shifts /\ shift[ticket[u].shift].status = Open
    BY DEF IInv, ActiveTicketsInOpenShift, IsCurrent
  <2> QED BY <2>1
<1>2. OneActiveTicketPerTable'
  <2> SUFFICES ASSUME NEW u \in Tickets, NEW v \in Tickets,
                      ticket'[u].status \in ActiveStatus,
                      ticket'[v].status \in ActiveStatus,
                      ticket'[u].table = ticket'[v].table
               PROVE  u = v
    BY DEF OneActiveTicketPerTable
  <2>1. ticket[u].status \in ActiveStatus /\ ticket[v].status \in ActiveStatus
    OBVIOUS
  <2>2. ticket[u].table = ticket[v].table
    OBVIOUS
  <2> QED BY <2>1, <2>2 DEF IInv, OneActiveTicketPerTable
<1>3. ActiveOnTable'
  <2> SUFFICES ASSUME NEW u \in Tickets, ticket'[u].status \in ActiveStatus
               PROVE  ticket'[u].table \in Tables
    BY DEF ActiveOnTable
  <2> QED BY DEF IInv, ActiveOnTable
<1> QED BY <1>1, <1>2, <1>3

\* Opening an account on a free table, in the open shift.
LEMMA OpenTicketKeepsIInv ==
  ASSUME IInv, TypeOK', NEW t \in Tickets, NEW b \in Tables, NEW s \in Shifts,
         OpenTicket(t, b, s)
  PROVE  IInv'
<1>1. /\ ticket[t].status = Absent
      /\ shift[s].status = Open
      /\ \A u \in Tickets : ticket[u].table = b => ticket[u].status \notin ActiveStatus
      /\ ticket' = [ticket EXCEPT ![t] =
                       [status |-> Open, table |-> b, shift |-> s, due |-> 0]]
      /\ cache' = [cache EXCEPT ![b] = Occupied]
      /\ UNCHANGED <<shift, expected, payment, expense>>
  BY DEF OpenTicket, IsCurrent, Taken
<1>2. /\ ticket'[t].status = Open /\ ticket'[t].table = b
      /\ ticket'[t].shift = s /\ ticket'[t].due = 0
      /\ \A u \in Tickets : u # t => ticket'[u] = ticket[u]
  BY <1>1 DEF IInv, TypeOK
<1>3. ActiveTicketsInOpenShift'
  <2> SUFFICES ASSUME NEW u \in Tickets, ticket'[u].status \in ActiveStatus
               PROVE  ticket'[u].shift \in Shifts /\ shift[ticket'[u].shift].status = Open
    BY <1>1 DEF ActiveTicketsInOpenShift, IsCurrent
  <2>1. CASE u = t
    BY <1>1, <1>2, <2>1
  <2>2. CASE u # t
    BY <1>2, <2>2 DEF IInv, ActiveTicketsInOpenShift, IsCurrent
  <2> QED BY <2>1, <2>2
<1>4. OneActiveTicketPerTable' /\ ActiveOnTable'
  <2>1. ActiveOnTable'
    BY <1>1, <1>2 DEF IInv, ActiveOnTable
  <2>2. ASSUME NEW u \in Tickets, NEW v \in Tickets,
               ticket'[u].status \in ActiveStatus,
               ticket'[v].status \in ActiveStatus,
               ticket'[u].table = ticket'[v].table
        PROVE  u = v
    <3>1. CASE u = t
      BY <1>1, <1>2, <2>2, <3>1
    <3>2. CASE v = t
      BY <1>1, <1>2, <2>2, <3>2
    <3>3. CASE u # t /\ v # t
      <4>1. ticket'[u] = ticket[u] /\ ticket'[v] = ticket[v]
        BY <1>2, <3>3
      <4> QED BY <2>2, <4>1 DEF IInv, OneActiveTicketPerTable
    <3> QED BY <3>1, <3>2, <3>3
  <2> QED BY <2>1, <2>2 DEF OneActiveTicketPerTable
<1>5. cache'[b] = Occupied /\ \A c \in Tables : c # b => cache'[c] = cache[c]
  BY <1>1 DEF IInv, TypeOK
<1>6. CacheAgrees'
  <2>1. ASSUME NEW c \in Tables, ~Taken(c)' PROVE cache'[c] = Free
    <3>1. c # b
      BY <1>2, <2>1 DEF Taken
    <3>2. ~Taken(c)
      <4> SUFFICES ASSUME NEW u \in Tickets, ticket[u].table = c,
                          ticket[u].status \in ActiveStatus
                   PROVE  FALSE
        BY DEF Taken
      <4>1. ticket'[u] = ticket[u]
        BY <1>1, <1>2
      <4> QED BY <2>1, <4>1 DEF Taken
    <3> QED BY <1>5, <3>1, <3>2 DEF IInv, CacheAgrees
  <2>2. ASSUME NEW u \in Tickets
        PROVE  /\ ticket'[u].status = Open => cache'[ticket'[u].table] = Occupied
               /\ ticket'[u].status = InPayment => cache'[ticket'[u].table] = InPayment
    <3>1. CASE u = t
      BY <1>2, <1>5, <3>1
    <3>2. CASE u # t
      <4>1. ticket'[u] = ticket[u]
        BY <1>2, <3>2
      <4>2. ticket[u].status \in ActiveStatus =>
               ticket[u].table # b /\ ticket[u].table \in Tables
        BY <1>1 DEF IInv, ActiveOnTable
      <4>3. ticket[u].status \in ActiveStatus => cache'[ticket[u].table] = cache[ticket[u].table]
        BY <1>5, <4>2
      <4> QED BY <4>1, <4>3 DEF IInv, CacheAgrees
    <3> QED BY <3>1, <3>2
  <2> QED BY <2>1, <2>2 DEF CacheAgrees
<1>7. PaymentInItsShift' /\ MoneyOnlyOnBilled' /\ PaidIsCovered'
  <2>1. ActivePaymentsOf(payment, t) = {}
    BY <1>1 DEF IInv, MoneyOnlyOnBilled
  <2> QED BY <1>1, <1>2, <2>1, TicketStepKeepsMoney
<1> QED BY <1>1, <1>3, <1>4, <1>6, <1>7, Untouched DEF IInv

\* Editing or reducing the total of an active account.
LEMMA EditTicketKeepsIInv ==
  ASSUME IInv, TypeOK', NEW t \in Tickets, NEW a \in Amounts,
         EditTicket(t, a) \/ ReduceTicket(t, a)
  PROVE  IInv'
<1>1. /\ ticket[t].status \in ActiveStatus
      /\ ticket' = [ticket EXCEPT ![t].due = a]
      /\ UNCHANGED <<shift, expected, cache, payment, expense>>
  BY DEF EditTicket, ReduceTicket
<1>2. \A u \in Tickets : /\ ticket'[u].status = ticket[u].status
                         /\ ticket'[u].table = ticket[u].table
                         /\ ticket'[u].shift = ticket[u].shift
                         /\ u # t => ticket'[u] = ticket[u]
  BY <1>1 DEF IInv, TypeOK, TicketRow
<1>3. ActiveTicketsInOpenShift' /\ OneActiveTicketPerTable' /\ ActiveOnTable'
  BY <1>1, <1>2, FewerActiveTickets
<1>4. CacheAgrees'
  <2>1. ASSUME NEW b \in Tables, ~Taken(b)' PROVE cache'[b] = Free
    <3>1. ~Taken(b)
      BY <1>2, <2>1 DEF Taken
    <3> QED BY <1>1, <3>1 DEF IInv, CacheAgrees
  <2>2. ASSUME NEW u \in Tickets
        PROVE  /\ ticket'[u].status = Open => cache'[ticket'[u].table] = Occupied
               /\ ticket'[u].status = InPayment => cache'[ticket'[u].table] = InPayment
    <3>1. /\ ticket[u].status = Open => cache[ticket[u].table] = Occupied
          /\ ticket[u].status = InPayment => cache[ticket[u].table] = InPayment
      BY DEF IInv, CacheAgrees
    <3> QED BY <1>1, <1>2, <3>1
  <2> QED BY <2>1, <2>2 DEF CacheAgrees
<1>5. PaymentInItsShift' /\ MoneyOnlyOnBilled' /\ PaidIsCovered'
  <2>1. ActivePaymentsOf(payment, t) # {} => ticket[t].status = InPayment
    BY <1>1 DEF IInv, MoneyOnlyOnBilled
  <2>2. ticket'[t].status # Paid
    BY <1>1, <1>2
  <2>3. ActivePaymentsOf(payment, t) # {} =>
           ticket'[t].shift = ticket[t].shift /\ ticket'[t].status = InPayment
    BY <1>2, <2>1
  <2> QED BY <1>1, <1>2, <2>2, <2>3, TicketStepKeepsMoney
<1> QED BY <1>1, <1>3, <1>4, <1>5, Untouched DEF IInv

\* Billing an open account.
LEMMA StartPaymentKeepsIInv ==
  ASSUME IInv, TypeOK', NEW t \in Tickets, StartPayment(t)
  PROVE  IInv'
<1>1. /\ ticket[t].status = Open
      /\ ticket' = [ticket EXCEPT ![t].status = InPayment]
      /\ cache' = [cache EXCEPT ![ticket[t].table] = InPayment]
      /\ UNCHANGED <<shift, expected, payment, expense>>
  BY DEF StartPayment
<1>2. /\ ticket'[t].status = InPayment
      /\ \A u \in Tickets : /\ ticket'[u].table = ticket[u].table
                            /\ ticket'[u].shift = ticket[u].shift
                            /\ u # t => ticket'[u] = ticket[u]
  BY <1>1 DEF IInv, TypeOK, TicketRow
<1>3. ActiveTicketsInOpenShift' /\ OneActiveTicketPerTable' /\ ActiveOnTable'
  BY <1>1, <1>2, FewerActiveTickets
<1>5. /\ ticket[t].table \in Tables
      /\ cache'[ticket[t].table] = InPayment
      /\ \A c \in Tables : c # ticket[t].table => cache'[c] = cache[c]
  BY <1>1 DEF IInv, TypeOK, ActiveOnTable
<1>6. CacheAgrees'
  <2>1. ASSUME NEW b \in Tables, ~Taken(b)' PROVE cache'[b] = Free
    <3>1. b # ticket[t].table
      BY <1>2, <2>1 DEF Taken
    <3>2. ~Taken(b)
      BY <1>2, <2>1, <3>1 DEF Taken
    <3> QED BY <1>5, <3>1, <3>2 DEF IInv, CacheAgrees
  <2>2. ASSUME NEW u \in Tickets, u # t, ticket[u].status \in ActiveStatus
        PROVE  cache'[ticket'[u].table] = cache[ticket[u].table]
    <3>1. ticket[u].table # ticket[t].table
      BY <1>1, <2>2 DEF IInv, OneActiveTicketPerTable
    <3>2. ticket[u].table \in Tables
      BY <2>2 DEF IInv, ActiveOnTable
    <3> QED BY <1>2, <1>5, <3>1, <3>2
  <2>3. ASSUME NEW u \in Tickets
        PROVE  /\ ticket'[u].status = Open => cache'[ticket'[u].table] = Occupied
               /\ ticket'[u].status = InPayment => cache'[ticket'[u].table] = InPayment
    <3>1. CASE u = t
      BY <1>2, <1>5, <3>1
    <3>2. CASE u # t
      BY <1>2, <2>2, <3>2 DEF IInv, CacheAgrees
    <3> QED BY <3>1, <3>2
  <2> QED BY <2>1, <2>3 DEF CacheAgrees
<1>7. PaymentInItsShift' /\ MoneyOnlyOnBilled' /\ PaidIsCovered'
  BY <1>1, <1>2, TicketStepKeepsMoney
<1> QED BY <1>1, <1>3, <1>6, <1>7, Untouched DEF IInv

\* An account that stops being active frees its table.
LEMMA LeavingFreesTable ==
  ASSUME IInv, NEW t \in Tickets, NEW st \in {Paid, Cancelled},
         ticket[t].status \in ActiveStatus,
         ticket' = [ticket EXCEPT ![t].status = st],
         cache' = Released(t),
         UNCHANGED shift
  PROVE  /\ ticket'[t].status = st
         /\ \A u \in Tickets : /\ ticket'[u].table = ticket[u].table
                               /\ ticket'[u].shift = ticket[u].shift
                               /\ ticket'[u].due = ticket[u].due
                               /\ u # t => ticket'[u] = ticket[u]
         /\ ActiveTicketsInOpenShift'
         /\ OneActiveTicketPerTable'
         /\ ActiveOnTable'
         /\ CacheAgrees'
<1>1. /\ ticket'[t].status = st
      /\ \A u \in Tickets : /\ ticket'[u].table = ticket[u].table
                            /\ ticket'[u].shift = ticket[u].shift
                            /\ ticket'[u].due = ticket[u].due
                            /\ u # t => ticket'[u] = ticket[u]
  BY DEF IInv, TypeOK, TicketRow
<1> DEFINE Act(u) == ticket[u].status \in ActiveStatus
<1>2. \A u \in Tickets : ticket'[u].status \in ActiveStatus => u # t /\ Act(u)
  BY <1>1
<1>3. ActiveTicketsInOpenShift' /\ OneActiveTicketPerTable' /\ ActiveOnTable'
  BY <1>1, <1>2, FewerActiveTickets
<1>4. /\ ticket[t].table \in Tables
      /\ cache'[ticket[t].table] = Free
      /\ \A c \in Tables : c # ticket[t].table => cache'[c] = cache[c]
  BY DEF IInv, TypeOK, ActiveOnTable, Released
<1>5. CacheAgrees'
  <2>1. ASSUME NEW b \in Tables, ~Taken(b)' PROVE cache'[b] = Free
    <3>1. CASE b = ticket[t].table
      BY <1>4, <3>1
    <3>2. CASE b # ticket[t].table
      <4>1. ~Taken(b)
        BY <1>1, <2>1, <3>2 DEF Taken
      <4> QED BY <1>4, <3>2, <4>1 DEF IInv, CacheAgrees
    <3> QED BY <3>1, <3>2
  <2>2. ASSUME NEW u \in Tickets, ticket'[u].status \in ActiveStatus
        PROVE  /\ ticket'[u] = ticket[u]
               /\ cache'[ticket'[u].table] = cache[ticket[u].table]
    <3>1. u # t /\ Act(u)
      BY <1>2, <2>2
    <3>2. ticket[u].table # ticket[t].table
      BY <3>1 DEF IInv, OneActiveTicketPerTable
    <3>3. ticket[u].table \in Tables
      BY <3>1 DEF IInv, ActiveOnTable
    <3> QED BY <1>1, <1>4, <3>1, <3>2, <3>3
  <2>3. ASSUME NEW u \in Tickets
        PROVE  /\ ticket'[u].status = Open => cache'[ticket'[u].table] = Occupied
               /\ ticket'[u].status = InPayment => cache'[ticket'[u].table] = InPayment
    <3>1. /\ ticket[u].status = Open => cache[ticket[u].table] = Occupied
          /\ ticket[u].status = InPayment => cache[ticket[u].table] = InPayment
      BY DEF IInv, CacheAgrees
    <3> QED BY <2>2, <3>1
  <2> QED BY <2>1, <2>3 DEF CacheAgrees
<1> QED BY <1>1, <1>3, <1>5

\* Closing an account that a courtesy left with nothing to pay.
LEMMA CloseByCourtesyKeepsIInv ==
  ASSUME IInv, TypeOK', NEW t \in Tickets, CloseByCourtesy(t)
  PROVE  IInv'
<1>1. /\ ticket[t].status = Open /\ ticket[t].due = 0
      /\ ticket' = [ticket EXCEPT ![t].status = Paid]
      /\ cache' = Released(t)
      /\ UNCHANGED <<shift, expected, payment, expense>>
  BY DEF CloseByCourtesy
<1>2. /\ ticket'[t].status = Paid /\ ticket'[t].due = 0
      /\ \A u \in Tickets : u # t => ticket'[u] = ticket[u]
      /\ ActiveTicketsInOpenShift' /\ OneActiveTicketPerTable' /\ ActiveOnTable' /\ CacheAgrees'
  BY <1>1, LeavingFreesTable
<1>3. PaymentInItsShift' /\ MoneyOnlyOnBilled' /\ PaidIsCovered'
  <2>1. ActivePaymentsOf(payment, t) = {}
    BY <1>1 DEF IInv, MoneyOnlyOnBilled
  <2> QED BY <1>1, <1>2, <2>1, TicketStepKeepsMoney
<1> QED BY <1>1, <1>2, <1>3, Untouched DEF IInv

-----------------------------------------------------------------------------
(* Payments.                                                               *)

\* Taking a payment, which may settle the account.
LEMMA CreatePaymentKeepsIInv ==
  ASSUME IInv, TypeOK', NEW t \in Tickets, NEW p \in Payments, NEW a \in Amounts,
         NEW cash \in BOOLEAN, CreatePayment(p, t, a, cash)
  PROVE  IInv'
<1>1. /\ payment[p].status = Absent
      /\ ticket[t].status = InPayment
      /\ payment' = [payment EXCEPT ![p] =
                       [status |-> Active, ticket |-> t, shift |-> ticket[t].shift,
                        amount |-> a, cash |-> cash]]
      /\ UNCHANGED <<shift, expected, expense>>
  BY DEF CreatePayment
<1>2. /\ payment'[p].status = Active
      /\ payment'[p].ticket = t
      /\ payment'[p].shift = ticket[t].shift
      /\ \A q \in Payments : q # p => payment'[q] = payment[q]
  BY <1>1 DEF IInv, TypeOK
<1>3. \/ /\ PaidTo(payment', t) >= ticket[t].due
         /\ ticket' = [ticket EXCEPT ![t].status = Paid]
         /\ cache' = Released(t)
      \/ UNCHANGED <<ticket, cache>>
  BY DEF CreatePayment, Covers
<1>4. /\ \A u \in Tickets : ticket'[u].shift = ticket[u].shift /\ (u # t => ticket'[u] = ticket[u])
      /\ ticket'[t].due = ticket[t].due
      /\ \/ ticket'[t].status = Paid /\ PaidTo(payment', t) >= ticket'[t].due
         \/ ticket'[t].status = InPayment
      /\ ActiveTicketsInOpenShift' /\ OneActiveTicketPerTable' /\ ActiveOnTable' /\ CacheAgrees'
  <2>1. CASE UNCHANGED <<ticket, cache>>
    BY <1>1, <2>1, Untouched
  <2>2. CASE /\ PaidTo(payment', t) >= ticket[t].due
             /\ ticket' = [ticket EXCEPT ![t].status = Paid]
             /\ cache' = Released(t)
    BY <1>1, <2>2, LeavingFreesTable
  <2> QED BY <1>3, <2>1, <2>2
<1>5. ASSUME NEW u \in Tickets, u # t
      PROVE  /\ ActivePaymentsOf(payment', u) = ActivePaymentsOf(payment, u)
             /\ PaidTo(payment', u) = PaidTo(payment, u)
  <2>1. ActivePaymentsOf(payment', u) = ActivePaymentsOf(payment, u)
    BY <1>1, <1>2, <1>5 DEF ActivePaymentsOf
  <2>2. \A q \in ActivePaymentsOf(payment, u) : payment'[q].amount = payment[q].amount
    BY <1>1, <1>2 DEF ActivePaymentsOf
  <2> QED BY <2>1, <2>2, SamePaid
<1>6. PaymentInItsShift'
  <2> SUFFICES ASSUME NEW q \in Payments, payment'[q].status = Active
               PROVE  /\ payment'[q].ticket \in Tickets
                      /\ payment'[q].shift = ticket'[payment'[q].ticket].shift
    BY DEF PaymentInItsShift
  <2>1. CASE q = p
    BY <1>2, <1>4, <2>1
  <2>2. CASE q # p
    <3>1. payment[q].ticket \in Tickets /\ payment[q].shift = ticket[payment[q].ticket].shift
      BY <1>2, <2>2 DEF IInv, PaymentInItsShift
    <3> QED BY <1>2, <1>4, <2>2, <3>1
  <2> QED BY <2>1, <2>2
<1>7. MoneyOnlyOnBilled'
  <2> SUFFICES ASSUME NEW u \in Tickets, ticket'[u].status \in {Absent, Open, Cancelled}
               PROVE  ActivePaymentsOf(payment', u) = {}
    BY DEF MoneyOnlyOnBilled
  <2>1. u # t
    BY <1>4
  <2>2. ticket'[u] = ticket[u]
    BY <1>4, <2>1
  <2> QED BY <1>5, <2>1, <2>2 DEF IInv, MoneyOnlyOnBilled
<1>8. PaidIsCovered'
  <2> SUFFICES ASSUME NEW u \in Tickets, ticket'[u].status = Paid
               PROVE  ticket'[u].due = 0 \/ PaidTo(payment', u) >= ticket'[u].due
    BY DEF PaidIsCovered
  <2>1. CASE u = t
    BY <1>4, <2>1
  <2>2. CASE u # t
    <3>1. ticket'[u] = ticket[u]
      BY <1>4, <2>2
    <3>2. ticket[u].due = 0 \/ PaidTo(payment, u) >= ticket[u].due
      BY <3>1 DEF IInv, PaidIsCovered
    <3> QED BY <1>5, <2>2, <3>1, <3>2
  <2> QED BY <2>1, <2>2
<1>9. ClosedShiftBalances'
  <2> SUFFICES ASSUME NEW r \in Shifts, shift[r].status = Closed
               PROVE  expected'[r] = ExpectedCash(r)'
    BY <1>1 DEF ClosedShiftBalances
  <2>1. payment'[p].shift # r
    BY <1>1, <1>2 DEF IInv, ActiveTicketsInOpenShift, IsCurrent
  <2>2. CashPaymentsIn(payment', r) = CashPaymentsIn(payment, r)
    BY <1>1, <1>2, <2>1 DEF CashPaymentsIn
  <2>3. \A q \in CashPaymentsIn(payment, r) : payment'[q].amount = payment[q].amount
    BY <1>1, <1>2 DEF CashPaymentsIn
  <2>4. ExpectedCash(r)' = ExpectedCash(r)
    BY <1>1, <2>2, <2>3, SameExpectedCash
  <2> QED BY <1>1, <2>4 DEF IInv, ClosedShiftBalances
<1> QED BY <1>1, <1>4, <1>6, <1>7, <1>8, <1>9, Untouched DEF IInv

\* Cancelling an account: its payments are in an open shift, so no closed
\* shift loses cash.
LEMMA CancelTicketKeepsIInv ==
  ASSUME IInv, TypeOK', NEW t \in Tickets, CancelTicket(t)
  PROVE  IInv'
<1>1. /\ ticket[t].status \in ActiveStatus
      /\ ticket' = [ticket EXCEPT ![t].status = Cancelled]
      /\ payment' = CancelledPayments(t)
      /\ cache' = Released(t)
      /\ UNCHANGED <<shift, expected, expense>>
  BY DEF CancelTicket
<1>2. /\ ticket'[t].status = Cancelled
      /\ \A u \in Tickets : ticket'[u].shift = ticket[u].shift /\ (u # t => ticket'[u] = ticket[u])
      /\ ActiveTicketsInOpenShift' /\ OneActiveTicketPerTable' /\ ActiveOnTable' /\ CacheAgrees'
  BY <1>1, LeavingFreesTable
<1>3. ASSUME NEW q \in Payments
      PROVE  /\ payment'[q].ticket = payment[q].ticket
             /\ payment'[q].shift = payment[q].shift
             /\ payment'[q].amount = payment[q].amount
             /\ payment'[q].cash = payment[q].cash
             /\ payment'[q].status = IF q \in ActivePaymentsOf(payment, t)
                                     THEN Cancelled ELSE payment[q].status
  <2>1. payment[q] \in PaymentRow BY DEF IInv, TypeOK
  <2>2. payment'[q] = IF q \in ActivePaymentsOf(payment, t)
                      THEN [payment[q] EXCEPT !.status = Cancelled] ELSE payment[q]
    BY <1>1 DEF CancelledPayments
  <2>3. CASE q \in ActivePaymentsOf(payment, t)
    <3>1. payment'[q] = [payment[q] EXCEPT !.status = Cancelled] BY <2>2, <2>3
    <3> QED BY <2>1, <2>3, <3>1 DEF PaymentRow
  <2>4. CASE q \notin ActivePaymentsOf(payment, t) BY <2>2, <2>4
  <2> QED BY <2>3, <2>4
<1>4. ASSUME NEW u \in Tickets, u # t
      PROVE  /\ ActivePaymentsOf(payment', u) = ActivePaymentsOf(payment, u)
             /\ PaidTo(payment', u) = PaidTo(payment, u)
  <2>1. ActivePaymentsOf(payment', u) = ActivePaymentsOf(payment, u)
    BY <1>3, <1>4 DEF ActivePaymentsOf
  <2>2. \A q \in ActivePaymentsOf(payment, u) : payment'[q].amount = payment[q].amount
    BY <1>3 DEF ActivePaymentsOf
  <2> QED BY <2>1, <2>2, SamePaid
<1>5. PaymentInItsShift'
  <2> SUFFICES ASSUME NEW q \in Payments, payment'[q].status = Active
               PROVE  /\ payment'[q].ticket \in Tickets
                      /\ payment'[q].shift = ticket'[payment'[q].ticket].shift
    BY DEF PaymentInItsShift
  <2>1. payment[q].status = Active
    BY <1>3
  <2>2. payment[q].ticket \in Tickets /\ payment[q].shift = ticket[payment[q].ticket].shift
    BY <2>1 DEF IInv, PaymentInItsShift
  <2> QED BY <1>2, <1>3, <2>2
<1>6. MoneyOnlyOnBilled'
  <2>1. ActivePaymentsOf(payment', t) = {}
    BY <1>3 DEF ActivePaymentsOf
  <2>2. ASSUME NEW u \in Tickets, u # t, ticket'[u].status \in {Absent, Open, Cancelled}
        PROVE  ActivePaymentsOf(payment', u) = {}
    <3>1. ticket'[u] = ticket[u]
      BY <1>2, <2>2
    <3> QED BY <1>4, <2>2, <3>1 DEF IInv, MoneyOnlyOnBilled
  <2> QED BY <2>1, <2>2 DEF MoneyOnlyOnBilled
<1>7. PaidIsCovered'
  <2> SUFFICES ASSUME NEW u \in Tickets, ticket'[u].status = Paid
               PROVE  ticket'[u].due = 0 \/ PaidTo(payment', u) >= ticket'[u].due
    BY DEF PaidIsCovered
  <2>1. u # t
    BY <1>2
  <2>2. ticket'[u] = ticket[u]
    BY <1>2, <2>1
  <2>3. ticket[u].due = 0 \/ PaidTo(payment, u) >= ticket[u].due
    BY <2>2 DEF IInv, PaidIsCovered
  <2> QED BY <1>4, <2>1, <2>2, <2>3
<1>8. ClosedShiftBalances'
  <2> SUFFICES ASSUME NEW r \in Shifts, shift[r].status = Closed
               PROVE  expected'[r] = ExpectedCash(r)'
    BY <1>1 DEF ClosedShiftBalances
  <2>1. ASSUME NEW q \in ActivePaymentsOf(payment, t) PROVE payment[q].shift # r
    <3>1. payment[q].shift = ticket[t].shift
      BY <2>1 DEF IInv, PaymentInItsShift, ActivePaymentsOf
    <3> QED BY <1>1, <3>1 DEF IInv, ActiveTicketsInOpenShift, IsCurrent
  <2>2. CashPaymentsIn(payment', r) = CashPaymentsIn(payment, r)
    BY <1>3, <2>1 DEF CashPaymentsIn
  <2>3. \A q \in CashPaymentsIn(payment, r) : payment'[q].amount = payment[q].amount
    BY <1>3 DEF CashPaymentsIn
  <2>4. ExpectedCash(r)' = ExpectedCash(r)
    BY <1>1, <2>2, <2>3, SameExpectedCash
  <2> QED BY <1>1, <2>4 DEF IInv, ClosedShiftBalances
<1> QED BY <1>1, <1>2, <1>5, <1>6, <1>7, <1>8, Untouched DEF IInv

-----------------------------------------------------------------------------
(* The theorems.                                                           *)

LEMMA NextIInv == IInv /\ [Next]_vars => IInv'
<1> SUFFICES ASSUME IInv, [Next]_vars PROVE IInv'
  OBVIOUS
<1>1. TypeOK'
  BY NextTypeOK DEF IInv
<1>2. ASSUME NEW s \in Shifts, ShiftStep(s) PROVE IInv'
  BY <1>1, <1>2, OpenShiftKeepsIInv, CloseShiftKeepsIInv, RegisterExpenseKeepsIInv
     DEF ShiftStep
<1>3. ASSUME NEW t \in Tickets, TicketStep(t) PROVE IInv'
  BY <1>1, <1>3, OpenTicketKeepsIInv, EditTicketKeepsIInv, StartPaymentKeepsIInv,
     CloseByCourtesyKeepsIInv, CreatePaymentKeepsIInv, CancelTicketKeepsIInv
     DEF TicketStep
<1>4. CASE UNCHANGED vars
  BY <1>1, <1>4, Untouched DEF vars, IInv
<1> QED BY <1>2, <1>3, <1>4 DEF Next

\* Every reachable state satisfies the inductive invariant.
THEOREM Invariant == Spec => []IInv
  BY InitIInv, NextIInv, PTL DEF Spec

\* There is never more than one open cash shift (open_cash_shift).
THEOREM OpenShiftIsUnique == Spec => []OneOpenShift
<1>1. IInv => OneOpenShift
  BY DEF IInv
<1> QED BY <1>1, Invariant, PTL

\* An account that can take money is in the open shift (close_cash_shift,
\* open_ticket_for_table).
THEOREM ActiveTicketsAreInOpenShift == Spec => []ActiveTicketsInOpenShift
<1>1. IInv => ActiveTicketsInOpenShift
  BY DEF IInv
<1> QED BY <1>1, Invariant, PTL

\* No table ever has two active accounts (get_free_active_table).
THEOREM TablesHaveOneTicket == Spec => []OneActiveTicketPerTable
<1>1. IInv => OneActiveTicketPerTable
  BY DEF IInv
<1> QED BY <1>1, Invariant, PTL

\* The cached table status is always the one its account implies.
THEOREM CacheIsNeverStale == Spec => []CacheAgrees
<1>1. IInv => CacheAgrees
  BY DEF IInv
<1> QED BY <1>1, Invariant, PTL

\* Open and cancelled accounts hold no money, settled ones are covered
\* (create_payment, cancel_ticket).
THEOREM MoneyIsAccountedFor == Spec => []MoneyFollowsTickets
<1>1. IInv => MoneyFollowsTickets
  BY DEF IInv, MoneyFollowsTickets
<1> QED BY <1>1, Invariant, PTL

\* The preflight never finds the floor in a state it would refuse
\* (run_preflight).
THEOREM PreflightNeverFails == Spec => []PreflightPasses
<1>1. IInv => PreflightPasses
  <2> SUFFICES ASSUME IInv PROVE PreflightPasses
    OBVIOUS
  <2>1. OneOpenShift /\ OneActiveTicketPerTable /\ MoneyOnlyOnBilled
    BY DEF IInv
  <2>2. ~SeveralOpenShifts
    BY <2>1 DEF SeveralOpenShifts, OneOpenShift
  <2>3. DuplicateActiveTables = {}
    BY <2>1 DEF DuplicateActiveTables, ActiveTicketsAt, OneActiveTicketPerTable
  <2>4. CancelledTicketPayments = {}
    BY <2>1 DEF CancelledTicketPayments, MoneyOnlyOnBilled
  <2> QED BY <2>2, <2>3, <2>4 DEF PreflightPasses
<1> QED BY <1>1, Invariant, PTL

\* The expected cash stored at a closing stays the one a recount gives
\* (close_cash_shift against every later booking).
THEOREM ClosedShiftsBalance == Spec => []ClosedShiftBalances
<1>1. IInv => ClosedShiftBalances
  BY DEF IInv
<1> QED BY <1>1, Invariant, PTL

-----------------------------------------------------------------------------
(* Every account of the floor lives by AccountLifecycle.                   *)

LEMMA PaidType ==
  ASSUME IsFiniteSet(Payments), NEW f \in [Payments -> PaymentRow], NEW t
  PROVE  PaidTo(f, t) \in Nat /\ IsFiniteSet(ActivePaymentsOf(f, t))
<1> DEFINE S == ActivePaymentsOf(f, t)
           amount == [p \in S |-> f[p].amount]
<1>1. S \subseteq Payments BY DEF ActivePaymentsOf
<1>2. IsFiniteSet(S) BY <1>1, FS_Subset
<1>3. ASSUME NEW p \in S PROVE amount[p] \in Nat
  <2>1. f[p] \in PaymentRow BY <1>1
  <2> QED BY <2>1, CashFloorAssumption DEF PaymentRow
<1>4. PaidTo(f, t) = SumFunctionOnSet(amount, S) BY DEF PaidTo, SumFunction
<1> HIDE DEF S, amount
<1>5. SumFunctionOnSet(amount, S) \in Nat BY <1>2, <1>3, SumIsNat
<1> QED BY <1>2, <1>4, <1>5 DEF S

\* A new payment adds its amount to what its account was paid.
LEMMA PaymentAdds ==
  ASSUME IsFiniteSet(Payments), NEW f \in [Payments -> PaymentRow],
         NEW g \in [Payments -> PaymentRow], NEW t, NEW p \in Payments,
         p \notin ActivePaymentsOf(f, t),
         ActivePaymentsOf(g, t) = ActivePaymentsOf(f, t) \cup {p},
         \A q \in ActivePaymentsOf(f, t) : g[q].amount = f[q].amount
  PROVE  PaidTo(g, t) = g[p].amount + PaidTo(f, t)
<1> DEFINE S == ActivePaymentsOf(f, t)
           T == ActivePaymentsOf(g, t)
           before == [q \in S |-> f[q].amount]
           after == [q \in T |-> g[q].amount]
<1>1. IsFiniteSet(S) /\ IsFiniteSet(T) BY PaidType
<1>2. ASSUME NEW q \in T PROVE after[q] \in Int
  <2>1. q \in Payments BY DEF ActivePaymentsOf
  <2>2. g[q].amount \in Amounts BY <2>1 DEF PaymentRow
  <2>3. after[q] = g[q].amount OBVIOUS
  <2>4. g[q].amount \in Nat BY <2>2, CashFloorAssumption
  <2>5. after[q] \in Nat BY <2>3, <2>4
  <2> HIDE DEF after, S, T
  <2> QED BY <2>5
<1>3. PaidTo(f, t) = SumFunctionOnSet(before, S) BY DEF PaidTo, SumFunction
<1>4. PaidTo(g, t) = SumFunctionOnSet(after, T) BY DEF PaidTo, SumFunction
<1>5. p \in T /\ T \ {p} = S /\ after[p] = g[p].amount OBVIOUS
<1>6. \A q \in S : after[q] = before[q] OBVIOUS
<1> HIDE DEF S, T, before, after
<1>7. SumFunctionOnSet(after, T) = after[p] + SumFunctionOnSet(after, T \ {p})
  BY <1>1, <1>2, <1>5, SumWithout
<1>8. SumFunctionOnSet(after, S) = SumFunctionOnSet(before, S) BY <1>1, <1>6, SumsAreEqual
<1> QED BY <1>3, <1>4, <1>5, <1>7, <1>8

\* A step of the lifecycle of the account t, or a stutter.
Abstract(t) == Account(t)!Next \/ UNCHANGED Account(t)!accountVars

\* An account whose row and payments a step leaves alone stutters.
LEMMA OthersStutter ==
  ASSUME NEW t \in Tickets, ticket'[t] = ticket[t], PaidTo(payment', t) = PaidTo(payment, t)
  PROVE  Abstract(t)
BY DEF Abstract, Account!accountVars

USE DEF Account!Absent, Account!Open, Account!InPayment, Account!Paid, Account!Cancelled

LEMMA OpenTicketRefines ==
  ASSUME IInv, NEW t \in Tickets, NEW b \in Tables, NEW s \in Shifts, OpenTicket(t, b, s),
         ticket[t].due = 0
  PROVE  Abstract(t)
<1>1. /\ ticket[t].status = Absent /\ UNCHANGED payment
      /\ ticket'[t].status = Open /\ ticket'[t].due = 0
  BY DEF OpenTicket, IInv, TypeOK
<1> QED BY <1>1 DEF Abstract, Account!Next, Account!OpenAccount

LEMMA EditTicketRefines ==
  ASSUME IInv, NEW t \in Tickets, NEW a \in Amounts, EditTicket(t, a) \/ ReduceTicket(t, a)
  PROVE  Abstract(t)
<1>1. /\ UNCHANGED payment
      /\ ticket'[t].status = ticket[t].status /\ ticket'[t].due = a /\ a \in Nat
      /\ ticket[t].status = Open \/ (ticket[t].status = InPayment /\ a <= ticket[t].due)
  BY CashFloorAssumption DEF EditTicket, ReduceTicket, IInv, TypeOK, TicketRow
<1> QED BY <1>1 DEF Abstract, Account!Next, Account!Edit, Account!Reduce

LEMMA StartPaymentRefines ==
  ASSUME IInv, NEW t \in Tickets, StartPayment(t)
  PROVE  Abstract(t)
<1>1. /\ UNCHANGED payment /\ ticket[t].status = Open /\ ticket[t].due > 0
      /\ ticket'[t].status = InPayment /\ ticket'[t].due = ticket[t].due
  BY DEF StartPayment, IInv, TypeOK, TicketRow
<1> QED BY <1>1 DEF Abstract, Account!Next, Account!StartPayment

LEMMA CloseByCourtesyRefines ==
  ASSUME IInv, NEW t \in Tickets, CloseByCourtesy(t)
  PROVE  Abstract(t)
<1>1. /\ UNCHANGED payment /\ ticket[t].status = Open /\ ticket[t].due = 0
      /\ ticket'[t].status = Paid /\ ticket'[t].due = ticket[t].due
  BY DEF CloseByCourtesy, IInv, TypeOK, TicketRow
<1> QED BY <1>1 DEF Abstract, Account!Next, Account!CloseCourtesy

LEMMA CreatePaymentRefines ==
  ASSUME IsFiniteSet(Payments), IInv, IInv', NEW t \in Tickets, NEW p \in Payments,
         NEW a \in Amounts, NEW cash \in BOOLEAN, CreatePayment(p, t, a, cash)
  PROVE  \A u \in Tickets : Abstract(u)
<1>1. /\ payment[p].status = Absent /\ ticket[t].status = InPayment /\ a > 0
      /\ payment' = [payment EXCEPT ![p] =
                       [status |-> Active, ticket |-> t, shift |-> ticket[t].shift,
                        amount |-> a, cash |-> cash]]
  BY DEF CreatePayment
<1>2. payment \in [Payments -> PaymentRow] /\ payment' \in [Payments -> PaymentRow]
  BY DEF IInv, TypeOK
<1>3. /\ payment'[p].status = Active /\ payment'[p].ticket = t /\ payment'[p].amount = a
      /\ \A q \in Payments : q # p => payment'[q] = payment[q]
  BY <1>1, <1>2
<1>4. \A u \in Tickets : u # t => ticket'[u] = ticket[u]
  BY DEF CreatePayment, IInv, TypeOK
<1>5. ASSUME NEW u \in Tickets, u # t PROVE Abstract(u)
  <2>1. ActivePaymentsOf(payment', u) = ActivePaymentsOf(payment, u)
    BY <1>1, <1>3, <1>5 DEF ActivePaymentsOf
  <2>2. \A q \in ActivePaymentsOf(payment', u) : payment'[q].amount = payment[q].amount
    BY <1>3, <1>5 DEF ActivePaymentsOf
  <2>3. PaidTo(payment', u) = PaidTo(payment, u) BY <2>1, <2>2, SamePaid
  <2> QED BY <1>4, <1>5, <2>3, OthersStutter
<1>6. Abstract(t)
  <2>1. p \notin ActivePaymentsOf(payment, t) BY <1>1 DEF ActivePaymentsOf
  <2>2. ActivePaymentsOf(payment', t) = ActivePaymentsOf(payment, t) \cup {p}
    BY <1>1, <1>3 DEF ActivePaymentsOf
  <2>3. \A q \in ActivePaymentsOf(payment, t) : payment'[q].amount = payment[q].amount
    BY <1>3, <2>1 DEF ActivePaymentsOf
  <2>4. PaidTo(payment', t) = a + PaidTo(payment, t)
    BY <1>2, <1>3, <2>1, <2>2, <2>3, PaymentAdds
  <2>5. PaidTo(payment, t) \in Nat /\ a \in Nat BY <1>2, PaidType, CashFloorAssumption
  <2>6. /\ ticket'[t].due = ticket[t].due
        /\ ticket'[t].status = IF PaidTo(payment', t) >= ticket[t].due THEN Paid ELSE InPayment
    <3>1. CASE Covers(payment', t)
      <4>1. ticket' = [ticket EXCEPT ![t].status = Paid] BY <3>1 DEF CreatePayment
      <4>2. ticket'[t].due = ticket[t].due /\ ticket'[t].status = Paid
        BY <4>1 DEF IInv, TypeOK, TicketRow
      <4> QED BY <3>1, <4>2 DEF Covers
    <3>2. CASE ~Covers(payment', t)
      <4>1. ticket' = ticket BY <3>2 DEF CreatePayment
      <4> QED BY <1>1, <3>2, <4>1 DEF Covers
    <3> QED BY <3>1, <3>2
  <2>7. PaidTo(payment', t) \in Nat /\ PaidTo(payment', t) > PaidTo(payment, t)
    <3>1. a > 0 BY <1>1
    <3> QED BY <2>4, <2>5, <3>1
  <2> QED BY <1>1, <2>6, <2>7 DEF Abstract, Account!Next, Account!Receive
<1> QED BY <1>5, <1>6

LEMMA CancelTicketRefines ==
  ASSUME IInv, NEW t \in Tickets, CancelTicket(t)
  PROVE  \A u \in Tickets : Abstract(u)
<1>1. /\ ticket[t].status \in ActiveStatus
      /\ ticket' = [ticket EXCEPT ![t].status = Cancelled]
      /\ payment' = CancelledPayments(t)
  BY DEF CancelTicket
<1>2. /\ ticket'[t].status = Cancelled /\ ticket'[t].due = ticket[t].due
      /\ \A u \in Tickets : u # t => ticket'[u] = ticket[u]
  BY <1>1 DEF IInv, TypeOK, TicketRow
<1>3. ASSUME NEW q \in Payments
      PROVE  /\ payment'[q].ticket = payment[q].ticket
             /\ payment'[q].amount = payment[q].amount
             /\ payment'[q].status = IF q \in ActivePaymentsOf(payment, t)
                                     THEN Cancelled ELSE payment[q].status
  BY <1>1 DEF CancelledPayments, IInv, TypeOK, PaymentRow
<1>4. ASSUME NEW u \in Tickets, u # t PROVE Abstract(u)
  <2>1. ActivePaymentsOf(payment', u) = ActivePaymentsOf(payment, u)
    BY <1>3, <1>4 DEF ActivePaymentsOf
  <2>2. \A q \in ActivePaymentsOf(payment', u) : payment'[q].amount = payment[q].amount
    BY <1>3 DEF ActivePaymentsOf
  <2>3. PaidTo(payment', u) = PaidTo(payment, u) BY <2>1, <2>2, SamePaid
  <2> QED BY <1>2, <1>4, <2>3, OthersStutter
<1>5. Abstract(t)
  <2>1. ActivePaymentsOf(payment', t) = {} BY <1>3 DEF ActivePaymentsOf
  <2>2. PaidTo(payment', t) = 0
    <3>1. PaidTo(payment', t) = SumFunctionOnSet([q \in {} |-> payment'[q].amount], {})
      BY <2>1 DEF PaidTo, SumFunction
    <3> QED BY <3>1, SumOfNone
  <2> QED BY <1>1, <1>2, <2>2 DEF Abstract, Account!Next, Account!Cancel
<1> QED BY <1>4, <1>5

\* An account that was never opened asks for nothing.
AbsentIsBlank == \A t \in Tickets : ticket[t].status = Absent => ticket[t].due = 0

LEMMA AbsentStaysBlank == IInv /\ AbsentIsBlank /\ [Next]_vars => AbsentIsBlank'
<1> SUFFICES ASSUME IInv, AbsentIsBlank, [Next]_vars, NEW t \in Tickets,
                    ticket'[t].status = Absent
             PROVE  ticket'[t].due = 0
  BY DEF AbsentIsBlank
<1>1. ASSUME NEW s \in Shifts, ShiftStep(s) PROVE UNCHANGED ticket
  BY <1>1 DEF ShiftStep, OpenShift, CloseShift, RegisterExpense
<1>2. ASSUME NEW u \in Tickets, TicketStep(u) PROVE ticket'[t] = ticket[t]
  <2>1. u # t => ticket'[t] = ticket[t]
    BY <1>2 DEF TicketStep, OpenTicket, EditTicket, ReduceTicket, StartPayment,
                CloseByCourtesy, CreatePayment, CancelTicket, IInv, TypeOK
  <2>2. ticket[t] \in TicketRow /\ ticket \in [Tickets -> TicketRow] BY DEF IInv, TypeOK
  <2>3. CASE u = t
    <3>1. CASE \E b \in Tables, s \in Shifts : OpenTicket(t, b, s)
      BY <2>2, <3>1 DEF OpenTicket
    <3>2. CASE \E a \in Amounts : EditTicket(t, a) \/ ReduceTicket(t, a)
      BY <2>2, <3>2 DEF EditTicket, ReduceTicket, TicketRow
    <3>3. CASE StartPayment(t) \/ CloseByCourtesy(t) \/ CancelTicket(t)
      BY <2>2, <3>3 DEF StartPayment, CloseByCourtesy, CancelTicket, TicketRow
    <3>4. CASE \E p \in Payments, a \in Amounts, cash \in BOOLEAN : CreatePayment(p, t, a, cash)
      BY <2>2, <3>4 DEF CreatePayment, TicketRow
    <3> QED BY <1>2, <2>3, <3>1, <3>2, <3>3, <3>4 DEF TicketStep
  <2> QED BY <2>1, <2>3
<1>3. ticket'[t] = ticket[t] BY <1>1, <1>2 DEF Next, vars
<1> QED BY <1>3 DEF AbsentIsBlank

LEMMA NextRefines ==
  ASSUME IsFiniteSet(Payments), IInv, IInv', AbsentIsBlank, [Next]_vars
  PROVE  \A t \in Tickets : Abstract(t)
<1>1. CASE UNCHANGED <<ticket, payment>>
  BY <1>1, OthersStutter
<1>2. ASSUME NEW s \in Shifts, ShiftStep(s) PROVE UNCHANGED <<ticket, payment>>
  BY <1>2 DEF ShiftStep, OpenShift, CloseShift, RegisterExpense
<1>3. ASSUME NEW t \in Tickets, TicketStep(t) PROVE \A u \in Tickets : Abstract(u)
  <2>1. CASE \E p \in Payments, a \in Amounts, cash \in BOOLEAN : CreatePayment(p, t, a, cash)
    BY <2>1, CreatePaymentRefines
  <2>2. CASE CancelTicket(t) BY <2>2, CancelTicketRefines
  <2>3. CASE \/ \E b \in Tables, s \in Shifts : OpenTicket(t, b, s)
             \/ \E a \in Amounts : EditTicket(t, a) \/ ReduceTicket(t, a)
             \/ StartPayment(t)
             \/ CloseByCourtesy(t)
    <3>1. UNCHANGED payment /\ \A u \in Tickets : u # t => ticket'[u] = ticket[u]
      BY <2>3 DEF OpenTicket, EditTicket, ReduceTicket, StartPayment, CloseByCourtesy,
                  IInv, TypeOK
    <3>2. \A u \in Tickets : u # t => Abstract(u) BY <3>1, OthersStutter
    <3>3. CASE \E b \in Tables, s \in Shifts : OpenTicket(t, b, s)
      <4>1. ticket[t].due = 0 BY <3>3 DEF OpenTicket, AbsentIsBlank
      <4> QED BY <3>2, <3>3, <4>1, OpenTicketRefines
    <3>4. CASE \E a \in Amounts : EditTicket(t, a) \/ ReduceTicket(t, a)
      BY <3>2, <3>4, EditTicketRefines
    <3>5. CASE StartPayment(t) BY <3>2, <3>5, StartPaymentRefines
    <3>6. CASE CloseByCourtesy(t) BY <3>2, <3>6, CloseByCourtesyRefines
    <3> QED BY <2>3, <3>3, <3>4, <3>5, <3>6
  <2> QED BY <1>3, <2>1, <2>2, <2>3 DEF TicketStep
<1> QED BY <1>1, <1>2, <1>3 DEF Next, vars

\* Each of any number of accounts keeps the promises of AccountLifecycle,
\* whatever the others do (every service that writes tickets or payments).
THEOREM AccountsRefineLifecycle ==
    ASSUME IsFiniteSet(Payments)
    PROVE  Spec => RefinesLifecycle
<1> DEFINE Inits == \A t \in Tickets : Account(t)!Init
           Steps == \A t \in Tickets : Account(t)!Next \/ UNCHANGED Account(t)!accountVars
<1>1. Init => Inits /\ AbsentIsBlank
  <2> SUFFICES ASSUME Init PROVE Inits /\ AbsentIsBlank
    OBVIOUS
  <2>1. ASSUME NEW t \in Tickets PROVE Account(t)!Init
    <3>1. ActivePaymentsOf(payment, t) = {} BY DEF Init, ActivePaymentsOf
    <3>2. PaidTo(payment, t) = SumFunctionOnSet([q \in {} |-> payment[q].amount], {})
      BY <3>1 DEF PaidTo, SumFunction
    <3>3. PaidTo(payment, t) = 0 BY <3>2, SumOfNone
    <3> QED BY <3>3 DEF Init, Account!Init
  <2>2. AbsentIsBlank BY DEF Init, AbsentIsBlank
  <2> QED BY <2>1, <2>2
<1>2. IInv /\ IInv' /\ AbsentIsBlank /\ [Next]_vars => [Steps]_vars
  BY NextRefines DEF Abstract
<1> HIDE DEF Inits, Steps
<1>3. Spec => Inits /\ [][Steps]_vars
  BY <1>1, <1>2, AbsentStaysBlank, Invariant, PTL DEF Spec
<1> QED BY <1>3 DEF RefinesLifecycle, Inits, Steps

-----------------------------------------------------------------------------
(* Requests of several clients: what is always true of the tables and of   *)
(* what a request holds, however stale.                                    *)

AccountRow == [line : [Lines -> {NoLine, Captured, Sent, Dropped}], rounds : Nat, courtesy : Nat]

RequestTypeOK ==
    /\ account \in [Tickets -> AccountRow]
    /\ nextFolio \in [Sequences -> Nat \ {0}]
    /\ folios \in [Sequences -> SUBSET Nat]
    /\ slips \subseteq Tickets
    /\ revised \subseteq Tickets
    /\ DOMAIN call = Requests

OnAccount == {AddLine, Forgive, StartBilling, Pay, CallOff, SendRound}

\* What a request found when it started, and what of it is still so: rows do
\* not disappear, and an account does not return to where it could be edited
\* without a trace.
Began(k) ==
    /\ k.op = NewShift => k.seen = {}
    /\ k.op = CountShift => /\ k.on \in Shifts /\ shift[k.on].status # Absent
                            /\ k.seen[1].status = Open /\ k.seen[2] = {}
    /\ k.op = Spend => k.seen \in (SUBSET Shifts) \ {{}}
    /\ k.op = SeatTable => /\ k.on \in Tables
                           /\ k.seen[1] \in (SUBSET Shifts) \ {{}} /\ k.seen[2] = FALSE
    /\ k.op \in OnAccount => /\ k.on \in Tickets /\ ticket[k.on].status # Absent
                             /\ k.seen.row \in TicketRow
    /\ k.op = DropLine => /\ k.on \in Tickets \X Lines /\ ticket[k.on[1]].status # Absent
                          /\ k.seen.row \in TicketRow
                          /\ k.seen.row.status \in ActiveStatus
    /\ k.op \in {AddLine, Forgive, StartBilling} => k.seen.row.status = Open
    /\ k.op \in {SendRound, CallOff} => k.seen.row.status \in ActiveStatus
    /\ k.op = Pay => /\ k.seen.row.status = InPayment
                     /\ ticket[k.on].status \notin {Absent, Open}
                     /\ k.on \notin revised => k.seen.row.due = ticket[k.on].due

\* What it read afterwards: a number no later than the next one, lines of its
\* account, payments that exist.
ReadBefore(k) ==
    k.read =>
        /\ k.op \in DOMAIN Sequence => k.detail \in 1..nextFolio[Sequence[k.op]]
        /\ k.op = Forgive => k.detail[1] \subseteq Lines
        /\ k.op = CallOff => k.detail[2] \subseteq Existing(payment)

CallsOK == \A c \in Requests : call[c] # Idle => Began(call[c]) /\ ReadBefore(call[c])

\* Folios and rows are counted together.
Counted ==
    \A q \in Sequences :
        /\ folios[q] = 1..(nextFolio[q] - 1)
        /\ IsFiniteSet(RowsOf[q])
        /\ Cardinality(RowsOf[q]) = nextFolio[q] - 1

\* Payments take the ids in order, and are of accounts that began to be billed.
PaymentsInOrder ==
    \A p \in Existing(payment) :
        /\ payment[p].ticket \in Tickets
        /\ ticket[payment[p].ticket].status \notin {Absent, Open}
        /\ \A q \in Payments : q < p => q \in Existing(payment)

\* All payments of an account but the last one.
Earlier(pay, t) == ActivePaymentsOf(pay, t) \ {Max(ActivePaymentsOf(pay, t))}

Amount(pay, S) == SumFunction([p \in S |-> pay[p].amount])

\* While an account has no slip its payments do not reach its total; the last
\* payment is the only one that may.
NotOverpaid ==
    \A t \in Tickets \ revised : ActivePaymentsOf(payment, t) # {} =>
        /\ t \notin slips => PaidTo(payment, t) < ticket[t].due
        /\ Earlier(payment, t) # {} => Amount(payment, Earlier(payment, t)) < ticket[t].due

PosIInv ==
    /\ TypeOK
    /\ RequestTypeOK
    /\ CallsOK
    /\ Counted
    /\ PaymentsInOrder
    /\ NotOverpaid

USE DEF NewShift, CountShift, Spend, SeatTable, AddLine, DropLine, SendRound, Forgive,
        StartBilling, Pay, CallOff, NoLine, Captured, Sent, Dropped

\* What every step does to the tables, so that what the other requests
\* remember is still true of them.
Grows ==
    /\ \A s \in Shifts : shift[s].status # Absent => shift'[s].status # Absent
    /\ \A t \in Tickets : ticket[t].status # Absent => ticket'[t].status # Absent
    /\ \A t \in Tickets : ticket[t].status \notin {Absent, Open} =>
          /\ ticket'[t].status \notin {Absent, Open}
          /\ t \notin revised' => ticket'[t].due = ticket[t].due
    /\ revised \subseteq revised'
    /\ \A q \in Sequences : nextFolio'[q] \in Nat /\ nextFolio[q] <= nextFolio'[q]
    /\ Existing(payment) \subseteq Existing(payment')

\* What a request holds survives the steps of the others.
LEMMA CallsSurvive ==
  ASSUME NEW k, Grows, RequestTypeOK, Began(k), ReadBefore(k)
  PROVE  Began(k)' /\ ReadBefore(k)'
<1>1. Began(k)' BY DEF Grows, Began, OnAccount
<1>2. k.read /\ k.op \in DOMAIN Sequence => k.detail \in 1..nextFolio'[Sequence[k.op]]
  <2> SUFFICES ASSUME k.read, k.op \in DOMAIN Sequence
               PROVE  k.detail \in 1..nextFolio'[Sequence[k.op]]
    OBVIOUS
  <2>1. Sequence[k.op] \in Sequences BY DEF Sequence, Sequences
  <2>2. nextFolio[Sequence[k.op]] \in Nat BY <2>1 DEF RequestTypeOK
  <2> QED BY <2>1, <2>2 DEF Grows, ReadBefore
<1>3. ReadBefore(k)' BY <1>2 DEF Grows, ReadBefore
<1> QED BY <1>1, <1>3

\* A step of one request.
LEMMA OneCallChanges ==
  ASSUME NEW c \in Requests, NEW k, CallsOK, RequestTypeOK, Grows,
         call' = [call EXCEPT ![c] = k],
         k # Idle => Began(k)' /\ ReadBefore(k)'
  PROVE  CallsOK'
<1> SUFFICES ASSUME NEW d \in Requests, call'[d] # Idle
             PROVE  (Began(call[d]) /\ ReadBefore(call[d]))'
  BY DEF CallsOK
<1>1. CASE d = c BY <1>1 DEF RequestTypeOK
<1>2. CASE d # c
  <2>1. call'[d] = call[d] BY <1>2
  <2>2. Began(call[d]) /\ ReadBefore(call[d]) BY <2>1 DEF CallsOK
  <2> QED BY <2>1, <2>2, CallsSurvive
<1> QED BY <1>1, <1>2

-----------------------------------------------------------------------------
(* Reads.                                                                  *)

TablesUnchanged == UNCHANGED <<vars, account, nextFolio, folios, slips, revised>>

\* A step that reads, or that gives up, leaves the tables alone.
LEMMA ReadingKeepsPosIInv ==
  ASSUME NEW c \in Requests, NEW k, PosIInv, TablesUnchanged,
         call' = [call EXCEPT ![c] = k],
         k # Idle => Began(k) /\ ReadBefore(k)
  PROVE  PosIInv'
<1> USE DEF PosIInv, TablesUnchanged
<1>1. Grows BY DEF Grows, vars, RequestTypeOK
<1>2. k # Idle => Began(k)' /\ ReadBefore(k)' BY <1>1, CallsSurvive
<1>3. CallsOK' BY <1>1, <1>2, OneCallChanges
<1>4. TypeOK' BY DEF vars, TypeOK
<1>5. RequestTypeOK' BY DEF RequestTypeOK
<1>6. Counted' BY DEF vars, Counted, RowsOf, Existing
<1>7. PaymentsInOrder' BY DEF vars, PaymentsInOrder, Existing
<1>8. NotOverpaid'
  BY DEF vars, NotOverpaid, Earlier, ActivePaymentsOf, PaidTo, Amount
<1> QED BY <1>3, <1>4, <1>5, <1>6, <1>7, <1>8

\* A request that starts holds what its checks read.
LEMMA LoadKeepsPosIInv ==
  ASSUME NEW c \in Requests, NEW op, NEW x, PosIInv, Load(c, op, x),
         \A k : k.op = op /\ k.on = x /\ k.seen = View(op, x) => Began(k)
  PROVE  PosIInv'
<1> DEFINE m == [op |-> op, on |-> x, seen |-> View(op, x), read |-> FALSE]
<1>1. m.op = op /\ m.on = x /\ m.seen = View(op, x) /\ m.read = FALSE OBVIOUS
<1>2. call' = [call EXCEPT ![c] = m] /\ TablesUnchanged BY DEF Load, TablesUnchanged
<1> HIDE DEF m
<1>3. Began(m) BY <1>1
<1>4. ReadBefore(m) BY <1>1 DEF ReadBefore
<1> QED BY <1>2, <1>3, <1>4, ReadingKeepsPosIInv

\* What the checks of each operation read.
LEMMA ViewOf ==
  /\ View(NewShift, 0) = OpenShifts /\ View(Spend, 0) = OpenShifts
  /\ \A s : View(CountShift, s) = <<shift[s], {t \in Tickets : BlocksClosing(t, s)}>>
  /\ \A b : View(SeatTable, b) = <<OpenShifts, Taken(b)>>
  /\ \A t, l : View(DropLine, <<t, l>>) = [row |-> ticket[t], line |-> account[t].line[l]]
  /\ \A t : View(SendRound, t) = [row |-> ticket[t], captured |-> LinesIn(t, {Captured})]
  /\ \A t : \A op \in {AddLine, Forgive, StartBilling, Pay, CallOff} :
        View(op, t) = [row |-> ticket[t], priced |-> Live(t) # {}]
BY DEF View

\* Each request starts with the checks of its route.
LEMMA StartKeepsPosIInv ==
  ASSUME NEW c \in Requests, PosIInv, Start(c)
  PROVE  PosIInv'
<1>0. \A t \in Tickets : ticket[t] \in TicketRow BY DEF PosIInv, TypeOK
<1> USE DEF Began, OnAccount
<1>1. CASE LoadOpenShift(c)
  <2>1. ASSUME NEW k, k.op = NewShift, k.on = 0, k.seen = View(NewShift, 0) PROVE Began(k)
    <3>1. k.seen = {} BY <1>1, <2>1, ViewOf DEF LoadOpenShift
    <3> QED BY <2>1, <3>1
  <2> QED BY <1>1, <2>1, LoadKeepsPosIInv DEF LoadOpenShift
<1>2. ASSUME NEW s \in Shifts, LoadCloseShift(c, s) PROVE PosIInv'
  <2>1. ASSUME NEW k, k.op = CountShift, k.on = s, k.seen = View(CountShift, s) PROVE Began(k)
    <3>1. k.seen = <<shift[s], {t \in Tickets : BlocksClosing(t, s)}>> BY <2>1, ViewOf
    <3>2. {t \in Tickets : BlocksClosing(t, s)} = {} BY <1>2 DEF LoadCloseShift
    <3>3. k.seen[1] = shift[s] /\ k.seen[2] = {} BY <3>1, <3>2
    <3>4. shift[s].status = Open BY <1>2 DEF LoadCloseShift
    <3> QED BY <2>1, <3>3, <3>4
  <2> QED BY <1>2, <2>1, LoadKeepsPosIInv DEF LoadCloseShift
<1>3. CASE LoadExpense(c)
  <2>1. ASSUME NEW k, k.op = Spend, k.on = 0, k.seen = View(Spend, 0) PROVE Began(k)
    <3>1. k.seen \in (SUBSET Shifts) \ {{}} BY <1>3, <2>1, ViewOf DEF LoadExpense, OpenShifts
    <3> QED BY <2>1, <3>1
  <2> QED BY <1>3, <2>1, LoadKeepsPosIInv DEF LoadExpense
<1>4. ASSUME NEW b \in Tables, LoadOpenTicket(c, b) PROVE PosIInv'
  <2>1. ASSUME NEW k, k.op = SeatTable, k.on = b, k.seen = View(SeatTable, b) PROVE Began(k)
    <3>1. k.seen = <<OpenShifts, Taken(b)>> BY <2>1, ViewOf
    <3>2. k.seen[1] = OpenShifts /\ k.seen[2] = Taken(b) BY <3>1
    <3>3. OpenShifts \in (SUBSET Shifts) \ {{}} BY <1>4 DEF LoadOpenTicket, OpenShifts
    <3>4. Taken(b) = FALSE BY <1>4 DEF LoadOpenTicket, Taken
    <3> QED BY <2>1, <3>2, <3>3, <3>4
  <2> QED BY <1>4, <2>1, LoadKeepsPosIInv DEF LoadOpenTicket
<1>5. ASSUME NEW t \in Tickets, LoadTicket(c, t) PROVE PosIInv'
  <2>0. \A op \in {AddLine, Forgive, StartBilling, Pay, CallOff} : View(op, t).row = ticket[t]
    BY ViewOf
  <2>1. ASSUME NEW op \in {AddLine, Forgive, StartBilling}, ticket[t].status = Open, Load(c, op, t)
        PROVE  PosIInv'
    <3>1. ASSUME NEW k, k.op = op, k.on = t, k.seen = View(op, t) PROVE Began(k)
      <4>1. k.seen.row = ticket[t] BY <2>0, <3>1
      <4> QED BY <1>0, <2>1, <3>1, <4>1
    <3> QED BY <2>1, <3>1, LoadKeepsPosIInv
  <2>2. CASE ticket[t].status = InPayment /\ Load(c, Pay, t)
    <3>1. ASSUME NEW k, k.op = Pay, k.on = t, k.seen = View(Pay, t) PROVE Began(k)
      <4>1. k.seen.row = ticket[t] BY <2>0, <3>1
      <4> QED BY <1>0, <2>2, <3>1, <4>1
    <3> QED BY <2>2, <3>1, LoadKeepsPosIInv
  <2>3. CASE ticket[t].status \in ActiveStatus /\ Load(c, CallOff, t)
    <3>1. ASSUME NEW k, k.op = CallOff, k.on = t, k.seen = View(CallOff, t) PROVE Began(k)
      <4>1. k.seen.row = ticket[t] BY <2>0, <3>1
      <4> QED BY <1>0, <2>3, <3>1, <4>1
    <3> QED BY <2>3, <3>1, LoadKeepsPosIInv
  <2> QED BY <1>5, <2>1, <2>2, <2>3 DEF LoadTicket
<1>6. ASSUME NEW t \in Tickets, LoadSendRound(c, t) PROVE PosIInv'
  <2>1. ASSUME NEW k, k.op = SendRound, k.on = t, k.seen = View(SendRound, t) PROVE Began(k)
    <3>1. k.seen.row = ticket[t] BY <2>1, ViewOf
    <3>2. ticket[t].status \in ActiveStatus BY <1>6 DEF LoadSendRound
    <3> QED BY <1>0, <2>1, <3>1, <3>2
  <2> QED BY <1>6, <2>1, LoadKeepsPosIInv DEF LoadSendRound
<1>7. ASSUME NEW t \in Tickets, LoadCancelLine(c, t) PROVE PosIInv'
  <2>1. PICK l \in Live(t) : Load(c, DropLine, <<t, l>>) BY <1>7 DEF LoadCancelLine
  <2>2. l \in Lines BY DEF Live, LinesIn, Having
  <2>3. ASSUME NEW k, k.op = DropLine, k.on = <<t, l>>, k.seen = View(DropLine, <<t, l>>)
        PROVE  Began(k)
    <3>0. k.seen = [row |-> ticket[t], line |-> account[t].line[l]] BY <2>3, ViewOf, Zenon
    <3>1. k.seen.row = ticket[t] BY <3>0
    <3>2. ticket[t].status \in ActiveStatus BY <1>7 DEF LoadCancelLine
    <3>3. k.on \in Tickets \X Lines /\ k.on[1] = t BY <2>2, <2>3
    <3> QED BY <1>0, <2>3, <3>1, <3>2, <3>3
  <2> QED BY <2>1, <2>3, LoadKeepsPosIInv
<1> QED BY <1>1, <1>2, <1>3, <1>4, <1>5, <1>6, <1>7 DEF Start

\* What the second read of each operation gives.
LEMMA DetailOf ==
  /\ \A op \in DOMAIN Sequence : \A x : Detail(op, x) = nextFolio[Sequence[op]]
  /\ \A s : Detail(CountShift, s) = ExpectedCash(s)
  /\ \A t : Detail(SendRound, t) = account[t].rounds
  /\ \A t : Detail(Forgive, t) = <<Live(t), account[t].courtesy>>
  /\ \A t : Detail(StartBilling, t) = <<Live(t), LinesIn(t, {Captured})>>
  /\ \A t : Detail(CallOff, t) = <<Live(t), ActivePaymentsOf(payment, t)>>
<1>1. DOMAIN Sequence = {NewShift, Spend, SeatTable, Pay} BY DEF Sequence
<1> QED BY <1>1 DEF Detail

LEMMA SequenceOf ==
  /\ DOMAIN Sequence = {NewShift, Spend, SeatTable, Pay}
  /\ Sequence[NewShift] = "CORTE" /\ Sequence[Spend] = "GASTO"
  /\ Sequence[SeatTable] = "TICKET" /\ Sequence[Pay] = "PAGO"
  /\ \A op \in DOMAIN Sequence : Sequence[op] \in Sequences
BY DEF Sequence, Sequences

\* What a request holds after its second read.
LEMMA ReadDetailKeepsPosIInv ==
  ASSUME NEW c \in Requests, PosIInv, ReadDetail(c)
  PROVE  PosIInv'
<1> DEFINE k == call[c]
           m == [op |-> k.op, on |-> k.on, seen |-> k.seen, read |-> TRUE,
                 detail |-> Detail(k.op, k.on)]
<1>1. k # Idle /\ Began(k) BY DEF PosIInv, CallsOK, ReadDetail
<1>2. Began(m)
  <2> HIDE DEF k
  <2> QED BY <1>1 DEF Began, OnAccount
<1>3. ReadBefore(m)
  <2> HIDE DEF k
  <2>1. k.op \in DOMAIN Sequence => m.detail \in 1..nextFolio[Sequence[m.op]]
    <3> SUFFICES ASSUME k.op \in DOMAIN Sequence PROVE m.detail \in 1..nextFolio[Sequence[m.op]]
      OBVIOUS
    <3>1. Sequence[k.op] \in Sequences BY SequenceOf
    <3>2. nextFolio[Sequence[k.op]] \in Nat \ {0} BY <3>1 DEF PosIInv, RequestTypeOK
    <3>3. m.detail = nextFolio[Sequence[k.op]] BY DetailOf
    <3> QED BY <3>2, <3>3
  <2>2. k.op = Forgive => m.detail[1] \subseteq Lines
    <3> SUFFICES ASSUME k.op = Forgive PROVE m.detail[1] \subseteq Lines
      OBVIOUS
    <3>1. m.detail = <<Live(k.on), account[k.on].courtesy>> BY DetailOf
    <3>2. Live(k.on) \subseteq Lines BY DEF Live, LinesIn, Having
    <3> QED BY <3>1, <3>2
  <2>3. k.op = CallOff => m.detail[2] \subseteq Existing(payment)
    <3> SUFFICES ASSUME k.op = CallOff PROVE m.detail[2] \subseteq Existing(payment)
      OBVIOUS
    <3>1. m.detail = <<Live(k.on), ActivePaymentsOf(payment, k.on)>> BY DetailOf
    <3>2. ActivePaymentsOf(payment, k.on) \subseteq Existing(payment)
      <4>1. DOMAIN payment = Payments BY DEF PosIInv, TypeOK
      <4> QED BY <4>1 DEF ActivePaymentsOf, Existing
    <3> QED BY <3>1, <3>2
  <2> QED BY <2>1, <2>2, <2>3 DEF ReadBefore
<1>4. call' = [call EXCEPT ![c] = m] /\ TablesUnchanged BY DEF ReadDetail, TablesUnchanged
<1> HIDE DEF k, m
<1> QED BY <1>2, <1>3, <1>4, ReadingKeepsPosIInv

LEMMA RefusedKeepsPosIInv ==
  ASSUME NEW c \in Requests, PosIInv, Refused(c)
  PROVE  PosIInv'
BY ReadingKeepsPosIInv DEF Refused, TablesUnchanged

-----------------------------------------------------------------------------
(* Writes: what they have in common.                                       *)

\* The request that writes holds what it read.
LEMMA WritingHolds ==
  ASSUME NEW c \in Requests, NEW op, op # "idle", PosIInv, Writing(c, op)
  PROVE  Began(call[c]) /\ ReadBefore(call[c]) /\ call[c].read /\ call[c].op = op
<1>1. call[c] # Idle BY DEF Writing, Idle
<1> QED BY <1>1 DEF PosIInv, CallsOK, Writing

LEMMA WritingKeepsCalls ==
  ASSUME NEW c \in Requests, NEW op, PosIInv, Writing(c, op), Grows
  PROVE  CallsOK' /\ DOMAIN call' = Requests
BY OneCallChanges DEF PosIInv, RequestTypeOK, Writing

LEMMA NextIdIsFree ==
  ASSUME NEW rows, DOMAIN rows \subseteq Nat, RoomFor(rows)
  PROVE  /\ NextId(rows) \in DOMAIN rows /\ rows[NextId(rows)].status = Absent
         /\ \A j \in DOMAIN rows : j < NextId(rows) => rows[j].status # Absent
<1> DEFINE T == {i \in DOMAIN rows : rows[i].status = Absent}
<1>1. T \subseteq Nat /\ T # {} BY DEF RoomFor
<1>2. PICK n \in T : \A m \in T : n <= m BY <1>1, LeastNatural
<1>3. Min(T) \in T /\ \A m \in T : Min(T) <= m BY <1>2 DEF Min
<1>4. \A j \in DOMAIN rows : j < Min(T) => j \notin T BY <1>1, <1>3
<1> QED BY <1>3, <1>4 DEF NextId

LEMMA Ids == Shifts \subseteq Nat /\ Tickets \subseteq Nat /\ Payments \subseteq Nat /\ Expenses \subseteq Nat
  BY PosRequestsAssumption

LEMMA RowsAre ==
  /\ RowsOf["CORTE"] = Existing(shift) /\ RowsOf["GASTO"] = Existing(expense)
  /\ RowsOf["TICKET"] = Existing(ticket) /\ RowsOf["PAGO"] = Existing(payment)
  /\ RowsOf'["CORTE"] = Existing(shift') /\ RowsOf'["GASTO"] = Existing(expense')
  /\ RowsOf'["TICKET"] = Existing(ticket') /\ RowsOf'["PAGO"] = Existing(payment')
BY DEF RowsOf, Sequences

SameRows(q) == RowsOf'[q] = RowsOf[q]

\* A write that takes no number adds no row.
LEMMA UnnumberedKeepsCounted ==
  ASSUME PosIInv, Unnumbered, \A q \in Sequences : SameRows(q)
  PROVE  Counted' /\ \A q \in Sequences : nextFolio'[q] \in Nat /\ nextFolio[q] <= nextFolio'[q]
BY DEF PosIInv, RequestTypeOK, Counted, Unnumbered, SameRows

\* A write that takes a number takes the next one, and adds one row.
LEMMA NumberKeepsCounted ==
  ASSUME NEW c \in Requests, NEW i, PosIInv, Number(c), call[c].op \in DOMAIN Sequence,
         ReadBefore(call[c]), call[c].read,
         i \notin RowsOf[Sequence[call[c].op]],
         RowsOf'[Sequence[call[c].op]] = RowsOf[Sequence[call[c].op]] \cup {i},
         \A q \in Sequences : q # Sequence[call[c].op] => SameRows(q)
  PROVE  /\ Counted'
         /\ nextFolio' \in [Sequences -> Nat \ {0}] /\ folios' \in [Sequences -> SUBSET Nat]
         /\ \A q \in Sequences : nextFolio'[q] \in Nat /\ nextFolio[q] <= nextFolio'[q]
<1> DEFINE r == Sequence[call[c].op]
           n == call[c].detail
           rows == RowsOf[r]
<1>1. r \in Sequences BY SequenceOf
<1>2. nextFolio[r] \in Nat \ {0} /\ folios[r] = 1..(nextFolio[r] - 1)
  BY <1>1 DEF PosIInv, RequestTypeOK, Counted
<1>3. n \in 1..nextFolio[r] BY DEF ReadBefore
<1>4. /\ n \notin folios[r]
      /\ nextFolio' = [nextFolio EXCEPT ![r] = n + 1]
      /\ folios' = [folios EXCEPT ![r] = @ \cup {n}]
  BY DEF Number, FolioFree
<1>5. n = nextFolio[r] BY <1>2, <1>3, <1>4
<1>6. nextFolio'[r] = n + 1 /\ folios'[r] = 1..n
  <2>1. nextFolio'[r] = n + 1 /\ folios'[r] = folios[r] \cup {n}
    BY <1>1, <1>4 DEF PosIInv, RequestTypeOK
  <2>2. 1..(n - 1) \cup {n} = 1..n BY <1>2, <1>5
  <2> QED BY <1>2, <1>5, <2>1, <2>2
<1>7. ASSUME NEW q \in Sequences, q # r
      PROVE  nextFolio'[q] = nextFolio[q] /\ folios'[q] = folios[q] /\ SameRows(q)
  BY <1>4, <1>7 DEF PosIInv, RequestTypeOK
<1>8. IsFiniteSet(rows \cup {i}) /\ Cardinality(rows \cup {i}) = Cardinality(rows) + 1
  BY <1>1, FS_AddElement DEF PosIInv, Counted
<1>9. Counted'
  <2> SUFFICES ASSUME NEW q \in Sequences
               PROVE  /\ folios'[q] = 1..(nextFolio'[q] - 1)
                      /\ IsFiniteSet(RowsOf'[q])
                      /\ Cardinality(RowsOf'[q]) = nextFolio'[q] - 1
    BY DEF Counted
  <2>1. CASE q # r BY <1>7, <2>1 DEF PosIInv, Counted, SameRows
  <2>2. CASE q = r
    <3>1. RowsOf'[q] = rows \cup {i} BY <2>2
    <3>2. Cardinality(rows) = n - 1 BY <1>1, <1>5 DEF PosIInv, Counted
    <3>3. n \in Nat BY <1>2, <1>5
    <3> HIDE DEF rows, r, n
    <3> QED BY <1>6, <1>8, <2>2, <3>1, <3>2, <3>3
  <2> QED BY <2>1, <2>2
<1>10. nextFolio' \in [Sequences -> Nat \ {0}] /\ folios' \in [Sequences -> SUBSET Nat]
  <2>1. n \in Nat BY <1>2, <1>5
  <2>2. n + 1 \in Nat \ {0} BY <2>1
  <2> QED BY <1>4, <2>1, <2>2 DEF PosIInv, RequestTypeOK
<1>11. ASSUME NEW q \in Sequences PROVE nextFolio'[q] \in Nat /\ nextFolio[q] <= nextFolio'[q]
  <2>1. CASE q = r BY <1>2, <1>5, <1>6, <2>1
  <2>2. CASE q # r BY <1>7, <2>2 DEF PosIInv, RequestTypeOK
  <2> QED BY <2>1, <2>2
<1> QED BY <1>9, <1>10, <1>11

\* A write that books no payment and cancels none.
LEMMA MoneyUntouched ==
  ASSUME PosIInv, Grows, UNCHANGED payment, slips \subseteq slips'
  PROVE  PaymentsInOrder' /\ NotOverpaid'
<1>1. PaymentsInOrder'
  BY DEF PosIInv, PaymentsInOrder, Grows
<1>2. NotOverpaid'
  <2> SUFFICES ASSUME NEW t \in Tickets \ revised', ActivePaymentsOf(payment, t) # {}
               PROVE  /\ t \notin slips' => PaidTo(payment, t) < ticket'[t].due
                      /\ Earlier(payment, t) # {} => Amount(payment, Earlier(payment, t)) < ticket'[t].due
    BY DEF NotOverpaid, Earlier, ActivePaymentsOf, PaidTo, Amount
  <2>1. PICK p \in ActivePaymentsOf(payment, t) : TRUE OBVIOUS
  <2>2. p \in Existing(payment) /\ payment[p].ticket = t
    BY DEF ActivePaymentsOf, Existing, PosIInv, TypeOK
  <2>3. ticket[t].status \notin {Absent, Open} BY <2>2 DEF PosIInv, PaymentsInOrder
  <2>4. ticket'[t].due = ticket[t].due /\ t \notin revised BY <2>3 DEF Grows
  <2> QED BY <2>4 DEF PosIInv, NotOverpaid
<1> QED BY <1>1, <1>2

LEMMA SameRowsEverywhere ==
  ASSUME Existing(shift') = Existing(shift), Existing(ticket') = Existing(ticket),
         Existing(payment') = Existing(payment), Existing(expense') = Existing(expense)
  PROVE  \A q \in Sequences : SameRows(q)
BY RowsAre DEF SameRows, Sequences

\* What is left to show of a write that takes no number and touches no payment.
LEMMA PlainWrite ==
  ASSUME NEW c \in Requests, NEW op, op # "idle", PosIInv, Writing(c, op), Unnumbered, TypeOK',
         account' \in [Tickets -> AccountRow],
         slips \subseteq slips', slips' \subseteq Tickets,
         revised \subseteq revised', revised' \subseteq Tickets,
         UNCHANGED <<payment, expense>>,
         \A s \in Shifts : shift[s].status = Absent <=> shift'[s].status = Absent,
         \A t \in Tickets : ticket[t].status = Absent <=> ticket'[t].status = Absent,
         \A t \in Tickets : ticket[t].status \notin {Absent, Open} =>
            ticket'[t].status # Open /\ (t \notin revised' => ticket'[t].due = ticket[t].due)
  PROVE  PosIInv'
<1>1. /\ DOMAIN shift = Shifts /\ DOMAIN shift' = Shifts
      /\ DOMAIN ticket = Tickets /\ DOMAIN ticket' = Tickets
  BY DEF PosIInv, TypeOK
<1>2. Existing(shift') = Existing(shift) /\ Existing(ticket') = Existing(ticket)
  BY <1>1 DEF Existing
<1>3. Counted' /\ \A q \in Sequences : nextFolio'[q] \in Nat /\ nextFolio[q] <= nextFolio'[q]
  BY <1>2, SameRowsEverywhere, UnnumberedKeepsCounted
<1>4. Grows BY <1>3 DEF Grows
<1>5. PaymentsInOrder' /\ NotOverpaid' BY <1>4, MoneyUntouched
<1>6. CallsOK' /\ DOMAIN call' = Requests BY <1>4, WritingKeepsCalls
<1>7. RequestTypeOK' BY <1>6 DEF RequestTypeOK, PosIInv, Unnumbered
<1> QED BY <1>3, <1>5, <1>6, <1>7 DEF PosIInv

LEMMA MaxWithZero == \A a \in Int : Max({a, 0}) = IF a >= 0 THEN a ELSE 0
<1> TAKE a \in Int
<1>1. CASE a >= 0
  <2>1. \E x \in {a, 0} : \A y \in {a, 0} : x >= y BY <1>1
  <2>2. Max({a, 0}) \in {a, 0} /\ Max({a, 0}) >= a /\ Max({a, 0}) >= 0 BY <2>1 DEF Max
  <2> QED BY <1>1, <2>2
<1>2. CASE ~(a >= 0)
  <2>1. \E x \in {a, 0} : \A y \in {a, 0} : x >= y BY <1>2
  <2>2. Max({a, 0}) \in {a, 0} /\ Max({a, 0}) >= a /\ Max({a, 0}) >= 0 BY <2>1 DEF Max
  <2> QED BY <1>2, <2>2
<1> QED BY <1>1, <1>2

LEMMA CountOfLines ==
  ASSUME NEW S, S \subseteq Lines
  PROVE  IsFiniteSet(S) /\ Cardinality(S) \in 0..Cardinality(Lines) /\ Cardinality(S) \in Nat
BY PosRequestsAssumption, FS_Subset, FS_CardinalityType

\* The total that the rows of an account give is an amount.
LEMMA TotalIsAmount ==
  ASSUME NEW row \in AccountRow
  PROVE  Total(row) \in Amounts /\ Total(row) \in Nat
<1> DEFINE n == Cardinality(Having(row, {Captured, Sent}))
           a == n - row.courtesy
<1>1. n \in Nat /\ n \in 0..Cardinality(Lines) /\ Cardinality(Lines) \in Nat
  BY CountOfLines, PosRequestsAssumption, FS_CardinalityType DEF Having
<1>2. row.courtesy \in Nat BY DEF AccountRow
<1>3. Total(row) = Max({a, 0}) BY DEF Total
<1> HIDE DEF n
<1>4. Max({a, 0}) \in 0..Cardinality(Lines)
  <2>1. a \in Int BY <1>1, <1>2
  <2>2. Max({a, 0}) = IF a >= 0 THEN a ELSE 0 BY <2>1, MaxWithZero
  <2> QED BY <1>1, <1>2, <2>2
<1> QED BY <1>3, <1>4, PosRequestsAssumption, CashFloorAssumption

-----------------------------------------------------------------------------
(* Writes that take no number and touch no payment.                        *)

LEMMA WriteCloseShiftKeepsPosIInv ==
  ASSUME NEW c \in Requests, PosIInv, WriteCloseShift(c)
  PROVE  PosIInv'
<1>1. Began(call[c]) /\ call[c].op = CountShift BY WritingHolds DEF WriteCloseShift
<1>2. call[c].on \in Shifts BY <1>1 DEF Began
<1> DEFINE s == call[c].on
<1>3. /\ shift' = [shift EXCEPT ![s] = [@ EXCEPT !.status = Closed, !.declared = 0]]
      /\ expected' = [expected EXCEPT ![s] = call[c].detail]
      /\ UNCHANGED <<ticket, cache, payment, expense, account, slips, revised>>
  BY DEF WriteCloseShift
<1>4. shift[s].status # Absent BY <1>1 DEF Began
<1> HIDE DEF s
<1>5. TypeOK'
  <2>1. [shift[s] EXCEPT !.status = Closed, !.declared = 0] \in ShiftRow
    BY <1>2, CashFloorAssumption DEF PosIInv, TypeOK, ShiftRow, s
  <2> QED BY <1>3, <2>1 DEF PosIInv, TypeOK
<1>6. \A r \in Shifts : shift[r].status = Absent <=> shift'[r].status = Absent
  BY <1>2, <1>3, <1>4 DEF PosIInv, TypeOK, ShiftRow, s
<1> QED BY <1>3, <1>5, <1>6, PlainWrite DEF PosIInv, RequestTypeOK, WriteCloseShift

\* What is left to show of a write that adds up the account again.
LEMMA TotalWrite ==
  ASSUME NEW c \in Requests, NEW op, op # "idle", PosIInv, Writing(c, op),
         NEW t \in Tickets, NEW kept \in BOOLEAN, WriteTotal(c, t, kept),
         ticket[t].status # Absent, call[c].seen.row \in TicketRow,
         NEW row \in AccountRow, account' = [account EXCEPT ![t] = row]
  PROVE  PosIInv'
<1> DEFINE sum == Total(account'[t])
           due == IF sum = call[c].seen.row.due /\ kept THEN ticket[t].due ELSE sum
<1>0. account' \in [Tickets -> AccountRow] /\ account'[t] = row BY DEF PosIInv, RequestTypeOK
<1>1. sum \in Amounts BY <1>0, TotalIsAmount
<1>2. due \in Amounts BY <1>1 DEF PosIInv, TypeOK, TicketRow
<1>3. /\ ticket' = [ticket EXCEPT ![t].due = due]
      /\ revised' = IF ticket[t].status # Open /\ due # ticket[t].due
                    THEN revised \cup {t} ELSE revised
      /\ Unnumbered /\ UNCHANGED <<shift, expected, cache, payment, expense, slips>>
  BY DEF WriteTotal
<1> HIDE DEF due
<1>4. TypeOK'
  <2>1. [ticket[t] EXCEPT !.due = due] \in TicketRow BY <1>2 DEF PosIInv, TypeOK, TicketRow
  <2> QED BY <1>3, <2>1 DEF PosIInv, TypeOK
<1>5. \A u \in Tickets : /\ ticket'[u].status = ticket[u].status
                         /\ u # t \/ due = ticket[t].due => ticket'[u].due = ticket[u].due
  BY <1>3 DEF PosIInv, TypeOK, TicketRow
<1>6. revised \subseteq revised' /\ revised' \subseteq Tickets BY <1>3 DEF PosIInv, RequestTypeOK
<1>7. \A u \in Tickets : ticket[u].status \notin {Absent, Open} =>
          ticket'[u].status # Open /\ (u \notin revised' => ticket'[u].due = ticket[u].due)
  BY <1>3, <1>5
<1> QED BY <1>0, <1>3, <1>4, <1>5, <1>6, <1>7, PlainWrite DEF PosIInv, RequestTypeOK

LEMMA WriteAddLineKeepsPosIInv ==
  ASSUME NEW c \in Requests, PosIInv, WriteAddLine(c)
  PROVE  PosIInv'
<1> DEFINE t == call[c].on
<1>1. Began(call[c]) /\ call[c].op = AddLine BY WritingHolds DEF WriteAddLine
<1>2. t \in Tickets /\ ticket[t].status # Absent /\ call[c].seen.row \in TicketRow
  BY <1>1 DEF Began, OnAccount
<1>3. PICK l \in LinesIn(t, {NoLine}) : account' = [account EXCEPT ![t].line[l] = Captured]
  BY DEF WriteAddLine
<1>4. Writing(c, AddLine) /\ WriteTotal(c, t, TRUE) BY DEF WriteAddLine
<1> HIDE DEF t
<1>5. l \in Lines BY <1>3 DEF LinesIn, Having
<1> DEFINE row == [account[t] EXCEPT !.line[l] = Captured]
<1>6. row \in AccountRow BY <1>2, <1>5 DEF PosIInv, RequestTypeOK, AccountRow
<1>7. account' = [account EXCEPT ![t] = row] BY <1>3
<1> QED BY <1>2, <1>4, <1>6, <1>7, TotalWrite

LEMMA WriteCancelLineKeepsPosIInv ==
  ASSUME NEW c \in Requests, PosIInv, WriteCancelLine(c)
  PROVE  PosIInv'
<1> DEFINE t == call[c].on[1]
           l == call[c].on[2]
<1>1. Began(call[c]) /\ call[c].op = DropLine BY WritingHolds DEF WriteCancelLine
<1>2. t \in Tickets /\ l \in Lines /\ ticket[t].status # Absent /\ call[c].seen.row \in TicketRow
  BY <1>1 DEF Began
<1>3. account' = [account EXCEPT ![t].line[l] = Dropped] BY DEF WriteCancelLine
<1>4. Writing(c, DropLine) /\ WriteTotal(c, t, TRUE) BY DEF WriteCancelLine
<1> HIDE DEF t, l
<1> DEFINE row == [account[t] EXCEPT !.line[l] = Dropped]
<1>6. row \in AccountRow BY <1>2 DEF PosIInv, RequestTypeOK, AccountRow
<1>7. account' = [account EXCEPT ![t] = row] BY <1>3
<1> QED BY <1>2, <1>4, <1>6, <1>7, TotalWrite

LEMMA WriteCourtesyKeepsPosIInv ==
  ASSUME NEW c \in Requests, PosIInv, WriteCourtesy(c)
  PROVE  PosIInv'
<1> DEFINE t == call[c].on
           n == Cardinality(call[c].detail[1])
<1>1. Began(call[c]) /\ ReadBefore(call[c]) /\ call[c].read /\ call[c].op = Forgive
  BY WritingHolds DEF WriteCourtesy
<1>2. t \in Tickets /\ ticket[t].status # Absent /\ call[c].seen.row \in TicketRow
  BY <1>1 DEF Began, OnAccount
<1>3. account' = [account EXCEPT ![t].courtesy = @ + n] BY DEF WriteCourtesy
<1>4. Writing(c, Forgive) /\ WriteTotal(c, t, n = call[c].seen.row.due) BY DEF WriteCourtesy
<1>5. n \in Nat BY <1>1, CountOfLines DEF ReadBefore
<1> HIDE DEF t, n
<1> DEFINE row == [account[t] EXCEPT !.courtesy = @ + n]
<1>6. row \in AccountRow
  <2>1. account[t] \in AccountRow BY <1>2 DEF PosIInv, RequestTypeOK
  <2>2. account[t].courtesy \in Nat BY <2>1 DEF AccountRow
  <2>3. account[t].courtesy + n \in Nat BY <1>5, <2>2
  <2> QED BY <2>1, <2>3 DEF AccountRow
<1>7. account' = [account EXCEPT ![t] = row] BY <1>3
<1>8. (n = call[c].seen.row.due) \in BOOLEAN OBVIOUS
<1> QED BY <1>2, <1>4, <1>6, <1>7, <1>8, TotalWrite

LEMMA WriteSendRoundKeepsPosIInv ==
  ASSUME NEW c \in Requests, PosIInv, WriteSendRound(c)
  PROVE  PosIInv'
<1> DEFINE t == call[c].on
           S == call[c].seen.captured
<1>1. Began(call[c]) /\ call[c].op = SendRound BY WritingHolds DEF WriteSendRound
<1>2. t \in Tickets BY <1>1 DEF Began, OnAccount
<1>3. account' = [account EXCEPT ![t].rounds = @ + 1,
                    ![t].line = [l \in Lines |-> IF l \in S THEN Sent ELSE @[l]]]
  BY DEF WriteSendRound
<1> HIDE DEF t, S
<1>4. account' \in [Tickets -> AccountRow]
  <2>1. account[t] \in AccountRow BY <1>2 DEF PosIInv, RequestTypeOK
  <2> DEFINE line == [l \in Lines |-> IF l \in S THEN Sent ELSE account[t].line[l]]
  <2>2. line \in [Lines -> {NoLine, Captured, Sent, Dropped}]
    <3>1. account[t].line \in [Lines -> {NoLine, Captured, Sent, Dropped}] BY <2>1 DEF AccountRow
    <3>2. \A l \in Lines : account[t].line[l] \in {NoLine, Captured, Sent, Dropped} BY <3>1
    <3> QED BY <3>2
  <2>6. account[t].rounds \in Nat BY <2>1 DEF AccountRow
  <2>7. account[t].rounds + 1 \in Nat BY <2>6
  <2>8. account' = [account EXCEPT ![t].rounds = @ + 1, ![t].line = line]
    BY <1>2, <1>3, <2>1 DEF PosIInv, RequestTypeOK, AccountRow
  <2> HIDE DEF line
  <2>9. account'[t] = [account[t] EXCEPT !.rounds = @ + 1, !.line = line]
    BY <1>2, <2>8 DEF PosIInv, RequestTypeOK
  <2>3. account'[t] \in AccountRow BY <2>1, <2>2, <2>7, <2>9 DEF AccountRow
  <2>4. DOMAIN account' = Tickets /\ \A u \in Tickets \ {t} : account'[u] = account[u]
    BY <1>3 DEF PosIInv, RequestTypeOK
  <2>5. account' = [u \in Tickets |-> account'[u]] BY <1>3 DEF PosIInv, RequestTypeOK
  <2>10. \A u \in Tickets : account'[u] \in AccountRow BY <2>3, <2>4 DEF PosIInv, RequestTypeOK
  <2> QED BY <2>5, <2>10
<1>5. UNCHANGED <<vars, slips, revised>> /\ Unnumbered /\ Writing(c, SendRound)
  BY DEF WriteSendRound
<1>6. TypeOK' BY <1>5 DEF vars, PosIInv, TypeOK
<1> QED BY <1>4, <1>5, <1>6, PlainWrite DEF vars, PosIInv, RequestTypeOK

LEMMA WriteStartPaymentKeepsPosIInv ==
  ASSUME NEW c \in Requests, PosIInv, WriteStartPayment(c)
  PROVE  PosIInv'
<1> DEFINE t == call[c].on
<1>1. Began(call[c]) /\ call[c].op = StartBilling BY WritingHolds DEF WriteStartPayment
<1>2. t \in Tickets /\ ticket[t].status # Absent BY <1>1 DEF Began, OnAccount
<1>3. /\ \/ ticket' = [ticket EXCEPT ![t].status = Paid] /\ cache' = Released(t)
            /\ slips' = slips \cup {t}
         \/ /\ ticket' = [ticket EXCEPT ![t].status = InPayment]
            /\ cache' = [cache EXCEPT ![ticket[t].table] = InPayment]
            /\ UNCHANGED slips
      /\ Unnumbered /\ Writing(c, StartBilling)
      /\ UNCHANGED <<shift, expected, payment, expense, account, revised>>
  BY DEF WriteStartPayment, Settle
<1> HIDE DEF t
<1>4. PICK st \in {Paid, InPayment} : ticket' = [ticket EXCEPT ![t].status = st] BY <1>3
<1>5. cache' \in [Tables -> {Free, Occupied, InPayment}]
  BY <1>3 DEF Released, PosIInv, TypeOK
<1>6. TypeOK'
  <2>1. [ticket[t] EXCEPT !.status = st] \in TicketRow BY <1>2 DEF PosIInv, TypeOK, TicketRow
  <2> QED BY <1>3, <1>4, <1>5, <2>1 DEF PosIInv, TypeOK
<1>7. \A u \in Tickets : /\ ticket'[u].due = ticket[u].due
                         /\ u # t => ticket'[u].status = ticket[u].status
                         /\ u = t => ticket'[u].status = st
  BY <1>4 DEF PosIInv, TypeOK, TicketRow
<1>8. slips \subseteq slips' /\ slips' \subseteq Tickets
  BY <1>2, <1>3 DEF PosIInv, RequestTypeOK
<1> QED BY <1>2, <1>3, <1>6, <1>7, <1>8, PlainWrite DEF PosIInv, RequestTypeOK

-----------------------------------------------------------------------------
(* Writes that take a number.                                              *)

\* What is left to show of a write that numbers a row i and books no payment.
LEMMA NumberedWrite ==
  ASSUME NEW c \in Requests, NEW op \in DOMAIN Sequence, NEW i, PosIInv,
         Writing(c, op), Number(c), TypeOK',
         i \notin RowsOf[Sequence[op]], RowsOf'[Sequence[op]] = RowsOf[Sequence[op]] \cup {i},
         \A q \in Sequences : q # Sequence[op] => SameRows(q),
         UNCHANGED <<payment, account, slips, revised>>,
         Existing(shift) \subseteq Existing(shift'),
         \A t \in Existing(ticket) : ticket'[t] = ticket[t]
  PROVE  PosIInv'
<1>1. op # "idle" BY SequenceOf
<1>2. ReadBefore(call[c]) /\ call[c].read /\ call[c].op = op BY <1>1, WritingHolds
<1>3. /\ Counted'
      /\ nextFolio' \in [Sequences -> Nat \ {0}] /\ folios' \in [Sequences -> SUBSET Nat]
      /\ \A q \in Sequences : nextFolio'[q] \in Nat /\ nextFolio[q] <= nextFolio'[q]
  BY <1>2, NumberKeepsCounted
<1>4. /\ DOMAIN shift = Shifts /\ DOMAIN shift' = Shifts
      /\ DOMAIN ticket = Tickets /\ DOMAIN ticket' = Tickets
  BY DEF PosIInv, TypeOK
<1>5. Grows BY <1>3, <1>4 DEF Grows, Existing
<1>6. PaymentsInOrder' /\ NotOverpaid' BY <1>5, MoneyUntouched
<1>7. CallsOK' /\ DOMAIN call' = Requests BY <1>1, <1>5, WritingKeepsCalls
<1>8. RequestTypeOK' BY <1>3, <1>7 DEF RequestTypeOK, PosIInv
<1> QED BY <1>3, <1>6, <1>7, <1>8 DEF PosIInv

LEMMA WriteOpenShiftKeepsPosIInv ==
  ASSUME NEW c \in Requests, PosIInv, WriteOpenShift(c)
  PROVE  PosIInv'
<1> DEFINE i == NextId(shift)
<1>1. /\ Writing(c, NewShift) /\ Number(c) /\ RoomFor(shift)
      /\ shift' = [shift EXCEPT ![i] = [@ EXCEPT !.status = Open, !.opening = 0]]
      /\ UNCHANGED <<expected, ticket, cache, payment, expense, account, slips, revised>>
  BY DEF WriteOpenShift
<1>2. DOMAIN shift = Shifts /\ DOMAIN shift' = Shifts BY <1>1 DEF PosIInv, TypeOK
<1>3. i \in Shifts /\ shift[i].status = Absent BY <1>1, <1>2, Ids, NextIdIsFree
<1> HIDE DEF i
<1>4. TypeOK'
  <2>1. [shift[i] EXCEPT !.status = Open, !.opening = 0] \in ShiftRow
    BY <1>3, CashFloorAssumption DEF PosIInv, TypeOK, ShiftRow
  <2> QED BY <1>1, <2>1 DEF PosIInv, TypeOK
<1>5. Existing(shift') = Existing(shift) \cup {i} /\ i \notin Existing(shift)
  <2>1. shift'[i].status = Open BY <1>1, <1>3 DEF PosIInv, TypeOK, ShiftRow
  <2>2. \A s \in Shifts \ {i} : shift'[s] = shift[s] BY <1>1, <1>2
  <2> QED BY <1>2, <1>3, <2>1, <2>2 DEF Existing
<1>6. \A q \in Sequences : q # "CORTE" => SameRows(q)
  BY <1>1, RowsAre DEF SameRows, Sequences, Existing
<1>10. NewShift \in DOMAIN Sequence /\ Sequence[NewShift] = "CORTE" BY SequenceOf
<1>11. i \notin RowsOf["CORTE"] /\ RowsOf'["CORTE"] = RowsOf["CORTE"] \cup {i} BY <1>5, RowsAre
<1>12. Existing(shift) \subseteq Existing(shift') /\ \A t \in Existing(ticket) : ticket'[t] = ticket[t]
  BY <1>1, <1>5
<1> QED BY <1>1, <1>4, <1>5, <1>6, <1>10, <1>11, <1>12, NumberedWrite

LEMMA LeastShift ==
  ASSUME NEW S \in (SUBSET Shifts) \ {{}}
  PROVE  Min(S) \in S /\ Min(S) \in Shifts
<1>1. PICK n \in S : \A m \in S : n <= m BY Ids, LeastNatural
<1> QED BY <1>1 DEF Min

LEMMA WriteExpenseKeepsPosIInv ==
  ASSUME NEW c \in Requests, PosIInv, WriteExpense(c)
  PROVE  PosIInv'
<1> DEFINE i == NextId(expense)
           s == Min(call[c].seen)
<1>1. /\ Writing(c, Spend) /\ Number(c) /\ RoomFor(expense)
      /\ expense' = [expense EXCEPT ![i] = [status |-> Active, shift |-> s, amount |-> 1]]
      /\ UNCHANGED <<shift, expected, ticket, cache, payment, account, slips, revised>>
  BY DEF WriteExpense
<1>2. DOMAIN expense = Expenses /\ DOMAIN expense' = Expenses BY <1>1 DEF PosIInv, TypeOK
<1>3. i \in Expenses /\ expense[i].status = Absent BY <1>1, <1>2, Ids, NextIdIsFree
<1>4. s \in Shifts
  <2>1. Began(call[c]) /\ call[c].op = Spend BY <1>1, WritingHolds
  <2>2. call[c].seen \in (SUBSET Shifts) \ {{}} BY <2>1 DEF Began
  <2> QED BY <2>2, LeastShift
<1> HIDE DEF i, s
<1>5. TypeOK'
  <2>1. [status |-> Active, shift |-> s, amount |-> 1] \in ExpenseRow
    BY <1>4, PosRequestsAssumption DEF ExpenseRow
  <2> QED BY <1>1, <2>1 DEF PosIInv, TypeOK
<1>6. Existing(expense') = Existing(expense) \cup {i} /\ i \notin Existing(expense)
  <2>1. expense'[i].status = Active BY <1>1, <1>2, <1>3
  <2>2. \A e \in Expenses \ {i} : expense'[e] = expense[e] BY <1>1, <1>2
  <2> QED BY <1>2, <1>3, <2>1, <2>2 DEF Existing
<1>7. \A q \in Sequences : q # "GASTO" => SameRows(q)
  BY <1>1, RowsAre DEF SameRows, Sequences, Existing
<1>10. Spend \in DOMAIN Sequence /\ Sequence[Spend] = "GASTO" BY SequenceOf
<1>11. i \notin RowsOf["GASTO"] /\ RowsOf'["GASTO"] = RowsOf["GASTO"] \cup {i} BY <1>6, RowsAre
<1>12. Existing(shift) \subseteq Existing(shift') /\ \A t \in Existing(ticket) : ticket'[t] = ticket[t]
  BY <1>1
<1> QED BY <1>1, <1>5, <1>6, <1>7, <1>10, <1>11, <1>12, NumberedWrite

LEMMA WriteOpenTicketKeepsPosIInv ==
  ASSUME NEW c \in Requests, PosIInv, WriteOpenTicket(c)
  PROVE  PosIInv'
<1> DEFINE i == NextId(ticket)
           s == Min(call[c].seen[1])
           b == call[c].on
<1>1. /\ Writing(c, SeatTable) /\ Number(c) /\ RoomFor(ticket)
      /\ ticket' = [ticket EXCEPT ![i] = [status |-> Open, table |-> b, shift |-> s, due |-> 0]]
      /\ cache' = [cache EXCEPT ![b] = Occupied]
      /\ UNCHANGED <<shift, expected, payment, expense, account, slips, revised>>
  BY DEF WriteOpenTicket
<1>2. DOMAIN ticket = Tickets /\ DOMAIN ticket' = Tickets BY <1>1 DEF PosIInv, TypeOK
<1>3. i \in Tickets /\ ticket[i].status = Absent BY <1>1, <1>2, Ids, NextIdIsFree
<1>4. s \in Shifts /\ b \in Tables
  <2>1. Began(call[c]) /\ call[c].op = SeatTable BY <1>1, WritingHolds
  <2>2. call[c].seen[1] \in (SUBSET Shifts) \ {{}} /\ b \in Tables BY <2>1 DEF Began
  <2> QED BY <2>2, LeastShift
<1> HIDE DEF i, s, b
<1>5. TypeOK'
  <2>1. [status |-> Open, table |-> b, shift |-> s, due |-> 0] \in TicketRow
    BY <1>4, CashFloorAssumption DEF TicketRow
  <2>2. cache' \in [Tables -> {Free, Occupied, InPayment}] BY <1>1 DEF PosIInv, TypeOK
  <2> QED BY <1>1, <2>1, <2>2 DEF PosIInv, TypeOK
<1>6. \A t \in Tickets \ {i} : ticket'[t] = ticket[t] BY <1>1, <1>2
<1>7. Existing(ticket') = Existing(ticket) \cup {i} /\ i \notin Existing(ticket)
  <2>1. ticket'[i].status = Open BY <1>1, <1>2, <1>3
  <2> QED BY <1>2, <1>3, <1>6, <2>1 DEF Existing
<1>8. \A q \in Sequences : q # "TICKET" => SameRows(q)
  BY <1>1, RowsAre DEF SameRows, Sequences, Existing
<1>9. \A t \in Existing(ticket) : ticket'[t] = ticket[t] BY <1>2, <1>6, <1>7 DEF Existing
<1>10. SeatTable \in DOMAIN Sequence /\ Sequence[SeatTable] = "TICKET" BY SequenceOf
<1>11. i \notin RowsOf["TICKET"] /\ RowsOf'["TICKET"] = RowsOf["TICKET"] \cup {i} BY <1>7, RowsAre
<1>12. Existing(shift) \subseteq Existing(shift') BY <1>1
<1> QED BY <1>1, <1>5, <1>8, <1>9, <1>10, <1>11, <1>12, NumberedWrite

-----------------------------------------------------------------------------
(* Writes to the payments.                                                 *)

LEMMA AmountType ==
  ASSUME NEW f \in [Payments -> PaymentRow], NEW S, S \subseteq Payments, IsFiniteSet(S)
  PROVE  Amount(f, S) \in Nat
<1> DEFINE amount == [p \in S |-> f[p].amount]
<1>1. ASSUME NEW p \in S PROVE amount[p] \in Nat
  <2>1. f[p] \in PaymentRow OBVIOUS
  <2> QED BY <2>1, CashFloorAssumption DEF PaymentRow
<1>2. Amount(f, S) = SumFunctionOnSet(amount, S) BY DEF Amount, SumFunction
<1> HIDE DEF amount
<1> QED BY <1>1, <1>2, SumIsNat

\* One payment of many.
LEMMA AmountWithout ==
  ASSUME NEW f \in [Payments -> PaymentRow], NEW S \in SUBSET Payments, IsFiniteSet(S),
         NEW p \in S
  PROVE  Amount(f, S) = f[p].amount + Amount(f, S \ {p})
<1> DEFINE all == [q \in S |-> f[q].amount]
           few == [q \in S \ {p} |-> f[q].amount]
<1>1. ASSUME NEW q \in S PROVE all[q] \in Int
  <2>1. f[q] \in PaymentRow OBVIOUS
  <2>2. f[q].amount \in Nat BY <2>1, CashFloorAssumption DEF PaymentRow
  <2> QED BY <2>2
<1>2. Amount(f, S) = SumFunctionOnSet(all, S) BY DEF Amount, SumFunction
<1>3. Amount(f, S \ {p}) = SumFunctionOnSet(few, S \ {p}) BY DEF Amount, SumFunction
<1>4. all[p] = f[p].amount /\ \A q \in S \ {p} : few[q] = all[q] OBVIOUS
<1>5. IsFiniteSet(S \ {p}) BY FS_Subset
<1> HIDE DEF all, few
<1>6. SumFunctionOnSet(all, S) = all[p] + SumFunctionOnSet(all, S \ {p}) BY <1>1, SumWithout
<1>7. SumFunctionOnSet(few, S \ {p}) = SumFunctionOnSet(all, S \ {p})
  BY <1>4, <1>5, SumsAreEqual
<1> QED BY <1>2, <1>3, <1>4, <1>6, <1>7

\* Some payments less.
LEMMA AmountOfFewer ==
  ASSUME NEW f \in [Payments -> PaymentRow], NEW g \in [Payments -> PaymentRow],
         NEW S, S \subseteq Payments, IsFiniteSet(S), NEW R \in SUBSET S,
         \A q \in R : g[q].amount = f[q].amount
  PROVE  Amount(g, R) <= Amount(f, S)
<1> DEFINE all == [q \in S |-> f[q].amount]
           few == [q \in R |-> g[q].amount]
<1>1. IsFiniteSet(R) BY FS_Subset
<1>2. ASSUME NEW q \in S PROVE all[q] \in Nat
  <2>1. f[q] \in PaymentRow OBVIOUS
  <2> QED BY <2>1, CashFloorAssumption DEF PaymentRow
<1>3. Amount(f, S) = SumFunctionOnSet(all, S) BY DEF Amount, SumFunction
<1>4. Amount(g, R) = SumFunctionOnSet(few, R) BY DEF Amount, SumFunction
<1>5. \A q \in R : few[q] = all[q] OBVIOUS
<1> HIDE DEF all, few
<1>6. SumFunctionOnSet(few, R) = SumFunctionOnSet(all, R) BY <1>1, <1>5, SumsAreEqual
<1>7. SumFunctionOnSet(all, R) <= SumFunctionOnSet(all, S) BY <1>2, SumOfSubset
<1> QED BY <1>3, <1>4, <1>6, <1>7

LEMMA PaidIsAmount == \A f, t : PaidTo(f, t) = Amount(f, ActivePaymentsOf(f, t))
  BY DEF PaidTo, Amount

LEMMA ActiveAreFinite ==
  ASSUME PosIInv, NEW t
  PROVE  /\ ActivePaymentsOf(payment, t) \subseteq Existing(payment)
         /\ ActivePaymentsOf(payment, t) \subseteq Payments
         /\ IsFiniteSet(ActivePaymentsOf(payment, t))
         /\ IsFiniteSet(Earlier(payment, t))
<1>1. DOMAIN payment = Payments BY DEF PosIInv, TypeOK
<1>2. /\ ActivePaymentsOf(payment, t) \subseteq Existing(payment)
      /\ ActivePaymentsOf(payment, t) \subseteq Payments
  BY <1>1 DEF ActivePaymentsOf, Existing
<1>3. IsFiniteSet(Existing(payment)) BY RowsAre DEF PosIInv, Counted, Sequences
<1>4. IsFiniteSet(ActivePaymentsOf(payment, t)) BY <1>2, <1>3, FS_Subset
<1>5. IsFiniteSet(Earlier(payment, t)) BY <1>4, FS_Subset DEF Earlier
<1> QED BY <1>2, <1>4, <1>5

\* The greatest of a set of ids.
LEMMA GreatestPayment ==
  ASSUME NEW S, S \subseteq Payments, IsFiniteSet(S), S # {}
  PROVE  Max(S) \in S /\ \A x \in S : Max(S) >= x
<1>1. S \subseteq Int BY Ids
<1>2. PICK m \in S : \A x \in S : x <= m BY <1>1, GreatestInteger
<1>3. \A x \in S : m >= x BY <1>1, <1>2
<1> QED BY <1>3 DEF Max

LEMMA WritePaymentKeepsPosIInv ==
  ASSUME NEW c \in Requests, PosIInv, WritePayment(c)
  PROVE  PosIInv'
<1> DEFINE t == call[c].on
           p == NextId(payment)
           due == call[c].seen.row.due
           row == [status |-> Active, ticket |-> t, shift |-> call[c].seen.row.shift,
                   amount |-> 1, cash |-> TRUE]
<1>1. /\ Writing(c, Pay) /\ RoomFor(payment) /\ Number(c)
      /\ payment' = [payment EXCEPT ![p] = row]
      /\ IF PaidNow(payment', t) < due THEN UNCHANGED <<ticket, cache, slips>> ELSE Settle(t)
      /\ UNCHANGED <<shift, expected, expense, account, revised>>
  BY DEF WritePayment
<1>2. Began(call[c]) /\ ReadBefore(call[c]) /\ call[c].read /\ call[c].op = Pay
  BY <1>1, WritingHolds
<1>3. /\ t \in Tickets /\ call[c].seen.row \in TicketRow
      /\ ticket[t].status \notin {Absent, Open}
      /\ t \notin revised => due = ticket[t].due
  BY <1>2 DEF Began, OnAccount
<1>4. /\ ticket \in [Tickets -> TicketRow] /\ payment \in [Payments -> PaymentRow]
      /\ cache \in [Tables -> {Free, Occupied, InPayment}] /\ slips \subseteq Tickets
  BY DEF PosIInv, TypeOK, RequestTypeOK
<1>5. /\ p \in Payments /\ payment[p].status = Absent
      /\ \A q \in Payments : q < p => payment[q].status # Absent
  BY <1>1, <1>4, Ids, NextIdIsFree
<1>6. row \in PaymentRow /\ row.status = Active /\ row.ticket = t /\ row.amount = 1
  BY <1>3, PosRequestsAssumption DEF TicketRow, PaymentRow
<1> HIDE DEF t, p, due, row
<1>7. /\ payment' \in [Payments -> PaymentRow] /\ payment'[p] = row
      /\ \A q \in Payments \ {p} : payment'[q] = payment[q]
  BY <1>1, <1>4, <1>5, <1>6
<1>8. Existing(payment') = Existing(payment) \cup {p} /\ p \notin Existing(payment)
  BY <1>4, <1>5, <1>6, <1>7 DEF Existing
<1>9. \/ UNCHANGED <<ticket, cache, slips>> /\ PaidTo(payment', t) < due
      \/ /\ ticket' = [ticket EXCEPT ![t].status = Paid] /\ cache' = Released(t)
         /\ t \notin slips /\ slips' = slips \cup {t}
  BY <1>1 DEF PaidNow, Settle
<1>10. /\ ticket' \in [Tickets -> TicketRow]
       /\ ticket'[t].status \notin {Absent, Open} /\ ticket'[t].due = ticket[t].due
       /\ \A u \in Tickets \ {t} : ticket'[u] = ticket[u]
  <2>1. CASE UNCHANGED ticket BY <1>3, <1>4, <2>1
  <2>2. CASE ticket' = [ticket EXCEPT ![t].status = Paid]
    <3>1. [ticket[t] EXCEPT !.status = Paid] \in TicketRow BY <1>3, <1>4 DEF TicketRow
    <3>2. ticket[t] \in TicketRow BY <1>3, <1>4
    <3> QED BY <1>3, <1>4, <2>2, <3>1, <3>2 DEF TicketRow
  <2> QED BY <1>9, <2>1, <2>2
<1>11. cache' \in [Tables -> {Free, Occupied, InPayment}] /\ slips \subseteq slips' /\ slips' \subseteq Tickets
  BY <1>3, <1>4, <1>9 DEF Released
<1>12. TypeOK' BY <1>1, <1>7, <1>10, <1>11 DEF PosIInv, TypeOK
<1>13. /\ Counted'
       /\ nextFolio' \in [Sequences -> Nat \ {0}] /\ folios' \in [Sequences -> SUBSET Nat]
       /\ \A q \in Sequences : nextFolio'[q] \in Nat /\ nextFolio[q] <= nextFolio'[q]
  <2>1. Pay \in DOMAIN Sequence /\ Sequence[Pay] = "PAGO" BY SequenceOf
  <2>2. p \notin RowsOf["PAGO"] /\ RowsOf'["PAGO"] = RowsOf["PAGO"] \cup {p} BY <1>8, RowsAre
  <2>3. Existing(ticket') = Existing(ticket) BY <1>3, <1>4, <1>10 DEF Existing
  <2>4. \A q \in Sequences : q # "PAGO" => SameRows(q)
    BY <1>1, <2>3, RowsAre DEF SameRows, Sequences, Existing
  <2> QED BY <1>1, <1>2, <2>1, <2>2, <2>4, NumberKeepsCounted
<1>14. Grows BY <1>1, <1>3, <1>8, <1>10, <1>13 DEF Grows
<1>15. CallsOK' /\ DOMAIN call' = Requests BY <1>1, <1>14, WritingKeepsCalls
<1>16. RequestTypeOK' BY <1>1, <1>11, <1>13, <1>15 DEF PosIInv, RequestTypeOK
<1>17. PaymentsInOrder'
  <2> SUFFICES ASSUME NEW x \in Existing(payment')
               PROVE  /\ payment'[x].ticket \in Tickets
                      /\ ticket'[payment'[x].ticket].status \notin {Absent, Open}
                      /\ \A q \in Payments : q < x => q \in Existing(payment')
    BY DEF PaymentsInOrder
  <2>1. CASE x = p
    <3>1. \A q \in Payments : q < p => q \in Existing(payment) BY <1>4, <1>5 DEF Existing
    <3> QED BY <1>3, <1>6, <1>7, <1>8, <1>10, <2>1, <3>1
  <2>2. CASE x # p
    <3>1. x \in Existing(payment) /\ x \in Payments BY <1>4, <1>8, <2>2 DEF Existing
    <3>2. payment'[x] = payment[x] BY <1>7, <2>2, <3>1
    <3> QED BY <1>8, <1>10, <3>1, <3>2 DEF PosIInv, PaymentsInOrder
  <2> QED BY <2>1, <2>2
<1>18. NotOverpaid'
  <2> SUFFICES ASSUME NEW u \in Tickets, u \notin revised, ActivePaymentsOf(payment', u) # {}
               PROVE  /\ u \notin slips' => PaidTo(payment', u) < ticket'[u].due
                      /\ Earlier(payment', u) # {} =>
                            Amount(payment', Earlier(payment', u)) < ticket'[u].due
    BY <1>1 DEF NotOverpaid
  <2> DEFINE S == ActivePaymentsOf(payment, u)
  <2>1. CASE u # t
    <3>1. ActivePaymentsOf(payment', u) = S
      BY <1>5, <1>6, <1>7, <2>1 DEF ActivePaymentsOf
    <3>2. p \notin S BY <1>5 DEF ActivePaymentsOf
    <3>3. \A q \in S : payment'[q].amount = payment[q].amount
      BY <1>7, <3>2 DEF ActivePaymentsOf
    <3>4. Earlier(payment', u) = Earlier(payment, u) /\ Earlier(payment, u) \subseteq S
      BY <3>1 DEF Earlier
    <3>5. PaidTo(payment', u) = PaidTo(payment, u)
      BY <3>1, <3>3, SamePaid
    <3>6. [q \in Earlier(payment, u) |-> payment'[q].amount]
             = [q \in Earlier(payment, u) |-> payment[q].amount]
      BY <3>3, <3>4
    <3>7. Amount(payment', Earlier(payment, u)) = Amount(payment, Earlier(payment, u))
      BY <3>6 DEF Amount
    <3>8. u \notin slips' => u \notin slips BY <1>9
    <3> QED BY <1>10, <2>1, <3>1, <3>4, <3>5, <3>7, <3>8 DEF PosIInv, NotOverpaid
  <2>2. CASE u = t
    <3>0. S \subseteq Payments /\ IsFiniteSet(S) /\ S \subseteq Existing(payment) BY ActiveAreFinite
    <3>1. ActivePaymentsOf(payment', u) = S \cup {p}
      BY <1>5, <1>6, <1>7, <2>2 DEF ActivePaymentsOf
    <3>2. p \notin S BY <1>8, <3>0
    <3>3. \A q \in S : payment'[q].amount = payment[q].amount BY <1>7, <3>0, <3>2
    <3>4. \A q \in S : p > q
      <4> TAKE q \in S
      <4>1. ~(p < q) BY <1>5, <1>8, <3>0 DEF PosIInv, PaymentsInOrder
      <4>2. p # q /\ p \in Nat /\ q \in Nat BY <1>5, <3>0, <3>2, Ids
      <4> QED BY <4>1, <4>2
    <3>5. Earlier(payment', u) = S
      <4>1. IsFiniteSet(S \cup {p}) BY <3>0, FS_AddElement
      <4>2. Max(S \cup {p}) \in S \cup {p} /\ \A x \in S \cup {p} : Max(S \cup {p}) >= x
        BY <1>5, <3>0, <4>1, GreatestPayment
      <4>3. Max(S \cup {p}) = p
        <5> SUFFICES ASSUME Max(S \cup {p}) \in S PROVE FALSE
          BY <4>2
        <5>1. p > Max(S \cup {p}) /\ Max(S \cup {p}) >= p BY <3>4, <4>2
        <5>2. p \in Nat /\ Max(S \cup {p}) \in Nat BY <1>5, <3>0, Ids
        <5> QED BY <5>1, <5>2
      <4> QED BY <3>1, <3>2, <4>3 DEF Earlier
    <3>6. Amount(payment', S) = Amount(payment, S)
      <4>1. [q \in S |-> payment'[q].amount] = [q \in S |-> payment[q].amount] BY <3>3
      <4> QED BY <4>1 DEF Amount
    <3>7. Amount(payment', S \cup {p}) = 1 + Amount(payment, S)
      <4> DEFINE g == payment'
                 T == S \cup {p}
      <4>1. T \in SUBSET Payments /\ IsFiniteSet(T) /\ p \in T /\ T \ {p} = S
        BY <1>5, <3>0, <3>2, FS_AddElement
      <4>2. g \in [Payments -> PaymentRow] /\ g[p].amount = 1 /\ Amount(g, S) = Amount(payment, S)
        BY <1>6, <1>7, <3>6
      <4> HIDE DEF S, T, g
      <4>3. Amount(g, T) = g[p].amount + Amount(g, T \ {p}) BY <4>1, <4>2, AmountWithout
      <4> QED BY <4>1, <4>2, <4>3 DEF g, T
    <3>8. PaidTo(payment', u) = 1 + Amount(payment, S) /\ PaidTo(payment, u) = Amount(payment, S)
      BY <3>1, <3>7, PaidIsAmount
    <3>9. Amount(payment, S) \in Nat BY <1>4, <3>0, AmountType
    <3>10. due = ticket[u].due /\ ticket'[u].due = ticket[u].due BY <1>3, <1>10, <2>2
    <3>11. ticket[u].due \in Nat
      <4>1. ticket[u] \in TicketRow BY <1>4
      <4> QED BY <4>1, CashFloorAssumption DEF TicketRow
    <3>12. u \notin slips' => PaidTo(payment', u) < ticket'[u].due
      BY <1>9, <2>2, <3>10
    <3>13. S # {} => Amount(payment, S) < ticket[u].due
      <4>1. CASE u \in slips
        <5>1. PaidTo(payment', u) < ticket[u].due BY <1>9, <2>2, <3>10, <4>1
        <5> QED BY <3>8, <3>9, <3>11, <5>1
      <4>2. CASE u \notin slips BY <3>8, <4>2 DEF PosIInv, NotOverpaid
      <4> QED BY <4>1, <4>2
    <3> QED BY <3>5, <3>6, <3>10, <3>12, <3>13
  <2> QED BY <2>1, <2>2
<1> QED BY <1>12, <1>13, <1>15, <1>16, <1>17, <1>18 DEF PosIInv

\* Cancelling an account takes back payments that exist, and adds none.
LEMMA WriteCancelTicketKeepsPosIInv ==
  ASSUME NEW c \in Requests, PosIInv, WriteCancelTicket(c)
  PROVE  PosIInv'
<1> DEFINE t == call[c].on
           D == call[c].detail[1]
           R == call[c].detail[2]
<1>1. /\ Writing(c, CallOff) /\ Unnumbered
      /\ ticket' = [ticket EXCEPT ![t].status = Cancelled]
      /\ account' = [account EXCEPT ![t].line = [l \in Lines |-> IF l \in D THEN Dropped ELSE @[l]]]
      /\ payment' = [p \in Payments |-> IF p \in R
                        THEN [payment[p] EXCEPT !.status = Cancelled] ELSE payment[p]]
      /\ cache' = Released(t)
      /\ UNCHANGED <<shift, expected, expense, slips, revised>>
  BY DEF WriteCancelTicket
<1>2. Began(call[c]) /\ ReadBefore(call[c]) /\ call[c].read /\ call[c].op = CallOff
  BY <1>1, WritingHolds
<1>3. t \in Tickets /\ ticket[t].status # Absent /\ R \subseteq Existing(payment)
  BY <1>2 DEF Began, ReadBefore, OnAccount
<1>4. /\ ticket \in [Tickets -> TicketRow] /\ payment \in [Payments -> PaymentRow]
      /\ cache \in [Tables -> {Free, Occupied, InPayment}]
      /\ account \in [Tickets -> AccountRow]
  BY DEF PosIInv, TypeOK, RequestTypeOK
<1> HIDE DEF t, D, R
<1>5. /\ ticket' \in [Tickets -> TicketRow]
      /\ ticket'[t].status = Cancelled
      /\ \A u \in Tickets : ticket'[u].due = ticket[u].due
      /\ \A u \in Tickets \ {t} : ticket'[u] = ticket[u]
  <2>1. ticket[t] \in TicketRow /\ [ticket[t] EXCEPT !.status = Cancelled] \in TicketRow
    BY <1>3, <1>4 DEF TicketRow
  <2> QED BY <1>1, <1>3, <1>4, <2>1 DEF TicketRow
<1>6. /\ payment' \in [Payments -> PaymentRow]
      /\ \A p \in Payments : /\ payment'[p].ticket = payment[p].ticket
                             /\ payment'[p].amount = payment[p].amount
                             /\ payment'[p].status = Active => payment[p].status = Active
                             /\ payment'[p].status = Absent <=> payment[p].status = Absent
  <2>1. ASSUME NEW p \in Payments
        PROVE  /\ payment'[p] \in PaymentRow
               /\ payment'[p].ticket = payment[p].ticket
               /\ payment'[p].amount = payment[p].amount
               /\ payment'[p].status = Active => payment[p].status = Active
               /\ payment'[p].status = Absent <=> payment[p].status = Absent
    <3>1. payment[p] \in PaymentRow BY <1>4
    <3>2. CASE p \in R
      <4>1. payment[p].status # Absent BY <1>3, <3>2 DEF Existing
      <4>2. payment'[p] = [payment[p] EXCEPT !.status = Cancelled] BY <1>1, <3>2
      <4> QED BY <3>1, <4>1, <4>2 DEF PaymentRow
    <3>3. CASE p \notin R
      <4>1. payment'[p] = payment[p] BY <1>1, <3>3
      <4> QED BY <3>1, <4>1
    <3> QED BY <3>2, <3>3
  <2>2. payment' = [p \in Payments |-> payment'[p]] BY <1>1
  <2> QED BY <2>1, <2>2
<1>7. Existing(payment') = Existing(payment) /\ Existing(ticket') = Existing(ticket)
  BY <1>3, <1>4, <1>5, <1>6 DEF Existing
<1>8. cache' \in [Tables -> {Free, Occupied, InPayment}] BY <1>1, <1>4 DEF Released
<1>9. TypeOK' BY <1>1, <1>5, <1>6, <1>8 DEF PosIInv, TypeOK
<1>10. /\ Counted'
       /\ \A q \in Sequences : nextFolio'[q] \in Nat /\ nextFolio[q] <= nextFolio'[q]
  <2>1. \A q \in Sequences : SameRows(q)
    BY <1>1, <1>7, RowsAre DEF SameRows, Sequences
  <2> QED BY <1>1, <2>1, UnnumberedKeepsCounted
<1>11. Grows
  <2>1. \A u \in Tickets : ticket[u].status \notin {Absent, Open} => ticket'[u].status \notin {Absent, Open}
    BY <1>5
  <2>2. \A u \in Tickets : ticket[u].status # Absent => ticket'[u].status # Absent BY <1>5
  <2> QED BY <1>1, <1>5, <1>7, <1>10, <2>1, <2>2 DEF Grows
<1>12. CallsOK' /\ DOMAIN call' = Requests BY <1>1, <1>11, WritingKeepsCalls
<1>13. account' \in [Tickets -> AccountRow]
  <2>1. account[t] \in AccountRow BY <1>3, <1>4
  <2> DEFINE line == [l \in Lines |-> IF l \in D THEN Dropped ELSE account[t].line[l]]
  <2>2. line \in [Lines -> {NoLine, Captured, Sent, Dropped}]
    <3>1. account[t].line \in [Lines -> {NoLine, Captured, Sent, Dropped}] BY <2>1 DEF AccountRow
    <3>2. \A l \in Lines : account[t].line[l] \in {NoLine, Captured, Sent, Dropped} BY <3>1
    <3> QED BY <3>2
  <2>3. account' = [account EXCEPT ![t].line = line] BY <1>1, <1>3, <1>4
  <2> HIDE DEF line
  <2>4. [account[t] EXCEPT !.line = line] \in AccountRow BY <2>1, <2>2 DEF AccountRow
  <2> QED BY <1>3, <1>4, <2>3, <2>4
<1>14. RequestTypeOK' BY <1>1, <1>12, <1>13 DEF PosIInv, RequestTypeOK, Unnumbered
<1>15. PaymentsInOrder'
  <2> SUFFICES ASSUME NEW x \in Existing(payment')
               PROVE  /\ payment'[x].ticket \in Tickets
                      /\ ticket'[payment'[x].ticket].status \notin {Absent, Open}
                      /\ \A q \in Payments : q < x => q \in Existing(payment')
    BY DEF PaymentsInOrder
  <2>1. x \in Existing(payment) /\ x \in Payments BY <1>4, <1>7 DEF Existing
  <2>2. payment'[x].ticket = payment[x].ticket BY <1>6, <2>1
  <2> QED BY <1>5, <1>7, <2>1, <2>2 DEF PosIInv, PaymentsInOrder
<1>16. NotOverpaid'
  <2> SUFFICES ASSUME NEW u \in Tickets, u \notin revised, ActivePaymentsOf(payment', u) # {}
               PROVE  /\ u \notin slips => PaidTo(payment', u) < ticket[u].due
                      /\ Earlier(payment', u) # {} =>
                            Amount(payment', Earlier(payment', u)) < ticket[u].due
    BY <1>1, <1>5 DEF NotOverpaid
  <2> DEFINE S == ActivePaymentsOf(payment, u)
             T == ActivePaymentsOf(payment', u)
  <2>1. T \subseteq S BY <1>6 DEF ActivePaymentsOf
  <2>2. /\ S \subseteq Payments /\ IsFiniteSet(S)
        /\ Earlier(payment, u) \subseteq S /\ IsFiniteSet(Earlier(payment, u))
    BY ActiveAreFinite DEF Earlier
  <2>3. T \subseteq Payments /\ IsFiniteSet(T) BY <2>1, <2>2, FS_Subset
  <2>4. Earlier(payment', u) \subseteq Earlier(payment, u)
    <3>1. Max(S) \in S /\ (\A x \in S : Max(S) >= x) BY <2>1, <2>2, GreatestPayment
    <3>2. Max(T) \in T /\ (\A x \in T : Max(T) >= x) BY <2>3, GreatestPayment
    <3>3. Max(S) \in T => Max(S) = Max(T)
      <4> SUFFICES ASSUME Max(S) \in T PROVE Max(S) = Max(T)
        OBVIOUS
      <4>1. Max(S) >= Max(T) /\ Max(T) >= Max(S) BY <2>1, <3>1, <3>2
      <4>2. Max(S) \in Nat /\ Max(T) \in Nat BY <2>2, <2>3, <3>1, <3>2, Ids
      <4> QED BY <4>1, <4>2
    <3>4. Earlier(payment', u) = T \ {Max(T)} /\ Earlier(payment, u) = S \ {Max(S)} BY DEF Earlier
    <3> HIDE DEF S, T
    <3> QED BY <2>1, <3>3, <3>4
  <2>5. \A p \in S : payment'[p].amount = payment[p].amount BY <1>6, <2>2
  <2>6. PaidTo(payment', u) = Amount(payment', T) /\ PaidTo(payment, u) = Amount(payment, S)
    BY PaidIsAmount
  <2> DEFINE g == payment'
  <2>7. g \in [Payments -> PaymentRow] /\ \A p \in S : g[p].amount = payment[p].amount BY <1>6, <2>5
  <2>8. ticket[u].due \in Nat
    <3>1. ticket[u] \in TicketRow BY <1>4
    <3> QED BY <3>1, CashFloorAssumption DEF TicketRow
  <2>9. S # {} BY <2>1
  <2>10. u \notin slips => Amount(payment, S) < ticket[u].due
    BY <2>6, <2>9 DEF PosIInv, NotOverpaid
  <2>11. Earlier(payment, u) # {} => Amount(payment, Earlier(payment, u)) < ticket[u].due
    BY <2>9 DEF PosIInv, NotOverpaid
  <2> DEFINE E == Earlier(payment, u)
             F == Earlier(payment', u)
  <2>12. E \subseteq S /\ IsFiniteSet(E) /\ F \subseteq E BY <2>2, <2>4
  <2>13. Amount(payment', T) = Amount(g, T) /\ Amount(payment', F) = Amount(g, F) OBVIOUS
  <2> HIDE DEF S, T, E, F, g
  <2>14. Amount(g, T) <= Amount(payment, S) BY <1>4, <2>1, <2>2, <2>7, AmountOfFewer, Zenon
  <2>15. Amount(g, F) <= Amount(payment, E)
    <3>1. E \subseteq Payments /\ F \in SUBSET E /\ \A q \in F : g[q].amount = payment[q].amount
      BY <2>2, <2>7, <2>12
    <3> QED BY <1>4, <2>7, <2>12, <3>1, AmountOfFewer, Zenon
  <2>16. /\ Amount(g, T) \in Nat /\ Amount(payment, S) \in Nat
         /\ Amount(g, F) \in Nat /\ Amount(payment, E) \in Nat
    <3>1. E \subseteq Payments /\ F \subseteq Payments /\ IsFiniteSet(F) BY <2>2, <2>12, FS_Subset
    <3> QED BY <1>4, <2>2, <2>3, <2>7, <2>12, <3>1, AmountType
  <2>17. u \notin slips => PaidTo(payment', u) < ticket[u].due
    BY <2>6, <2>8, <2>10, <2>13, <2>14, <2>16
  <2>18. F # {} => Amount(payment', F) < ticket[u].due
    <3>1. F # {} => E # {} BY <2>12
    <3> QED BY <2>8, <2>11, <2>13, <2>15, <2>16, <3>1 DEF E
  <2> QED BY <2>17, <2>18 DEF F
<1> QED BY <1>9, <1>10, <1>12, <1>14, <1>15, <1>16 DEF PosIInv

-----------------------------------------------------------------------------
(* The invariant, and what it says of folios and of payments.              *)

LEMMA InitPosIInv ==
  ASSUME PosInit
  PROVE  PosIInv
<1> USE DEF PosInit, Init
<1>1. TypeOK BY InitTypeOK
<1>2. RequestTypeOK
  <2>1. NewAccount \in AccountRow BY DEF NewAccount, AccountRow
  <2> QED BY <2>1 DEF RequestTypeOK
<1>3. CallsOK BY DEF CallsOK
<1>4. Existing(shift) = {} /\ Existing(expense) = {} /\ Existing(ticket) = {} /\ Existing(payment) = {}
  BY DEF Existing
<1>5. Counted
  <2>1. \A q \in Sequences : RowsOf[q] = {} BY <1>4, RowsAre DEF Sequences
  <2>2. IsFiniteSet({}) /\ Cardinality({}) = 0 BY FS_EmptySet
  <2>3. 1..(1 - 1) = {} OBVIOUS
  <2>4. \A q \in Sequences : folios[q] = {} /\ nextFolio[q] = 1 OBVIOUS
  <2>5. ASSUME NEW q \in Sequences
        PROVE  /\ folios[q] = 1..(nextFolio[q] - 1) /\ IsFiniteSet(RowsOf[q])
               /\ Cardinality(RowsOf[q]) = nextFolio[q] - 1
    <3>1. nextFolio[q] - 1 = 0 BY <2>4
    <3>2. folios[q] = 1..(nextFolio[q] - 1) BY <2>3, <2>4
    <3>3. RowsOf[q] = {} BY <2>1
    <3> QED BY <2>2, <3>1, <3>2, <3>3
  <2> QED BY <2>5 DEF Counted
<1>6. PaymentsInOrder BY <1>4 DEF PaymentsInOrder
<1>7. NotOverpaid BY DEF NotOverpaid, ActivePaymentsOf
<1> QED BY <1>1, <1>2, <1>3, <1>5, <1>6, <1>7 DEF PosIInv

LEMMA WriteKeepsPosIInv ==
  ASSUME NEW c \in Requests, PosIInv, Write(c)
  PROVE  PosIInv'
BY WriteOpenShiftKeepsPosIInv, WriteCloseShiftKeepsPosIInv, WriteExpenseKeepsPosIInv,
   WriteOpenTicketKeepsPosIInv, WriteAddLineKeepsPosIInv, WriteCancelLineKeepsPosIInv,
   WriteSendRoundKeepsPosIInv, WriteCourtesyKeepsPosIInv, WriteStartPaymentKeepsPosIInv,
   WritePaymentKeepsPosIInv, WriteCancelTicketKeepsPosIInv
   DEF Write

LEMMA NextPosIInv ==
  ASSUME PosIInv, [PosNext]_allVars
  PROVE  PosIInv'
<1>1. ASSUME NEW c \in Requests, Start(c) PROVE PosIInv' BY <1>1, StartKeepsPosIInv
<1>2. ASSUME NEW c \in Requests, ReadDetail(c) PROVE PosIInv' BY <1>2, ReadDetailKeepsPosIInv
<1>3. ASSUME NEW c \in Requests, Write(c) PROVE PosIInv' BY <1>3, WriteKeepsPosIInv
<1>4. ASSUME NEW c \in Requests, Refused(c) PROVE PosIInv' BY <1>4, RefusedKeepsPosIInv
<1>5. CASE UNCHANGED allVars
  <2> USE <1>5 DEF allVars, requestVars, vars
  <2>1. TypeOK' BY DEF PosIInv, TypeOK
  <2>2. RequestTypeOK' BY DEF PosIInv, RequestTypeOK
  <2>3. CallsOK' BY DEF PosIInv, CallsOK, Began, ReadBefore, Existing, OnAccount
  <2>4. Counted' BY DEF PosIInv, Counted, RowsOf, Existing
  <2>5. PaymentsInOrder' BY DEF PosIInv, PaymentsInOrder, Existing
  <2>6. NotOverpaid' BY DEF PosIInv, NotOverpaid, Earlier, ActivePaymentsOf, PaidTo, Amount
  <2> QED BY <2>1, <2>2, <2>3, <2>4, <2>5, <2>6 DEF PosIInv
<1> QED BY <1>1, <1>2, <1>3, <1>4, <1>5 DEF PosNext

\* The tables, the sequences and what the requests hold agree in every
\* interleaving of requests.
THEOREM PosInvariant == PosSpec => []PosIInv
<1>1. PosInit => PosIInv BY InitPosIInv
<1>2. PosIInv /\ [PosNext]_allVars => PosIInv' BY NextPosIInv
<1> QED BY <1>1, <1>2, PTL DEF PosSpec

\* The rows stay well formed when requests write from what they read before.
THEOREM PosTypeCorrect == PosSpec => []TypeOK
<1>1. PosIInv => TypeOK BY DEF PosIInv
<1> QED BY <1>1, PosInvariant, PTL

\* Folios are consecutive and unique in every interleaving: the number that a
\* request holds is never greater than the next one, the unique column refuses
\* a smaller one, and every number given comes with its row.
THEOREM FoliosConsecutive == PosSpec => []FoliosAreConsecutive
<1>1. PosIInv => FoliosAreConsecutive BY DEF PosIInv, Counted, FoliosAreConsecutive
<1> QED BY <1>1, PosInvariant, PTL

LEMMA NotOverpaidMeans ==
  ASSUME PosIInv
  PROVE  PaidOnce
<1> SUFFICES ASSUME NEW t \in Tickets \ revised,
                    Cardinality(ActivePaymentsOf(payment, t)) > 1
             PROVE  Amount(payment, Earlier(payment, t)) < ticket[t].due
  BY DEF PaidOnce, Amount, Earlier
<1> DEFINE S == ActivePaymentsOf(payment, t)
<1>1. IsFiniteSet(S) BY ActiveAreFinite
<1> HIDE DEF S
<1>2. Cardinality({}) = 0 /\ IsFiniteSet({}) BY FS_EmptySet
<1>3. S # {} BY <1>2 DEF S
<1>4. \A m : Cardinality({m}) = 1 BY FS_Singleton
<1>5. Earlier(payment, t) # {}
  <2> SUFFICES ASSUME Earlier(payment, t) = {} PROVE FALSE
    OBVIOUS
  <2>1. S \ {Max(S)} = {} BY DEF Earlier, S
  <2>2. S = {Max(S)} BY <1>3, <2>1
  <2>3. Cardinality(S) = 1 BY <1>4, <2>2
  <2> QED BY <2>3 DEF S
<1> QED BY <1>3, <1>5 DEF PosIInv, NotOverpaid, S

\* No interleaving of payments takes more than the total: a payment beyond the
\* one that covers the account would print its slip a second time.
THEOREM PaysOnce == PosSpec => []PaidOnce
<1>1. PosIInv => PaidOnce BY NotOverpaidMeans
<1> QED BY <1>1, PosInvariant, PTL

-----------------------------------------------------------------------------
(* A request that nobody overtook does what one call of CashFloor does.    *)

WasSound == \A t \in Tickets : ticket'[t] # ticket[t] => Sound(ticket[t], account[t])

StaysSound ==
    \A t \in Tickets : Sound(ticket[t], account[t]) /\ ticket'[t].status \in ActiveStatus =>
        Sound(ticket'[t], account'[t])

\* Only an account that can be charged is written; an absent one is opened.
TouchesLive ==
    \A t \in Tickets : ticket[t].status \notin ActiveStatus =>
        /\ account'[t] = account[t]
        /\ ticket[t].status = Absent \/ ticket'[t] = ticket[t]

ActsAsCall == (WasSound => Next \/ UNCHANGED vars) /\ StaysSound /\ TouchesLive

\* What a fresh request holds is what the tables say.
LEMMA FreshHolds ==
  ASSUME NEW c \in Requests, NEW op, PosIInv, Fresh(c), Writing(c, op)
  PROVE  /\ Began(call[c]) /\ ReadBefore(call[c]) /\ call[c].op = op
         /\ call[c].seen = View(op, call[c].on) /\ call[c].detail = Detail(op, call[c].on)
BY DEF Fresh, Writing, PosIInv, CallsOK

\* Accounts that a step does not touch stay as sound as they were.
LEMMA OthersUntouched ==
  ASSUME NEW t \in Tickets,
         \A u \in Tickets \ {t} : ticket'[u] = ticket[u] /\ account'[u] = account[u],
         \/ ticket[t].status \in ActiveStatus
         \/ ticket[t].status = Absent /\ account'[t] = account[t],
         Sound(ticket[t], account[t]) /\ ticket'[t].status \in ActiveStatus =>
             Sound(ticket'[t], account'[t])
  PROVE  StaysSound /\ TouchesLive
BY DEF StaysSound, TouchesLive

LEMMA FreshOpenShift ==
  ASSUME NEW c \in Requests, PosIInv, Fresh(c), WriteOpenShift(c)
  PROVE  ActsAsCall
<1> DEFINE i == NextId(shift)
<1>1. /\ Writing(c, NewShift) /\ RoomFor(shift)
      /\ shift' = [shift EXCEPT ![i] = [@ EXCEPT !.status = Open, !.opening = 0]]
      /\ UNCHANGED <<expected, ticket, cache, payment, expense, account>>
  BY DEF WriteOpenShift
<1>2. DOMAIN shift = Shifts BY DEF PosIInv, TypeOK
<1>3. i \in Shifts /\ shift[i].status = Absent BY <1>1, <1>2, Ids, NextIdIsFree
<1>4. OpenShifts = {}
  <2>1. Began(call[c]) /\ call[c].op = NewShift /\ call[c].seen = View(NewShift, call[c].on)
    BY <1>1, FreshHolds
  <2> QED BY <2>1 DEF Began, View
<1> HIDE DEF i
<1>5. OpenShift(i, 0) BY <1>1, <1>3, <1>4 DEF OpenShift, OpenShifts
<1>6. Next BY <1>3, <1>5, CashFloorAssumption DEF Next, ShiftStep
<1>7. StaysSound /\ TouchesLive BY <1>1 DEF StaysSound, TouchesLive
<1> QED BY <1>6, <1>7 DEF ActsAsCall

LEMMA FreshCloseShift ==
  ASSUME NEW c \in Requests, PosIInv, Fresh(c), WriteCloseShift(c)
  PROVE  ActsAsCall
<1> DEFINE s == call[c].on
<1>1. /\ Writing(c, CountShift)
      /\ shift' = [shift EXCEPT ![s] = [@ EXCEPT !.status = Closed, !.declared = 0]]
      /\ expected' = [expected EXCEPT ![s] = call[c].detail]
      /\ UNCHANGED <<ticket, cache, payment, expense, account>>
  BY DEF WriteCloseShift
<1>2. /\ Began(call[c]) /\ call[c].op = CountShift
      /\ call[c].seen = View(CountShift, s) /\ call[c].detail = Detail(CountShift, s)
  BY <1>1, FreshHolds
<1>3. s \in Shifts /\ call[c].seen[1].status = Open /\ call[c].seen[2] = {} BY <1>2 DEF Began
<1>4. call[c].seen = <<shift[s], {t \in Tickets : BlocksClosing(t, s)}>> BY <1>2, ViewOf
<1>5. shift[s].status = Open /\ \A t \in Tickets : ~BlocksClosing(t, s) BY <1>3, <1>4
<1>6. call[c].detail = ExpectedCash(s) BY <1>2, DetailOf
<1> HIDE DEF s
<1>7. CloseShift(s, 0) BY <1>1, <1>5, <1>6 DEF CloseShift
<1>8. Next BY <1>3, <1>7, CashFloorAssumption DEF Next, ShiftStep
<1>9. StaysSound /\ TouchesLive BY <1>1 DEF StaysSound, TouchesLive
<1> QED BY <1>8, <1>9 DEF ActsAsCall

LEMMA FreshExpense ==
  ASSUME NEW c \in Requests, PosIInv, Fresh(c), WriteExpense(c)
  PROVE  ActsAsCall
<1> DEFINE i == NextId(expense)
           s == Min(call[c].seen)
<1>1. /\ Writing(c, Spend) /\ RoomFor(expense)
      /\ expense' = [expense EXCEPT ![i] = [status |-> Active, shift |-> s, amount |-> 1]]
      /\ UNCHANGED <<shift, expected, ticket, cache, payment, account>>
  BY DEF WriteExpense
<1>2. DOMAIN expense = Expenses BY DEF PosIInv, TypeOK
<1>3. i \in Expenses /\ expense[i].status = Absent BY <1>1, <1>2, Ids, NextIdIsFree
<1>4. s \in Shifts /\ IsCurrent(s)
  <2>1. Began(call[c]) /\ call[c].op = Spend /\ call[c].seen = View(Spend, call[c].on)
    BY <1>1, FreshHolds
  <2>2. call[c].seen \in (SUBSET Shifts) \ {{}} /\ call[c].seen = OpenShifts
    BY <2>1 DEF Began, View
  <2>3. s \in OpenShifts BY <2>2, LeastShift
  <2> QED BY <2>3 DEF OpenShifts
<1> HIDE DEF i, s
<1>5. RegisterExpense(i, s, 1) BY <1>1, <1>3, <1>4 DEF RegisterExpense
<1>6. Next BY <1>3, <1>4, <1>5, PosRequestsAssumption DEF Next, ShiftStep
<1>7. StaysSound /\ TouchesLive BY <1>1 DEF StaysSound, TouchesLive
<1> QED BY <1>6, <1>7 DEF ActsAsCall

LEMMA FreshOpenTicket ==
  ASSUME NEW c \in Requests, PosIInv, AbsentIsBlank, Fresh(c), WriteOpenTicket(c)
  PROVE  ActsAsCall
<1> DEFINE i == NextId(ticket)
           s == Min(call[c].seen[1])
           b == call[c].on
           row == [status |-> Open, table |-> b, shift |-> s, due |-> 0]
<1>1. /\ Writing(c, SeatTable) /\ RoomFor(ticket)
      /\ ticket' = [ticket EXCEPT ![i] = row]
      /\ cache' = [cache EXCEPT ![b] = Occupied]
      /\ UNCHANGED <<shift, expected, payment, expense, account>>
  BY DEF WriteOpenTicket
<1>2. DOMAIN ticket = Tickets BY DEF PosIInv, TypeOK
<1>3. i \in Tickets /\ ticket[i].status = Absent BY <1>1, <1>2, Ids, NextIdIsFree
<1>4. s \in Shifts /\ IsCurrent(s) /\ b \in Tables /\ ~Taken(b)
  <2>1. Began(call[c]) /\ call[c].op = SeatTable /\ call[c].seen = View(SeatTable, b)
    BY <1>1, FreshHolds
  <2>2. /\ call[c].seen[1] \in (SUBSET Shifts) \ {{}} /\ b \in Tables
        /\ call[c].seen[2] = FALSE
    BY <2>1 DEF Began
  <2>3. call[c].seen = <<OpenShifts, Taken(b)>> BY <2>1, ViewOf
  <2>4. s \in OpenShifts BY <2>2, <2>3, LeastShift
  <2>5. ~Taken(b) BY <2>2, <2>3
  <2> QED BY <2>2, <2>4, <2>5 DEF OpenShifts
<1> HIDE DEF i, s, b
<1>5. OpenTicket(i, b, s) BY <1>1, <1>3, <1>4 DEF OpenTicket
<1>6. Next BY <1>3, <1>4, <1>5 DEF Next, TicketStep
<1>7. ticket'[i].due = 0 /\ ticket'[i].status = Open BY <1>1, <1>2, <1>3
<1>8. ticket[i].due = 0 BY <1>3 DEF AbsentIsBlank
<1>9. \A u \in Tickets \ {i} : ticket'[u] = ticket[u] /\ account'[u] = account[u] BY <1>1, <1>2
<1>10. Sound(ticket[i], account[i]) => Sound(ticket'[i], account'[i])
  BY <1>1, <1>7, <1>8 DEF Sound
<1>11. StaysSound /\ TouchesLive BY <1>1, <1>3, <1>9, <1>10, OthersUntouched
<1> QED BY <1>6, <1>11 DEF ActsAsCall

StoresTotal(t, row) ==
    /\ ticket' = [ticket EXCEPT ![t].due = Total(row)] /\ Total(row) \in Amounts
    /\ account'[t] = row
    /\ ticket'[t].due = Total(row) /\ ticket'[t].status = ticket[t].status
    /\ ticket[t].due = Total(row) => UNCHANGED vars
    /\ UNCHANGED <<shift, expected, cache, payment, expense>>
    /\ \A u \in Tickets \ {t} : ticket'[u] = ticket[u] /\ account'[u] = account[u]

\* The sum that a fresh request stores is the total that the rows give.
LEMMA FreshTotal ==
  ASSUME NEW c \in Requests, PosIInv, NEW t \in Tickets, NEW kept \in BOOLEAN,
         WriteTotal(c, t, kept), call[c].seen.row = ticket[t],
         NEW row \in AccountRow, account' = [account EXCEPT ![t] = row]
  PROVE  StoresTotal(t, row)
<1>1. account'[t] = row /\ DOMAIN account = Tickets BY DEF PosIInv, RequestTypeOK
<1>2. ticket' = [ticket EXCEPT ![t].due = Total(row)] BY <1>1 DEF WriteTotal
<1>3. ticket \in [Tickets -> TicketRow] BY DEF PosIInv, TypeOK
<1>4. Total(row) \in Amounts BY TotalIsAmount
<1>5. UNCHANGED <<shift, expected, cache, payment, expense>> BY DEF WriteTotal
<1>6. ticket'[t].due = Total(row) /\ ticket'[t].status = ticket[t].status
  <2>1. ticket[t] \in TicketRow BY <1>3
  <2>2. ticket'[t] = [ticket[t] EXCEPT !.due = Total(row)] BY <1>2, <1>3
  <2> HIDE DEF Total
  <2> QED BY <2>1, <2>2 DEF TicketRow
<1>7. \A u \in Tickets \ {t} : ticket'[u] = ticket[u] /\ account'[u] = account[u]
  BY <1>1, <1>2, <1>3
<1>8. ticket[t].due = Total(row) => UNCHANGED vars
  <2> SUFFICES ASSUME ticket[t].due = Total(row) PROVE ticket' = ticket
    BY <1>5 DEF vars
  <2>1. ticket[t] \in TicketRow BY <1>3
  <2>2. [ticket[t] EXCEPT !.due = ticket[t].due] = ticket[t] BY <2>1 DEF TicketRow
  <2> QED BY <1>2, <1>3, <2>2
<1> QED BY <1>1, <1>2, <1>4, <1>5, <1>6, <1>7, <1>8 DEF StoresTotal

LEMMA FreshEdit ==
  ASSUME NEW c \in Requests, PosIInv, NEW t \in Tickets, NEW kept \in BOOLEAN,
         WriteTotal(c, t, kept), call[c].seen.row = ticket[t], ticket[t].status = Open,
         NEW row \in AccountRow, account' = [account EXCEPT ![t] = row]
  PROVE  ActsAsCall
<1>1. StoresTotal(t, row) BY FreshTotal
<1> USE <1>1 DEF StoresTotal
<1>2. EditTicket(t, Total(row)) BY DEF EditTicket
<1>3. Next BY <1>2 DEF Next, TicketStep
<1>4. Sound(ticket'[t], account'[t]) BY DEF Sound
<1>5. StaysSound /\ TouchesLive BY <1>4, OthersUntouched
<1> QED BY <1>3, <1>5 DEF ActsAsCall

LEMMA FreshAddLine ==
  ASSUME NEW c \in Requests, PosIInv, Fresh(c), WriteAddLine(c)
  PROVE  ActsAsCall
<1> DEFINE t == call[c].on
<1>1. /\ Writing(c, AddLine) /\ WriteTotal(c, t, TRUE)
      /\ \E l \in LinesIn(t, {NoLine}) : account' = [account EXCEPT ![t].line[l] = Captured]
  BY DEF WriteAddLine
<1>2. Began(call[c]) /\ call[c].op = AddLine /\ call[c].seen = View(AddLine, t)
  BY <1>1, FreshHolds
<1>3. call[c].seen.row = ticket[t] BY <1>2, ViewOf
<1>4. t \in Tickets /\ ticket[t].status = Open BY <1>2, <1>3 DEF Began, OnAccount
<1>5. PICK l \in Lines : account' = [account EXCEPT ![t].line[l] = Captured]
  BY <1>1 DEF LinesIn, Having
<1> HIDE DEF t
<1> DEFINE row == [account[t] EXCEPT !.line[l] = Captured]
<1>6. row \in AccountRow /\ account' = [account EXCEPT ![t] = row]
  BY <1>4, <1>5 DEF PosIInv, RequestTypeOK, AccountRow
<1> QED BY <1>1, <1>3, <1>4, <1>6, FreshEdit

LEMMA FreshCourtesy ==
  ASSUME NEW c \in Requests, PosIInv, Fresh(c), WriteCourtesy(c)
  PROVE  ActsAsCall
<1> DEFINE t == call[c].on
           n == Cardinality(call[c].detail[1])
           row == [account[t] EXCEPT !.courtesy = @ + n]
<1>1. /\ Writing(c, Forgive) /\ WriteTotal(c, t, n = call[c].seen.row.due)
      /\ account' = [account EXCEPT ![t].courtesy = @ + n]
  BY DEF WriteCourtesy
<1>2. /\ Began(call[c]) /\ ReadBefore(call[c]) /\ call[c].op = Forgive
      /\ call[c].seen = View(Forgive, t)
  BY <1>1, FreshHolds
<1>3. call[c].seen.row = ticket[t] BY <1>2, ViewOf
<1>4. t \in Tickets /\ ticket[t].status = Open BY <1>2, <1>3 DEF Began, OnAccount
<1>5. n \in Nat
  <2>1. call[c].read BY DEF Fresh
  <2> QED BY <1>2, <2>1, CountOfLines DEF ReadBefore
<1> HIDE DEF t, n
<1>6. row \in AccountRow
  <2>1. account[t] \in AccountRow BY <1>4 DEF PosIInv, RequestTypeOK
  <2>2. account[t].courtesy \in Nat BY <2>1 DEF AccountRow
  <2>3. account[t].courtesy + n \in Nat BY <1>5, <2>2
  <2> QED BY <2>1, <2>3 DEF AccountRow
<1>7. account' = [account EXCEPT ![t] = row] BY <1>1
<1>8. (n = call[c].seen.row.due) \in BOOLEAN OBVIOUS
<1> HIDE DEF row
<1> QED BY <1>1, <1>3, <1>4, <1>6, <1>7, <1>8, FreshEdit

LEMMA MaxGrows == \A x, y, z \in Nat : x <= y => Max({x - z, 0}) <= Max({y - z, 0})
<1> TAKE x, y, z \in Nat
<1>1. x - z \in Int /\ y - z \in Int OBVIOUS
<1>2. /\ Max({x - z, 0}) = IF x - z >= 0 THEN x - z ELSE 0
      /\ Max({y - z, 0}) = IF y - z >= 0 THEN y - z ELSE 0
  BY <1>1, MaxWithZero
<1> QED BY <1>2

\* Dropping a line never raises the total that the rows give.
LEMMA DroppingLowersTotal ==
  ASSUME NEW row \in AccountRow, NEW later \in AccountRow, later.courtesy = row.courtesy,
         Having(later, {Captured, Sent}) \subseteq Having(row, {Captured, Sent})
  PROVE  Total(later) <= Total(row)
<1> DEFINE m == Cardinality(Having(later, {Captured, Sent}))
           n == Cardinality(Having(row, {Captured, Sent}))
           k == row.courtesy
<1>1. Having(row, {Captured, Sent}) \subseteq Lines /\ Having(later, {Captured, Sent}) \subseteq Lines
  BY DEF Having
<1>2. m \in Nat /\ n \in Nat /\ IsFiniteSet(Having(row, {Captured, Sent})) BY <1>1, CountOfLines
<1>3. m <= n BY <1>2, FS_Subset
<1>4. k \in Nat BY DEF AccountRow
<1>5. Total(later) = Max({m - k, 0}) /\ Total(row) = Max({n - k, 0}) BY DEF Total
<1> HIDE DEF m, n, k
<1> QED BY <1>2, <1>3, <1>4, <1>5, MaxGrows

LEMMA FreshCancelLine ==
  ASSUME NEW c \in Requests, PosIInv, Fresh(c), WriteCancelLine(c)
  PROVE  ActsAsCall
<1> DEFINE t == call[c].on[1]
           l == call[c].on[2]
           row == [account[t] EXCEPT !.line[l] = Dropped]
<1>1. /\ Writing(c, DropLine) /\ WriteTotal(c, t, TRUE)
      /\ account' = [account EXCEPT ![t].line[l] = Dropped]
  BY DEF WriteCancelLine
<1>2. Began(call[c]) /\ call[c].op = DropLine /\ call[c].seen = View(DropLine, call[c].on)
  BY <1>1, FreshHolds
<1>3. /\ call[c].on = <<t, l>> /\ t \in Tickets /\ l \in Lines
      /\ call[c].seen.row.status \in ActiveStatus
  <2>1. call[c].on \in Tickets \X Lines /\ call[c].seen.row.status \in ActiveStatus
    BY <1>2 DEF Began
  <2>2. \A z \in Tickets \X Lines : z = <<z[1], z[2]>> /\ z[1] \in Tickets /\ z[2] \in Lines
    OBVIOUS
  <2> QED BY <2>1, <2>2
<1>4. call[c].seen.row = ticket[t]
  <2>1. call[c].seen = [row |-> ticket[t], line |-> account[t].line[l]]
    BY <1>2, <1>3, ViewOf, Zenon
  <2> QED BY <2>1
<1>5. ticket[t].status \in ActiveStatus BY <1>3, <1>4
<1> HIDE DEF t, l
<1>6. account[t] \in AccountRow BY <1>3 DEF PosIInv, RequestTypeOK
<1>7. row \in AccountRow /\ account' = [account EXCEPT ![t] = row]
  BY <1>1, <1>3, <1>6 DEF PosIInv, RequestTypeOK, AccountRow
<1>8. /\ row.courtesy = account[t].courtesy
      /\ Having(row, {Captured, Sent}) \subseteq Having(account[t], {Captured, Sent})
      /\ Having(row, {Captured}) \subseteq Having(account[t], {Captured})
  BY <1>3, <1>6 DEF Having, AccountRow
<1> HIDE DEF row
<1>9. Total(row) <= Total(account[t]) BY <1>6, <1>7, <1>8, DroppingLowersTotal
<1>10. StoresTotal(t, row) BY <1>1, <1>3, <1>4, <1>7, FreshTotal
<1>11. WasSound => Next \/ UNCHANGED vars
  <2> SUFFICES ASSUME WasSound, ticket[t].due # Total(row) PROVE Next
    BY <1>10 DEF StoresTotal
  <2>1. ticket'[t] # ticket[t] BY <1>10 DEF StoresTotal
  <2>2. ticket[t].due = Total(account[t]) BY <1>3, <2>1 DEF WasSound, Sound
  <2>3. EditTicket(t, Total(row)) \/ ReduceTicket(t, Total(row))
    BY <1>5, <1>9, <1>10, <2>2 DEF StoresTotal, EditTicket, ReduceTicket
  <2> QED BY <1>3, <1>10, <2>3 DEF StoresTotal, Next, TicketStep
<1>12. Sound(ticket[t], account[t]) => Sound(ticket'[t], account'[t])
  BY <1>8, <1>10 DEF Sound, StoresTotal
<1>13. StaysSound /\ TouchesLive BY <1>3, <1>5, <1>10, <1>12, OthersUntouched DEF StoresTotal
<1> QED BY <1>11, <1>13 DEF ActsAsCall

LEMMA FreshSendRound ==
  ASSUME NEW c \in Requests, PosIInv, Fresh(c), WriteSendRound(c)
  PROVE  ActsAsCall
<1> DEFINE t == call[c].on
           S == call[c].seen.captured
           line == [l \in Lines |-> IF l \in S THEN Sent ELSE account[t].line[l]]
<1>1. /\ Writing(c, SendRound) /\ UNCHANGED vars
      /\ account' = [account EXCEPT ![t].rounds = @ + 1,
                       ![t].line = [l \in Lines |-> IF l \in S THEN Sent ELSE @[l]]]
  BY DEF WriteSendRound
<1>2. Began(call[c]) /\ call[c].op = SendRound /\ call[c].seen = View(SendRound, t)
  BY <1>1, FreshHolds
<1>3. t \in Tickets /\ ticket[t].status \in ActiveStatus
  <2>1. call[c].seen.row = ticket[t] BY <1>2, ViewOf
  <2> QED BY <1>2, <2>1 DEF Began, OnAccount
<1>4. S = LinesIn(t, {Captured})
  <2>1. call[c].seen = [row |-> ticket[t], captured |-> LinesIn(t, {Captured})] BY <1>2, ViewOf
  <2> QED BY <2>1
<1> HIDE DEF t, S
<1>5. account[t] \in AccountRow BY <1>3 DEF PosIInv, RequestTypeOK
<1>6. account' = [account EXCEPT ![t].rounds = @ + 1, ![t].line = line]
  BY <1>1, <1>3, <1>5 DEF PosIInv, RequestTypeOK, AccountRow
<1> HIDE DEF line
<1>7. account'[t] = [account[t] EXCEPT !.rounds = @ + 1, !.line = line]
  BY <1>3, <1>6 DEF PosIInv, RequestTypeOK
<1>8. account'[t].line = line /\ account'[t].courtesy = account[t].courtesy
  BY <1>5, <1>7 DEF AccountRow
<1>9. \A u \in Tickets \ {t} : ticket'[u] = ticket[u] /\ account'[u] = account[u]
  BY <1>1 DEF vars, PosIInv, RequestTypeOK
<1>10. ASSUME NEW l \in Lines
       PROVE  /\ account'[t].line[l] \in {Captured, Sent} <=> account[t].line[l] \in {Captured, Sent}
              /\ account'[t].line[l] # Captured
  <2>1. l \in S <=> account[t].line[l] = Captured BY <1>4 DEF LinesIn, Having
  <2>2. account'[t].line[l] = IF l \in S THEN Sent ELSE account[t].line[l] BY <1>8 DEF line
  <2> QED BY <2>1, <2>2
<1>11. /\ Having(account'[t], {Captured, Sent}) = Having(account[t], {Captured, Sent})
       /\ Having(account'[t], {Captured}) = {}
  BY <1>10 DEF Having
<1>12. Total(account'[t]) = Total(account[t]) BY <1>8, <1>11 DEF Total
<1>13. Sound(ticket[t], account[t]) => Sound(ticket'[t], account'[t])
  BY <1>1, <1>11, <1>12 DEF Sound, vars
<1>14. StaysSound /\ TouchesLive BY <1>3, <1>9, <1>13, OthersUntouched
<1> QED BY <1>1, <1>14 DEF ActsAsCall

LEMMA FreshStartPayment ==
  ASSUME NEW c \in Requests, PosIInv, Fresh(c), WriteStartPayment(c)
  PROVE  ActsAsCall
<1> DEFINE t == call[c].on
           due == call[c].seen.row.due
<1>1. /\ Writing(c, StartBilling) /\ ReadyToBill(c)
      /\ IF due = 0
         THEN ticket' = [ticket EXCEPT ![t].status = Paid] /\ cache' = Released(t)
         ELSE /\ ticket' = [ticket EXCEPT ![t].status = InPayment]
              /\ cache' = [cache EXCEPT ![ticket[t].table] = InPayment]
      /\ UNCHANGED <<shift, expected, payment, expense, account>>
  BY DEF WriteStartPayment, Settle
<1>2. /\ Began(call[c]) /\ call[c].op = StartBilling
      /\ call[c].seen = View(StartBilling, t) /\ call[c].detail = Detail(StartBilling, t)
  BY <1>1, FreshHolds
<1>3. call[c].seen.row = ticket[t] BY <1>2, ViewOf
<1>4. t \in Tickets /\ ticket[t].status = Open /\ due = ticket[t].due
  BY <1>2, <1>3 DEF Began, OnAccount
<1>5. LinesIn(t, {Captured}) = {}
  <2>1. call[c].detail = <<Live(t), LinesIn(t, {Captured})>> BY <1>2, DetailOf
  <2>2. call[c].detail[2] = {} BY <1>1 DEF ReadyToBill
  <2> QED BY <2>1, <2>2
<1> HIDE DEF t, due
<1>6. ticket[t] \in TicketRow BY <1>4 DEF PosIInv, TypeOK
<1>7. ticket[t].due \in Nat BY <1>6, CashFloorAssumption DEF TicketRow
<1>8. CloseByCourtesy(t) \/ StartPayment(t)
  <2>1. CASE due = 0 BY <1>1, <1>4, <2>1 DEF CloseByCourtesy
  <2>2. CASE due # 0
    <3>1. ticket[t].due > 0 BY <1>4, <1>7, <2>2
    <3> QED BY <1>1, <1>4, <2>2, <3>1 DEF StartPayment
  <2> QED BY <2>1, <2>2
<1>9. Next BY <1>4, <1>8 DEF Next, TicketStep
<1>10. /\ ticket'[t].due = ticket[t].due
       /\ \A u \in Tickets \ {t} : ticket'[u] = ticket[u] /\ account'[u] = account[u]
  <2>1. PICK st \in {Paid, InPayment} : ticket' = [ticket EXCEPT ![t].status = st] BY <1>1
  <2>2. ticket'[t].due = ticket[t].due
    BY <1>4, <1>6, <2>1 DEF PosIInv, TypeOK, TicketRow
  <2> QED BY <1>1, <2>1, <2>2 DEF PosIInv, TypeOK
<1>11. Sound(ticket[t], account[t]) => Sound(ticket'[t], account'[t])
  BY <1>1, <1>5, <1>10 DEF Sound, LinesIn
<1>12. StaysSound /\ TouchesLive BY <1>4, <1>10, <1>11, OthersUntouched
<1> QED BY <1>9, <1>12 DEF ActsAsCall

LEMMA FreshPayment ==
  ASSUME NEW c \in Requests, PosIInv, Fresh(c), WritePayment(c)
  PROVE  ActsAsCall
<1> DEFINE t == call[c].on
           p == NextId(payment)
           due == call[c].seen.row.due
           row == [status |-> Active, ticket |-> t, shift |-> call[c].seen.row.shift,
                   amount |-> 1, cash |-> TRUE]
<1>1. /\ Writing(c, Pay) /\ RoomFor(payment)
      /\ payment' = [payment EXCEPT ![p] = row]
      /\ IF PaidTo(payment', t) < due
         THEN UNCHANGED <<ticket, cache>>
         ELSE ticket' = [ticket EXCEPT ![t].status = Paid] /\ cache' = Released(t)
      /\ UNCHANGED <<shift, expected, expense, account>>
  BY DEF WritePayment, PaidNow, Settle
<1>2. Began(call[c]) /\ call[c].op = Pay /\ call[c].seen = View(Pay, t) BY <1>1, FreshHolds
<1>3. call[c].seen.row = ticket[t] BY <1>2, ViewOf
<1>4. t \in Tickets /\ ticket[t].status = InPayment /\ due = ticket[t].due
  BY <1>2, <1>3 DEF Began, OnAccount
<1>5. payment \in [Payments -> PaymentRow] /\ ticket \in [Tickets -> TicketRow]
  BY DEF PosIInv, TypeOK
<1>6. p \in Payments /\ payment[p].status = Absent BY <1>1, <1>5, Ids, NextIdIsFree
<1>7. row = [status |-> Active, ticket |-> t, shift |-> ticket[t].shift, amount |-> 1, cash |-> TRUE]
  BY <1>3
<1>8. PaidTo(payment', t) \in Nat
  <2>1. /\ payment' \in [Payments -> PaymentRow]
        /\ ActivePaymentsOf(payment', t) \subseteq ActivePaymentsOf(payment, t) \cup {p}
    <3>1. ticket[t] \in TicketRow BY <1>4, <1>5
    <3>2. row \in PaymentRow
      BY <1>4, <1>7, <3>1, PosRequestsAssumption DEF TicketRow, PaymentRow
    <3> HIDE DEF row, t, p
    <3>3. \A q \in Payments \ {p} : payment'[q] = payment[q] BY <1>1, <1>5
    <3> QED BY <1>1, <1>5, <1>6, <3>2, <3>3 DEF ActivePaymentsOf
  <2>2. IsFiniteSet(ActivePaymentsOf(payment, t)) BY ActiveAreFinite
  <2>3. IsFiniteSet(ActivePaymentsOf(payment, t) \cup {p}) BY <2>2, FS_AddElement
  <2> DEFINE g == payment'
             T == ActivePaymentsOf(g, t)
  <2>4. /\ g \in [Payments -> PaymentRow] /\ T \subseteq Payments /\ IsFiniteSet(T)
        /\ PaidTo(payment', t) = Amount(g, T)
    BY <2>1, <2>3, FS_Subset, PaidIsAmount DEF ActivePaymentsOf
  <2> HIDE DEF g, T
  <2> QED BY <2>4, AmountType
<1> HIDE DEF t, p, due, row
<1>9. ticket[t] \in TicketRow BY <1>4, <1>5
<1>10. ticket[t].due \in Nat BY <1>9, CashFloorAssumption DEF TicketRow
<1>11. Covers(payment', t) <=> ~(PaidTo(payment', t) < due)
  <2> DEFINE x == PaidTo(payment', t)
             y == ticket[t].due
  <2>1. Covers(payment', t) <=> x >= y BY DEF Covers
  <2>2. x \in Nat /\ y \in Nat /\ due = y BY <1>4, <1>8, <1>10
  <2> HIDE DEF x, y
  <2>3. x >= y <=> ~(x < due) BY <2>2
  <2> QED BY <2>1, <2>3 DEF x
<1>12. CreatePayment(p, t, 1, TRUE)
  <2>1. (1 \in Nat) /\ 1 > 0 OBVIOUS
  <2> QED BY <1>1, <1>4, <1>6, <1>7, <1>11, <2>1 DEF CreatePayment
<1>13. Next BY <1>4, <1>6, <1>12, PosRequestsAssumption DEF Next, TicketStep
<1>14. \A u \in Tickets \ {t} : ticket'[u] = ticket[u] /\ account'[u] = account[u]
  BY <1>1, <1>5
<1>15. ticket'[t].status \in ActiveStatus /\ Sound(ticket[t], account[t]) =>
          Sound(ticket'[t], account'[t])
  <2>1. CASE UNCHANGED ticket BY <1>1, <2>1
  <2>2. CASE ticket' = [ticket EXCEPT ![t].status = Paid]
    <3>1. ticket'[t].status = Paid BY <1>4, <1>5, <1>9, <2>2 DEF TicketRow
    <3> QED BY <3>1
  <2> QED BY <1>1, <2>1, <2>2
<1>16. StaysSound /\ TouchesLive BY <1>4, <1>14, <1>15, OthersUntouched
<1> QED BY <1>13, <1>16 DEF ActsAsCall

LEMMA FreshCancelTicket ==
  ASSUME NEW c \in Requests, PosIInv, Fresh(c), WriteCancelTicket(c)
  PROVE  ActsAsCall
<1> DEFINE t == call[c].on
           D == call[c].detail[1]
           R == call[c].detail[2]
<1>1. /\ Writing(c, CallOff)
      /\ ticket' = [ticket EXCEPT ![t].status = Cancelled]
      /\ account' = [account EXCEPT ![t].line = [l \in Lines |-> IF l \in D THEN Dropped ELSE @[l]]]
      /\ payment' = [p \in Payments |-> IF p \in R
                        THEN [payment[p] EXCEPT !.status = Cancelled] ELSE payment[p]]
      /\ cache' = Released(t)
      /\ UNCHANGED <<shift, expected, expense>>
  BY DEF WriteCancelTicket
<1>2. /\ Began(call[c]) /\ call[c].op = CallOff
      /\ call[c].seen = View(CallOff, t) /\ call[c].detail = Detail(CallOff, t)
  BY <1>1, FreshHolds
<1>3. call[c].seen.row = ticket[t] BY <1>2, ViewOf
<1>4. t \in Tickets /\ ticket[t].status \in ActiveStatus BY <1>2, <1>3 DEF Began, OnAccount
<1>5. R = ActivePaymentsOf(payment, t)
  <2>1. call[c].detail = <<Live(t), ActivePaymentsOf(payment, t)>> BY <1>2, DetailOf
  <2> QED BY <2>1
<1> HIDE DEF t, D, R
<1>6. CancelTicket(t) BY <1>1, <1>4, <1>5 DEF CancelTicket, CancelledPayments
<1>7. Next BY <1>4, <1>6 DEF Next, TicketStep
<1>8. \A u \in Tickets \ {t} : ticket'[u] = ticket[u] /\ account'[u] = account[u]
  BY <1>1 DEF PosIInv, TypeOK, RequestTypeOK
<1>9. ticket'[t].status = Cancelled
  <2>1. ticket[t] \in TicketRow BY <1>4 DEF PosIInv, TypeOK
  <2> QED BY <1>1, <1>4, <2>1 DEF PosIInv, TypeOK, TicketRow
<1>10. StaysSound /\ TouchesLive BY <1>4, <1>8, <1>9, OthersUntouched
<1> QED BY <1>7, <1>10 DEF ActsAsCall

LEMMA FreshWrite ==
  ASSUME NEW c \in Requests, PosIInv, AbsentIsBlank, Fresh(c), Write(c)
  PROVE  ActsAsCall
BY FreshOpenShift, FreshCloseShift, FreshExpense, FreshOpenTicket, FreshAddLine,
   FreshCancelLine, FreshSendRound, FreshCourtesy, FreshStartPayment, FreshPayment,
   FreshCancelTicket
   DEF Write

\* Only the write of a request, or its refusal, ends it.
LEMMA FreshStep ==
  ASSUME NEW c \in Requests, PosIInv, AbsentIsBlank, [PosNext]_allVars, Fresh(c), call'[c] = Idle
  PROVE  ActsAsCall
<1>1. DOMAIN call = Requests /\ call[c] # Idle /\ call[c].read
  BY DEF PosIInv, RequestTypeOK, Fresh
<1>2. ASSUME NEW d \in Requests, NEW k, call' = [call EXCEPT ![d] = k] PROVE d = c
  BY <1>1, <1>2
<1>3. ~ UNCHANGED allVars BY <1>1 DEF allVars, requestVars
<1>4. ASSUME NEW d \in Requests, Start(d) PROVE FALSE
  <2>1. PICK op, x : Load(d, op, x)
    BY <1>4 DEF Start, LoadOpenShift, LoadCloseShift, LoadExpense, LoadOpenTicket, LoadTicket,
                LoadSendRound, LoadCancelLine
  <2>2. call[d] = Idle /\ d = c BY <1>2, <2>1 DEF Load
  <2> QED BY <1>1, <2>2
<1>5. ASSUME NEW d \in Requests, ReadDetail(d) PROVE FALSE
  <2>1. d = c BY <1>2, <1>5 DEF ReadDetail
  <2> QED BY <1>1, <1>5, <2>1 DEF ReadDetail
<1>6. ASSUME NEW d \in Requests, Refused(d) PROVE ActsAsCall
  BY <1>6 DEF Refused, ActsAsCall, StaysSound, TouchesLive, vars
<1>7. ASSUME NEW d \in Requests, Write(d) PROVE ActsAsCall
  <2>1. call' = [call EXCEPT ![d] = Idle]
    BY <1>7 DEF Write, Writing, WriteOpenShift, WriteCloseShift, WriteExpense, WriteOpenTicket,
                WriteAddLine, WriteCancelLine, WriteSendRound, WriteCourtesy,
                WriteStartPayment, WritePayment, WriteCancelTicket
  <2>2. d = c BY <1>2, <2>1
  <2> QED BY <1>7, <2>2, FreshWrite
<1> QED BY <1>3, <1>4, <1>5, <1>6, <1>7 DEF PosNext

LEMMA RequestsKeepBlank ==
  ASSUME PosIInv, PosIInv', AbsentIsBlank, [PosNext]_allVars
  PROVE  AbsentIsBlank'
<1>0. DOMAIN ticket = Tickets /\ DOMAIN ticket' = Tickets BY DEF PosIInv, TypeOK
<1>1. CASE UNCHANGED ticket BY <1>1 DEF AbsentIsBlank
<1>2. ASSUME NEW t \in Tickets, \A u \in Tickets \ {t} : ticket'[u] = ticket[u],
             ticket'[t].status # Absent
      PROVE  AbsentIsBlank'
  BY <1>2 DEF AbsentIsBlank
<1>3. ASSUME NEW t \in Tickets, NEW st \in {InPayment, Paid, Cancelled},
             ticket' = [ticket EXCEPT ![t].status = st]
      PROVE  AbsentIsBlank'
  <2>1. ticket'[t].status = st BY <1>0, <1>3 DEF PosIInv, TypeOK, TicketRow
  <2> QED BY <1>0, <1>2, <1>3, <2>1
<1>4. ASSUME NEW c \in Requests, NEW t \in Tickets, NEW kept, WriteTotal(c, t, kept),
             ticket[t].status # Absent
      PROVE  AbsentIsBlank'
  <2>1. PICK due : ticket' = [ticket EXCEPT ![t].due = due] BY <1>4 DEF WriteTotal
  <2>2. ticket'[t].status = ticket[t].status BY <1>0, <2>1 DEF PosIInv, TypeOK, TicketRow
  <2> QED BY <1>0, <1>2, <1>4, <2>1, <2>2
<1>5. ASSUME NEW c \in Requests, Write(c) PROVE AbsentIsBlank'
  <2> DEFINE t == call[c].on
  <2>1. CASE WriteOpenShift(c) \/ WriteCloseShift(c) \/ WriteExpense(c) \/ WriteSendRound(c)
    BY <1>1, <2>1 DEF WriteOpenShift, WriteCloseShift, WriteExpense, WriteSendRound, vars
  <2>2. CASE WriteOpenTicket(c)
    <3>1. NextId(ticket) \in Tickets BY <1>0, <2>2, Ids, NextIdIsFree DEF WriteOpenTicket
    <3> DEFINE row == [status |-> Open, table |-> call[c].on,
                       shift |-> Min(call[c].seen[1]), due |-> 0]
    <3>2. ticket' = [ticket EXCEPT ![NextId(ticket)] = row] BY <2>2 DEF WriteOpenTicket
    <3>3. row.status = Open OBVIOUS
    <3> HIDE DEF row
    <3> QED BY <1>0, <1>2, <3>1, <3>2, <3>3
  <2>3. CASE WriteAddLine(c)
    <3>1. Began(call[c]) /\ call[c].op = AddLine BY <2>3, WritingHolds DEF WriteAddLine
    <3>2. t \in Tickets /\ ticket[t].status # Absent BY <3>1 DEF Began, OnAccount
    <3> QED BY <1>4, <2>3, <3>2 DEF WriteAddLine
  <2>4. CASE WriteCourtesy(c)
    <3>1. Began(call[c]) /\ call[c].op = Forgive BY <2>4, WritingHolds DEF WriteCourtesy
    <3>2. t \in Tickets /\ ticket[t].status # Absent BY <3>1 DEF Began, OnAccount
    <3> QED BY <1>4, <2>4, <3>2 DEF WriteCourtesy
  <2>5. CASE WriteCancelLine(c)
    <3>1. Began(call[c]) /\ call[c].op = DropLine BY <2>5, WritingHolds DEF WriteCancelLine
    <3>2. call[c].on \in Tickets \X Lines /\ ticket[t[1]].status # Absent BY <3>1 DEF Began
    <3>3. t[1] \in Tickets BY <3>2
    <3> QED BY <1>4, <2>5, <3>2, <3>3 DEF WriteCancelLine
  <2>6. CASE WriteStartPayment(c)
    <3>1. Began(call[c]) /\ call[c].op = StartBilling BY <2>6, WritingHolds DEF WriteStartPayment
    <3>2. t \in Tickets BY <3>1 DEF Began, OnAccount
    <3>3. PICK st \in {Paid, InPayment} : ticket' = [ticket EXCEPT ![t].status = st]
      BY <2>6 DEF WriteStartPayment, Settle
    <3> QED BY <1>3, <3>2, <3>3
  <2>7. CASE WritePayment(c)
    <3>1. Began(call[c]) /\ call[c].op = Pay BY <2>7, WritingHolds DEF WritePayment
    <3>2. t \in Tickets BY <3>1 DEF Began, OnAccount
    <3>3. UNCHANGED ticket \/ ticket' = [ticket EXCEPT ![t].status = Paid]
      BY <2>7 DEF WritePayment, Settle
    <3> QED BY <1>1, <1>3, <3>2, <3>3
  <2>8. CASE WriteCancelTicket(c)
    <3>1. Began(call[c]) /\ call[c].op = CallOff BY <2>8, WritingHolds DEF WriteCancelTicket
    <3>2. t \in Tickets BY <3>1 DEF Began, OnAccount
    <3>3. ticket' = [ticket EXCEPT ![t].status = Cancelled] BY <2>8 DEF WriteCancelTicket
    <3> QED BY <1>3, <3>2, <3>3
  <2> QED BY <1>5, <2>1, <2>2, <2>3, <2>4, <2>5, <2>6, <2>7, <2>8 DEF Write
<1>6. ASSUME NEW c \in Requests, Start(c) \/ ReadDetail(c) \/ Refused(c) PROVE AbsentIsBlank'
  BY <1>1, <1>6 DEF Start, ReadDetail, Refused, LoadOpenShift, LoadCloseShift, LoadExpense,
     LoadOpenTicket, LoadTicket, LoadSendRound, LoadCancelLine, Load, vars
<1> QED BY <1>1, <1>5, <1>6 DEF PosNext, allVars, vars

\* A request none of whose own reads was overtaken is one call of CashFloor,
\* for any number of requests, accounts and lines: what was proved of the
\* calls taken one at a time is lost only where two requests collide.
THEOREM FreshRequestsActAsCalls == PosSpec => FreshRequestsAreCalls
<1> DEFINE Step == \A c \in Requests : Fresh(c) /\ call'[c] = Idle => ActsAsCall
<1>1. PosInit => AbsentIsBlank BY DEF PosInit, Init, AbsentIsBlank
<1>2. PosIInv /\ PosIInv' /\ AbsentIsBlank /\ [PosNext]_allVars => AbsentIsBlank' BY RequestsKeepBlank
<1>3. PosIInv /\ AbsentIsBlank /\ [PosNext]_allVars => [Step]_allVars BY FreshStep
<1>4. PosIInv /\ AbsentIsBlank /\ [PosNext]_allVars =>
        [\A c \in Requests : Fresh(c) /\ call'[c] = Idle =>
          /\ (\A t \in Tickets : ticket'[t] # ticket[t] => Sound(ticket[t], account[t])) =>
                Next \/ UNCHANGED vars
          /\ \A t \in Tickets :
                Sound(ticket[t], account[t]) /\ ticket'[t].status \in ActiveStatus =>
                    Sound(ticket'[t], account'[t])]_allVars
  BY <1>3 DEF ActsAsCall, WasSound, StaysSound
<1> QED BY <1>1, <1>2, <1>4, PosInvariant, PTL DEF PosSpec, FreshRequestsAreCalls

-----------------------------------------------------------------------------
(* One client alone is CashFloor.                                          *)

\* An account that does not exist, or that can be charged, is sound.
AllSound ==
    \A t \in Tickets : ticket[t].status \in {Absent, Open, InPayment} => Sound(ticket[t], account[t])

\* What the request read is what it would read now.
Current(k) ==
    k # Idle => /\ k.seen = View(k.op, k.on)
                /\ k.read => k.detail = Detail(k.op, k.on)

LEMMA ReadingChangesNoView ==
  ASSUME TablesUnchanged, NEW op, NEW x
  PROVE  View(op, x)' = View(op, x) /\ Detail(op, x)' = Detail(op, x)
BY DEF TablesUnchanged, vars, View, Detail, OpenShifts, IsCurrent, BlocksClosing, Taken, Live,
       LinesIn, Having, ExpectedCash, CashPaymentsIn, ExpensesIn, ActivePaymentsOf

\* The calls of CashFloor bring no account back.
LEMMA CallsKeepClosed ==
  ASSUME PosIInv, Next, NEW t \in Tickets, ticket[t].status \notin {Absent, Open, InPayment}
  PROVE  ticket'[t] = ticket[t]
<1>1. ticket \in [Tickets -> TicketRow] BY DEF PosIInv, TypeOK
<1>2. ASSUME NEW s \in Shifts, ShiftStep(s) PROVE ticket'[t] = ticket[t]
  BY <1>2 DEF ShiftStep, OpenShift, CloseShift, RegisterExpense
<1>3. ASSUME NEW u \in Tickets, TicketStep(u) PROVE ticket'[t] = ticket[t]
  BY <1>1, <1>3 DEF TicketStep, OpenTicket, EditTicket, ReduceTicket, StartPayment,
     CloseByCourtesy, CreatePayment, CancelTicket
<1> QED BY <1>2, <1>3 DEF Next

\* An account that the step leaves absent is the same absent account.
LEMMA AbsentUntouched ==
  ASSUME PosIInv, Next, NEW t \in Tickets, ticket'[t].status = Absent
  PROVE  ticket'[t] = ticket[t]
<1>1. ticket \in [Tickets -> TicketRow] BY DEF PosIInv, TypeOK
<1>2. ASSUME NEW s \in Shifts, ShiftStep(s) PROVE ticket'[t] = ticket[t]
  BY <1>2 DEF ShiftStep, OpenShift, CloseShift, RegisterExpense
<1>3. ASSUME NEW u \in Tickets, TicketStep(u) PROVE ticket'[t] = ticket[t]
  <2>1. u # t => ticket'[t] = ticket[t]
    BY <1>1, <1>3 DEF TicketStep, OpenTicket, EditTicket, ReduceTicket, StartPayment,
       CloseByCourtesy, CreatePayment, CancelTicket
  <2>2. ticket[t] \in TicketRow BY <1>1
  <2>3. CASE u = t
    <3>1. ASSUME NEW row, row.status # Absent, ticket' = [ticket EXCEPT ![t] = row] PROVE FALSE
      BY <1>1, <3>1
    <3>2. ASSUME NEW due, ticket[t].status # Absent, ticket' = [ticket EXCEPT ![t].due = due]
          PROVE  FALSE
      BY <1>1, <2>2, <3>2 DEF TicketRow
    <3>3. ASSUME NEW st, st # Absent, ticket' = [ticket EXCEPT ![t].status = st] PROVE FALSE
      BY <1>1, <2>2, <3>3 DEF TicketRow
    <3>4. ASSUME NEW b, NEW q, OpenTicket(t, b, q) PROVE FALSE
      <4> DEFINE row == [status |-> Open, table |-> b, shift |-> q, due |-> 0]
      <4>1. row.status = Open /\ ticket' = [ticket EXCEPT ![t] = row] BY <3>4 DEF OpenTicket
      <4> HIDE DEF row
      <4> QED BY <3>1, <4>1
    <3>5. ASSUME NEW a, EditTicket(t, a) \/ ReduceTicket(t, a) PROVE FALSE
      BY <3>2, <3>5 DEF EditTicket, ReduceTicket
    <3>6. CASE StartPayment(t) \/ CloseByCourtesy(t) \/ CancelTicket(t)
      BY <3>3, <3>6 DEF StartPayment, CloseByCourtesy, CancelTicket
    <3>7. ASSUME NEW p, NEW a, NEW cash, CreatePayment(p, t, a, cash) PROVE ticket'[t] = ticket[t]
      BY <3>3, <3>7 DEF CreatePayment
    <3> QED BY <1>3, <2>3, <3>4, <3>5, <3>6, <3>7 DEF TicketStep
  <2> QED BY <2>1, <2>3
<1> QED BY <1>2, <1>3 DEF Next

LEMMA SoundCallKeepsAllSound ==
  ASSUME PosIInv, AllSound, ActsAsCall
  PROVE  AllSound' /\ [Next]_vars
<1>1. WasSound => Next \/ UNCHANGED vars BY DEF ActsAsCall
<1>2. WasSound
  <2> SUFFICES ASSUME NEW t \in Tickets, ticket'[t] # ticket[t]
               PROVE  ticket[t].status \in {Absent, Open, InPayment}
    BY DEF WasSound, AllSound
  <2> QED BY DEF ActsAsCall, TouchesLive
<1>3. [Next]_vars BY <1>1, <1>2
<1>4. ASSUME NEW t \in Tickets, ticket'[t].status \in {Absent, Open, InPayment}
      PROVE  Sound(ticket'[t], account'[t])
  <2>1. ticket[t].status \in {Absent, Open, InPayment}
    BY <1>3, <1>4, CallsKeepClosed DEF vars
  <2>2. Sound(ticket[t], account[t]) BY <2>1 DEF AllSound
  <2>3. CASE ticket'[t].status \in ActiveStatus
    BY <2>2, <2>3 DEF ActsAsCall, StaysSound
  <2>4. CASE ticket'[t].status = Absent
    <3>1. ticket'[t] = ticket[t] BY <1>3, <2>4, AbsentUntouched DEF vars
    <3>2. account'[t] = account[t] BY <2>4, <3>1 DEF ActsAsCall, TouchesLive
    <3> QED BY <2>2, <3>1, <3>2
  <2> QED BY <1>4, <2>3, <2>4
<1> QED BY <1>3, <1>4 DEF AllSound

LEMMA LoneStep ==
  ASSUME NEW c, Requests = {c}, PosIInv, AbsentIsBlank, AllSound, Current(call[c]),
         [PosNext]_allVars
  PROVE  AllSound' /\ Current(call[c])' /\ [Next]_vars
<1>0. DOMAIN call = Requests BY DEF PosIInv, RequestTypeOK
<1>1. ASSUME TablesUnchanged PROVE AllSound' /\ [Next]_vars
  BY <1>1 DEF TablesUnchanged, AllSound, Sound, Total, Having, vars
<1>2. CASE Start(c)
  <2>1. PICK op, x : Load(c, op, x)
    BY <1>2 DEF Start, LoadOpenShift, LoadCloseShift, LoadExpense, LoadOpenTicket, LoadTicket,
                LoadSendRound, LoadCancelLine
  <2> DEFINE m == [op |-> op, on |-> x, seen |-> View(op, x), read |-> FALSE]
  <2>2. call'[c] = m /\ TablesUnchanged BY <1>0, <2>1 DEF Load, TablesUnchanged
  <2>3. m.op = op /\ m.on = x /\ m.seen = View(op, x) /\ m.read = FALSE OBVIOUS
  <2> HIDE DEF m
  <2>4. Current(call[c])' BY <2>2, <2>3, ReadingChangesNoView DEF Current
  <2> QED BY <1>1, <2>2, <2>4
<1>3. CASE ReadDetail(c)
  <2> DEFINE k == call[c]
             m == [op |-> k.op, on |-> k.on, seen |-> k.seen, read |-> TRUE,
                   detail |-> Detail(k.op, k.on)]
  <2>1. call'[c] = m /\ TablesUnchanged BY <1>0, <1>3 DEF ReadDetail, TablesUnchanged
  <2>2. k.seen = View(k.op, k.on) BY <1>3 DEF ReadDetail, Current
  <2>3. m.op = k.op /\ m.on = k.on /\ m.seen = k.seen /\ m.detail = Detail(k.op, k.on) OBVIOUS
  <2> HIDE DEF k, m
  <2>4. Current(call[c])' BY <2>1, <2>2, <2>3, ReadingChangesNoView DEF Current
  <2> QED BY <1>1, <2>1, <2>4
<1>4. CASE Refused(c)
  BY <1>0, <1>1, <1>4 DEF Refused, TablesUnchanged, Current
<1>5. CASE Write(c)
  <2>1. call' = [call EXCEPT ![c] = Idle] /\ call[c].read /\ call[c] # Idle
    <3>1. \E op \in {NewShift, CountShift, Spend, SeatTable, AddLine, DropLine, SendRound,
                       Forgive, StartBilling, Pay, CallOff} : Writing(c, op)
      BY <1>5 DEF Write, WriteOpenShift, WriteCloseShift, WriteExpense, WriteOpenTicket,
                  WriteAddLine, WriteCancelLine, WriteSendRound, WriteCourtesy,
                  WriteStartPayment, WritePayment, WriteCancelTicket
    <3>2. PICK op : Writing(c, op) /\ op # "idle" BY <3>1
    <3>3. Idle.op = "idle" BY DEF Idle
    <3> QED BY <3>2, <3>3 DEF Writing
  <2>2. Fresh(c) BY <2>1 DEF Fresh, Current
  <2>3. ActsAsCall BY <1>5, <2>2, FreshWrite
  <2>4. Current(call[c])' BY <1>0, <2>1 DEF Current
  <2> QED BY <2>3, <2>4, SoundCallKeepsAllSound
<1>6. CASE UNCHANGED allVars
  <2>1. TablesUnchanged /\ call' = call BY <1>6 DEF TablesUnchanged, allVars, requestVars
  <2>2. Current(call[c])' BY <2>1, ReadingChangesNoView DEF Current
  <2> QED BY <1>1, <2>1, <2>2
<1> QED BY <1>2, <1>3, <1>4, <1>5, <1>6 DEF PosNext

\* With one client the requests are the calls of CashFloor, one after another:
\* the two modules disagree on nothing but what several clients can do, and
\* every theorem about CashFloor holds of the requests of a single client.
THEOREM OneClientIsCashFloor ==
  ASSUME NEW c, Requests = {c}
  PROVE  PosSpec => Spec
<1> DEFINE I == AllSound /\ AbsentIsBlank /\ Current(call[c])
<1>1. PosInit => Init /\ I
  <2> SUFFICES ASSUME PosInit PROVE Init /\ I
    OBVIOUS
  <2>1. Init BY DEF PosInit
  <2>2. AbsentIsBlank BY <2>1 DEF Init, AbsentIsBlank
  <2>3. Current(call[c]) BY DEF PosInit, Current
  <2>4. AllSound
    <3> SUFFICES ASSUME NEW t \in Tickets PROVE Sound(ticket[t], account[t])
      BY DEF AllSound
    <3>1. /\ ticket[t].due = 0 /\ ticket[t].status = Absent
          /\ account[t].courtesy = 0 /\ account[t].line = [l \in Lines |-> NoLine]
      BY <2>1 DEF Init, PosInit, NewAccount
    <3>2. Having(account[t], {Captured, Sent}) = {} BY <3>1 DEF Having
    <3>3. Cardinality({}) = 0 BY FS_EmptySet
    <3>4. Total(account[t]) = Max({0 - 0, 0}) BY <3>1, <3>2, <3>3 DEF Total
    <3>5. Total(account[t]) = 0 BY <3>4, MaxWithZero
    <3> QED BY <3>1, <3>5 DEF Sound
  <2> QED BY <2>1, <2>2, <2>3, <2>4
<1>2. PosIInv /\ PosIInv' /\ I /\ [PosNext]_allVars => I' /\ [Next]_vars
  <2> SUFFICES ASSUME PosIInv, PosIInv', I, [PosNext]_allVars PROVE I' /\ [Next]_vars
    OBVIOUS
  <2>1. AbsentIsBlank' BY RequestsKeepBlank
  <2>2. AllSound' /\ Current(call[c])' /\ [Next]_vars BY LoneStep
  <2> QED BY <2>1, <2>2
<1> HIDE DEF I
<1> QED BY <1>1, <1>2, PosInvariant, PTL DEF PosSpec, Spec

=============================================================================
