---------------------------- MODULE PosRequests ----------------------------
(***************************************************************************)
(* Requests of several clients at once on the tables of CashFloor.  Routes *)
(* run in a pool of threads, each with its own session.  SQLite starts a   *)
(* transaction at the first write: what a request reads before it, it      *)
(* reads as committed at that moment, and nothing is locked; the first     *)
(* write takes the only write lock, and holds it until the commit.  So a   *)
(* request is a load, often a second read (the number of its folio, the    *)
(* sum it will store), and one step that writes and commits, from rows     *)
(* that other requests may have changed since.                             *)
(*                                                                         *)
(* The session writes the columns whose value differs from the one loaded. *)
(* A request that is refused, or whose insert breaks a unique constraint,  *)
(* is rolled back.                                                         *)
(***************************************************************************)
EXTENDS CashFloor, FiniteSetsExt

CONSTANTS
    Requests,   \* requests that can be under way at the same time
    Lines,      \* rows of TicketLine that each ticket can have, one cent each
    MaxRequests \* bound: requests started

ASSUME PosRequestsAssumption ==
    /\ Shifts \cup Tickets \cup Payments \cup Expenses \subseteq Nat \* ids
    /\ IsFiniteSet(Lines)
    /\ 0..Cardinality(Lines) \cup {1} \subseteq Amounts
    /\ MaxRequests \in Nat

VARIABLES
    call,      \* what each request has read so far, Idle if there is none
    account,   \* lines, rounds and courtesies of each ticket
    nextFolio, \* FolioSequence.next_number
    folios,    \* folio numbers of the committed rows of each sequence
    slips,     \* tickets with a print job TICKET:{id}
    started,   \* requests so far
    revised    \* history: tickets whose total was rewritten after billing began

requestVars == <<call, account, nextFolio, folios, slips, started, revised>>
allVars == <<vars, requestVars>>

NewShift     == "open_cash_shift"
CountShift   == "close_cash_shift"
Spend        == "create_cash_expense"
SeatTable    == "open_ticket_for_table"
AddLine      == "add_product_to_ticket"
DropLine     == "cancel_ticket_line"
SendRound    == "send_round"
Forgive      == "apply_discount"
StartBilling == "start_payment"
Pay          == "create_payment"
CallOff      == "cancel_ticket"

\* Operations that number a new row, and the sequence they take it from.
Sequence == [op \in {NewShift, Spend, SeatTable, Pay} |->
    CASE op = NewShift  -> "CORTE"
      [] op = Spend     -> "GASTO"
      [] op = SeatTable -> "TICKET"
      [] op = Pay       -> "PAGO"]

Sequences == {"CORTE", "GASTO", "TICKET", "PAGO"}

Idle == [op |-> "idle"]

OpenShifts == {s \in Shifts : IsCurrent(s)}

\* TicketLine.status, NoLine if there is no such row yet
NoLine    == "none"
Captured  == "Capturado"
Sent      == "Enviado a comanda"
Dropped   == "Cancelado"

\* An account keeps the status of each line, the number of its rounds and what
\* was forgiven of it.
NewAccount == [line |-> [l \in Lines |-> NoLine], rounds |-> 0, courtesy |-> 0]

Having(row, statuses) == {l \in Lines : row.line[l] \in statuses}

LinesIn(t, statuses) == Having(account[t], statuses)
Live(t) == LinesIn(t, {Captured, Sent})

\* The total that the rows of an account give.
Total(row) == Max({Cardinality(Having(row, {Captured, Sent})) - row.courtesy, 0})

\* What a request reads of its subject x (a shift, a table, a ticket) when it
\* starts.
View(op, x) ==
    CASE op \in {NewShift, Spend} -> OpenShifts
      [] op = CountShift -> <<shift[x], {t \in Tickets : BlocksClosing(t, x)}>>
      [] op = SeatTable  -> <<OpenShifts, Taken(x)>>
      [] op = DropLine   -> [row |-> ticket[x[1]], line |-> account[x[1]].line[x[2]]]
      [] op = SendRound  -> [row |-> ticket[x], captured |-> LinesIn(x, {Captured})]
      [] OTHER           -> [row |-> ticket[x], priced |-> Live(x) # {}]

\* What it reads afterwards, still before its first write.
Detail(op, x) ==
    CASE op \in DOMAIN Sequence -> nextFolio[Sequence[op]]
      [] op = CountShift -> ExpectedCash(x)
      [] op = SendRound  -> account[x].rounds
      [] op = Forgive    -> <<Live(x), account[x].courtesy>>
      [] op = StartBilling -> <<Live(x), LinesIn(x, {Captured})>>
      [] op = CallOff    -> <<Live(x), ActivePaymentsOf(payment, x)>>
      [] OTHER           -> 0

PosInit ==
    /\ Init
    /\ call = [c \in Requests |-> Idle]
    /\ account = [t \in Tickets |-> NewAccount]
    /\ nextFolio = [q \in Sequences |-> 1]
    /\ folios = [q \in Sequences |-> {}]
    /\ slips = {}
    /\ started = 0
    /\ revised = {}

-----------------------------------------------------------------------------
(* Reads.                                                                  *)

\* The request starts: its checks are made on what it reads now.
Load(c, op, x) ==
    /\ call[c] = Idle
    /\ started < MaxRequests
    /\ started' = started + 1
    /\ call' = [call EXCEPT ![c] = [op |-> op, on |-> x, seen |-> View(op, x), read |-> FALSE]]
    /\ UNCHANGED <<vars, account, nextFolio, folios, slips, revised>>

LoadOpenShift(c) == OpenShifts = {} /\ Load(c, NewShift, 0)

LoadCloseShift(c, s) ==
    /\ shift[s].status = Open
    /\ \A t \in Tickets : ~BlocksClosing(t, s)
    /\ Load(c, CountShift, s)

LoadExpense(c) == OpenShifts # {} /\ Load(c, Spend, 0)

LoadOpenTicket(c, b) == OpenShifts # {} /\ ~Taken(b) /\ Load(c, SeatTable, b)

LoadTicket(c, t) ==
    \/ ticket[t].status = Open /\ \E op \in {AddLine, Forgive, StartBilling} : Load(c, op, t)
    \/ ticket[t].status = InPayment /\ Load(c, Pay, t)
    \/ ticket[t].status \in ActiveStatus /\ Load(c, CallOff, t)

LoadSendRound(c, t) ==
    /\ ticket[t].status \in ActiveStatus
    /\ LinesIn(t, {Captured}) # {}
    /\ Load(c, SendRound, t)

LoadCancelLine(c, t) ==
    /\ ticket[t].status \in ActiveStatus
    /\ \E l \in Live(t) : Load(c, DropLine, <<t, l>>)

\* generate_folio reads the number, closing sums the shift, a cancellation
\* lists the payments it will cancel.
ReadDetail(c) ==
    /\ call[c] # Idle
    /\ ~call[c].read
    /\ call' = [call EXCEPT ![c] =
          [op |-> call[c].op, on |-> call[c].on, seen |-> call[c].seen,
           read |-> TRUE, detail |-> Detail(call[c].op, call[c].on)]]
    /\ UNCHANGED <<vars, account, nextFolio, folios, slips, started, revised>>

-----------------------------------------------------------------------------
(* Writes.                                                                 *)

\* [Defect] Folios are not unique.
FolioFreeAlways(q, n) == TRUE

FolioFree(q, n) == n \notin folios[q]

\* The request writes the number it read, plus one, and its row with the
\* number; the column is unique.
Number(c) ==
    LET q == Sequence[call[c].op]
        n == call[c].detail
    IN  /\ FolioFree(q, n)
        /\ nextFolio' = [nextFolio EXCEPT ![q] = n + 1]
        /\ folios' = [folios EXCEPT ![q] = @ \cup {n}]

Unnumbered == UNCHANGED <<nextFolio, folios>>

Writing(c, op) ==
    /\ call[c].op = op
    /\ call[c].read
    /\ call' = [call EXCEPT ![c] = Idle]
    /\ UNCHANGED started

\* The smallest id of a row that does not exist yet.
NextId(rows) == Min({i \in DOMAIN rows : rows[i].status = Absent})

RoomFor(rows) == \E i \in DOMAIN rows : rows[i].status = Absent

WriteOpenShift(c) ==
    /\ Writing(c, NewShift)
    /\ RoomFor(shift)
    /\ Number(c)
    /\ shift' = [shift EXCEPT ![NextId(shift)] = [@ EXCEPT !.status = Open, !.opening = 0]]
    /\ UNCHANGED <<expected, ticket, cache, payment, expense, account, slips, revised>>

\* The shift is closed with the sum read before; neither its status nor its
\* tickets are looked at again.
WriteCloseShift(c) ==
    /\ Writing(c, CountShift)
    /\ shift' = [shift EXCEPT ![call[c].on] = [@ EXCEPT !.status = Closed, !.declared = 0]]
    /\ expected' = [expected EXCEPT ![call[c].on] = call[c].detail]
    /\ Unnumbered
    /\ UNCHANGED <<ticket, cache, payment, expense, account, slips, revised>>

WriteExpense(c) ==
    /\ Writing(c, Spend)
    /\ RoomFor(expense)
    /\ Number(c)
    /\ expense' = [expense EXCEPT ![NextId(expense)] =
                      [status |-> Active, shift |-> Min(call[c].seen), amount |-> 1]]
    /\ UNCHANGED <<shift, expected, ticket, cache, payment, account, slips, revised>>

WriteOpenTicket(c) ==
    /\ Writing(c, SeatTable)
    /\ RoomFor(ticket)
    /\ Number(c)
    /\ ticket' = [ticket EXCEPT ![NextId(ticket)] =
                    [status |-> Open, table |-> call[c].on,
                     shift |-> Min(call[c].seen[1]), due |-> 0]]
    /\ cache' = [cache EXCEPT ![call[c].on] = Occupied]
    /\ UNCHANGED <<shift, expected, payment, expense, account, slips, revised>>

\* recalculate_ticket_totals sums the rows as they are now; the session
\* writes the sum unless it is the one it had loaded, here if it kept it.
WriteTotal(c, t, kept) ==
    LET sum == Total(account'[t])
        due == IF sum = call[c].seen.row.due /\ kept THEN ticket[t].due ELSE sum
    IN  /\ ticket' = [ticket EXCEPT ![t].due = due]
        /\ revised' = IF ticket[t].status # Open /\ due # ticket[t].due
                      THEN revised \cup {t} ELSE revised
        /\ Unnumbered
        /\ UNCHANGED <<shift, expected, cache, payment, expense, slips>>

WriteAddLine(c) ==
    LET t == call[c].on
    IN  /\ Writing(c, AddLine)
        /\ \E l \in LinesIn(t, {NoLine}) : account' = [account EXCEPT ![t].line[l] = Captured]
        /\ WriteTotal(c, t, TRUE)

WriteCancelLine(c) ==
    LET t == call[c].on[1]
    IN  /\ Writing(c, DropLine)
        /\ account' = [account EXCEPT ![t].line[call[c].on[2]] = Dropped]
        /\ WriteTotal(c, t, TRUE)

\* The lines that were captured when the request began are sent, whatever they
\* are by now; a round of the same number breaks uq_command_batch_round_type.
WriteSendRound(c) ==
    LET t == call[c].on
    IN  /\ Writing(c, SendRound)
        /\ account[t].rounds = call[c].detail
        /\ account' = [account EXCEPT ![t].rounds = @ + 1,
                ![t].line = [l \in Lines |-> IF l \in call[c].seen.captured THEN Sent ELSE @[l]]]
        /\ Unnumbered
        /\ UNCHANGED <<vars, slips, revised>>

\* A courtesy of the whole subtotal that was read, if it was not forgiven yet.
\* That subtotal is flushed with the discount, before the second sum.
WriteCourtesy(c) ==
    LET t == call[c].on
        subtotal == Cardinality(call[c].detail[1])
    IN  /\ Writing(c, Forgive)
        /\ subtotal > 0
        /\ call[c].detail[2] = 0
        /\ account' = [account EXCEPT ![t].courtesy = @ + subtotal]
        /\ WriteTotal(c, t, subtotal = call[c].seen.row.due)

Settle(t) ==
    /\ t \notin slips
    /\ slips' = slips \cup {t}
    /\ ticket' = [ticket EXCEPT ![t].status = Paid]
    /\ cache' = Released(t)

\* [Defect] Captured lines are not looked for.
ReadyToBillUnsent(c) == call[c].detail[1] # {}

\* The account has lines and none is still to be sent.
ReadyToBill(c) == call[c].detail[1] # {} /\ call[c].detail[2] = {}

\* start_payment, and the courtesy that leaves nothing to pay.
WriteStartPayment(c) ==
    LET t == call[c].on
    IN  /\ Writing(c, StartBilling)
        /\ ReadyToBill(c)
        /\ IF call[c].seen.row.due = 0
           THEN call[c].seen.priced /\ Settle(t)
           ELSE /\ ticket' = [ticket EXCEPT ![t].status = InPayment]
                /\ cache' = [cache EXCEPT ![ticket[t].table] = InPayment]
                /\ UNCHANGED slips
        /\ Unnumbered
        /\ UNCHANGED <<shift, expected, payment, expense, account, revised>>

\* [Defect] The payments are summed without the new one.
PaidBefore(pay, t) == PaidTo(payment, t)

\* The payments are summed after the insert, under the lock.
PaidNow(pay, t) == PaidTo(pay, t)

WritePayment(c) ==
    LET t == call[c].on
        p == NextId(payment)
    IN  /\ Writing(c, Pay)
        /\ RoomFor(payment)
        /\ Number(c)
        /\ payment' = [payment EXCEPT ![p] =
              [status |-> Active, ticket |-> t, shift |-> call[c].seen.row.shift,
               amount |-> 1, cash |-> TRUE]]
        /\ IF PaidNow(payment', t) < call[c].seen.row.due
           THEN UNCHANGED <<ticket, cache, slips>> ELSE Settle(t)
        /\ UNCHANGED <<shift, expected, expense, account, revised>>

\* The lines and payments that were listed are cancelled, and no other.
WriteCancelTicket(c) ==
    LET t == call[c].on
    IN  /\ Writing(c, CallOff)
        /\ ticket' = [ticket EXCEPT ![t].status = Cancelled]
        /\ account' = [account EXCEPT ![t].line =
              [l \in Lines |-> IF l \in call[c].detail[1] THEN Dropped ELSE @[l]]]
        /\ payment' = [p \in Payments |-> IF p \in call[c].detail[2]
                          THEN [payment[p] EXCEPT !.status = Cancelled] ELSE payment[p]]
        /\ cache' = Released(t)
        /\ Unnumbered
        /\ UNCHANGED <<shift, expected, expense, slips, revised>>

Write(c) ==
    \/ WriteOpenShift(c) \/ WriteCloseShift(c) \/ WriteExpense(c) \/ WriteOpenTicket(c)
    \/ WriteAddLine(c) \/ WriteCancelLine(c) \/ WriteSendRound(c) \/ WriteCourtesy(c)
    \/ WriteStartPayment(c) \/ WritePayment(c) \/ WriteCancelTicket(c)

\* A constraint is broken, a row is locked for too long, the client goes away.
Refused(c) ==
    /\ call[c] # Idle
    /\ call' = [call EXCEPT ![c] = Idle]
    /\ UNCHANGED <<vars, account, nextFolio, folios, slips, started, revised>>

Start(c) ==
    \/ LoadOpenShift(c)
    \/ \E s \in Shifts : LoadCloseShift(c, s)
    \/ LoadExpense(c)
    \/ \E b \in Tables : LoadOpenTicket(c, b)
    \/ \E t \in Tickets : LoadTicket(c, t) \/ LoadSendRound(c, t) \/ LoadCancelLine(c, t)

PosNext == \E c \in Requests : Start(c) \/ ReadDetail(c) \/ Write(c) \/ Refused(c)

PosSpec == PosInit /\ [][PosNext]_allVars

-----------------------------------------------------------------------------
(* Properties.                                                             *)

Existing(rows) == {i \in DOMAIN rows : rows[i].status # Absent}

RowsOf == [q \in Sequences |->
    CASE q = "CORTE"  -> Existing(shift)
      [] q = "GASTO"  -> Existing(expense)
      [] q = "TICKET" -> Existing(ticket)
      [] q = "PAGO"   -> Existing(payment)]

\* The rows of each sequence carry the numbers from one on, without a gap and
\* without a repetition, although the number is read outside the lock and
\* written back (generate_folio; the unique columns, and the rollback that
\* returns the number).
FoliosAreConsecutive ==
    \A q \in Sequences :
        /\ folios[q] = 1..(nextFolio[q] - 1)
        /\ Cardinality(RowsOf[q]) = nextFolio[q] - 1

\* A settled account holds no payment beyond the one that covered it, however
\* many requests were paying it, unless its total was rewritten while they
\* were (create_payment; the second closing fails on the key of its slip).
PaidOnce ==
    \A t \in Tickets \ revised :
        LET active == ActivePaymentsOf(payment, t)
            others == active \ {Max(active)}
        IN  ticket[t].status = Paid /\ Cardinality(active) > 1 =>
                SumFunction([p \in others |-> payment[p].amount]) < ticket[t].due

\* What the request read is still so when it writes.
Fresh(c) ==
    /\ call[c] # Idle
    /\ call[c].read
    /\ call[c].seen = View(call[c].op, call[c].on)
    /\ call[c].detail = Detail(call[c].op, call[c].on)

\* An account whose total is what its rows give, and that was not billed with
\* lines still to be sent.
Sound(row, lines) ==
    /\ row.due = Total(lines)
    /\ row.status = InPayment => Having(lines, {Captured}) = {}

\* A request none of whose own reads was overtaken does to the tables what
\* one call of CashFloor does, whatever other requests are under way, unless
\* it writes an account that was unsound already; and it leaves no account
\* unsound that can still be charged.  What is proved of CashFloor, and of
\* TicketAccount, holds unless two requests collide on the same shift, table,
\* ticket or sequence (the routes of pos.py, SQLite's lock).
FreshRequestsAreCalls ==
    [][\A c \in Requests : Fresh(c) /\ call'[c] = Idle =>
          /\ (\A t \in Tickets : ticket'[t] # ticket[t] => Sound(ticket[t], account[t])) =>
                Next \/ UNCHANGED vars
          /\ \A t \in Tickets :
                Sound(ticket[t], account[t]) /\ ticket'[t].status \in ActiveStatus =>
                    Sound(ticket'[t], account'[t])
      ]_allVars

=============================================================================
