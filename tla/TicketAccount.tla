--------------------------- MODULE TicketAccount ---------------------------
(***************************************************************************)
(* One account (Ticket) with everything that moves its money: lines and    *)
(* packages, discounts and courtesies, formal splits, payments, closing    *)
(* and cancellation.  Each action is one service call, which the route     *)
(* commits as a whole or rolls back (a rejected call changes nothing and   *)
(* is a stuttering step).                                                  *)
(*                                                                         *)
(* This is the projection of those calls onto the account's own rows.      *)
(* What the same calls do to tables, shifts and the cash count is in       *)
(* CashFloor.  Employees and their permissions only decide whether a call  *)
(* is rejected, so they do not appear; kitchen states "Enviado a comanda"  *)
(* and "Impreso" are one state here, SENT_LINE_STATUSES in the code.       *)
(***************************************************************************)
EXTENDS Integers, Sequences, FiniteSets, Functions

CONSTANTS
    Product,          \* what can be captured: a price in cents and a group of variants
    Quantities,       \* quantities a waiter can ask for
    PackageItems,     \* the component quantities of the product sold as a package, in order
    DiscountAmounts,  \* amounts of "Monto" discounts
    PercentBps,       \* basis points of "Porcentaje" and "Cortesia" discounts
    PaymentAmounts,   \* amounts a cashier can register
    PartCounts,       \* numbers of parts of an equal split
    MaxLines, MaxDiscounts, MaxPayments, MaxSplits  \* bounds of the model

\* A ProductVariantGroup with the price deltas of its options, and a Product.
VariantGroupRow == [min : Nat, max : Nat, deltas : Seq(Int)]

ProductRow == [price : Nat \ {0}, variants : VariantGroupRow]

ASSUME TicketAccountAssumption ==
    /\ Product \in ProductRow
    /\ Quantities \subseteq Nat \ {0}
    /\ PackageItems \in Seq(Nat \ {0}) /\ PackageItems # <<>>
    /\ DiscountAmounts \subseteq Nat \ {0}
    /\ PercentBps \subseteq 1..10000
    /\ PaymentAmounts \subseteq Nat \ {0}
    /\ PartCounts \subseteq 2..50
    /\ {MaxLines, MaxDiscounts, MaxPayments, MaxSplits} \subseteq Nat

VARIABLES
    ticket,     \* the Ticket row: status and stored totals
    lines,      \* its TicketLine rows in id order
    discounts,  \* its TicketDiscount rows
    payments,   \* its Payment rows
    splits      \* its TicketSplit rows, each with its line ids

vars == <<ticket, lines, discounts, payments, splits>>

Absent    == "Ausente"
Open      == "Abierto"
InPayment == "En cobro"
Paid      == "Cobrado"
Cancelled == "Cancelado"

Simple    == "Simple"
Parent    == "Paquete padre"
Component == "Componente de paquete"

Captured == "Capturado"
Sent     == "Enviado"

EqualParts == "Partes iguales"
ByLines    == "Por lineas"
SplitOpen      == "Abierta"
SplitPaid      == "Pagada"
SplitCancelled == "Cancelada"

NoParent == 0
NoSplit  == 0

-----------------------------------------------------------------------------
(* Queries over the rows.                                                  *)

LineTotal(l) == l.unit * l.qty

LiveLines(ls) == {i \in DOMAIN ls : ls[i].status # Cancelled}

CapturedLines(ls) == {i \in DOMAIN ls : ls[i].status = Captured}

\* The lines a customer pays for: components are included in their package.
Chargeable(ls) == {i \in LiveLines(ls) : ls[i].kind # Component}

SumOfLines(ls, S) == SumFunctionOnSet([i \in DOMAIN ls |-> LineTotal(ls[i])], S)

SumOfAmounts(rows, S) == SumFunctionOnSet([i \in DOMAIN rows |-> rows[i].amount], S)

Subtotal(ls) == SumOfLines(ls, Chargeable(ls))

DiscountTotal(ds) == SumOfAmounts(ds, DOMAIN ds)

CourtesyTotal(ds) == SumOfAmounts(ds, {i \in DOMAIN ds : ds[i].courtesy})

ActivePaid(ps) == SumOfAmounts(ps, {i \in DOMAIN ps : ps[i].active})

PaidToSplit(ps, s) == SumOfAmounts(ps, {i \in DOMAIN ps : ps[i].active /\ ps[i].split = s})

LiveSplits(ss) == {s \in DOMAIN ss : ss[s].status # SplitCancelled}

\* recalculate_ticket_totals: the stored totals rebuilt from the rows.
Recalculated(t, ls, ds) ==
    LET sub  == Subtotal(ls)
        disc == DiscountTotal(ds)
    IN  [t EXCEPT !.subtotal = sub,
                  !.discount = disc,
                  !.total = IF sub > disc THEN sub - disc ELSE 0]

\* Python's round(): to the nearest integer, halves to the even one.
RoundHalfEven(num, den) ==
    LET q == num \div den
        r == num % den
    IN  IF 2 * r > den \/ (2 * r = den /\ q % 2 = 1) THEN q + 1 ELSE q

-----------------------------------------------------------------------------
Init ==
    /\ ticket = [status |-> Absent, subtotal |-> 0, discount |-> 0, total |-> 0]
    /\ lines = <<>>
    /\ discounts = <<>>
    /\ payments = <<>>
    /\ splits = <<>>

OpenTicket ==
    /\ ticket.status = Absent
    /\ ticket' = [ticket EXCEPT !.status = Open]
    /\ UNCHANGED <<lines, discounts, payments, splits>>

-----------------------------------------------------------------------------
(* Lines: capture, change, send, cancel.                                   *)

\* The selections that the group of variants admits: how many of each option.
Selections ==
    LET group == Product.variants
    IN  {s \in [DOMAIN group.deltas -> 0..group.max] :
            SumFunction(s) \in group.min..group.max}

\* The product's price and what each selected option adds to it.
UnitPrice(s) ==
    Product.price + SumFunction([o \in DOMAIN s |-> Product.variants.deltas[o] * s[o]])

Prices == {UnitPrice(s) : s \in Selections}

NewLine(kind, parent, q, unit) ==
    [kind |-> kind, parent |-> parent, qty |-> q, unit |-> unit, status |-> Captured]

PackageLines(id, price, q) ==
    <<NewLine(Parent, NoParent, q, price)>>
      \o [k \in 1..Len(PackageItems) |-> NewLine(Component, id, PackageItems[k] * q, 0)]

\* add_product_to_ticket: one simple line, or a package and its components.
AddProduct(newLines) ==
    /\ ticket.status = Open
    /\ Len(lines) + Len(newLines) <= MaxLines
    /\ lines' = lines \o newLines
    /\ ticket' = Recalculated(ticket, lines', discounts)
    /\ UNCHANGED <<discounts, payments, splits>>

\* [Defect] A split that was already paid no longer holds its lines.
InOpenSplit(i) == \E s \in DOMAIN splits : splits[s].status = SplitOpen /\ i \in splits[s].lines

InLiveSplit(i) == \E s \in LiveSplits(splits) : i \in splits[s].lines

\* modify_ticket_line: a captured line takes a new quantity or variants (a
\* new unit price).  A package's captured components take its quantity.
\* (A note changes no money and is a stuttering step here.)
Modified(i, q, unit) ==
    [j \in DOMAIN lines |->
        IF j = i THEN [lines[j] EXCEPT !.qty = q, !.unit = unit]
        ELSE IF /\ q # lines[i].qty
                /\ lines[i].kind = Parent
                /\ lines[j].parent = i
                /\ lines[j].status = Captured
             THEN [lines[j] EXCEPT !.qty = q]
             ELSE lines[j]]

ModifyLine(i, q, unit) ==
    /\ ticket.status \in {Open, InPayment}
    /\ lines[i].status = Captured
    /\ ~InLiveSplit(i)
    /\ lines' = Modified(i, q, unit)
    /\ ticket' = Recalculated(ticket, lines', discounts)
    /\ UNCHANGED <<discounts, payments, splits>>

\* send_round: every captured line leaves for its station or is done.
SendRound ==
    /\ ticket.status \in {Open, InPayment}
    /\ CapturedLines(lines) # {}
    /\ lines' = [i \in DOMAIN lines |->
                    IF lines[i].status = Captured
                    THEN [lines[i] EXCEPT !.status = Sent] ELSE lines[i]]
    /\ UNCHANGED <<ticket, discounts, payments, splits>>

\* [Defect] Only the line itself is cancelled.
CancelTargetAlone(i) == {i}

\* A cancelled package takes the components that are still alive with it.
CancelTargets(i) ==
    {i} \cup {j \in LiveLines(lines) : lines[i].kind = Parent /\ lines[j].parent = i}

CancelLines(S) ==
    [j \in DOMAIN lines |-> IF j \in S THEN [lines[j] EXCEPT !.status = Cancelled]
                                       ELSE lines[j]]

\* [Defect] The totals are not recalculated.
CancelLineStaleTotals(i) ==
    /\ ticket.status \in {Open, InPayment}
    /\ lines[i].status # Cancelled
    /\ lines[i].kind = Component => lines[lines[i].parent].status = Cancelled
    /\ lines' = CancelLines(CancelTargets(i))
    /\ UNCHANGED <<ticket, discounts, payments, splits>>

\* cancel_ticket_line
CancelLine(i) ==
    /\ ticket.status \in {Open, InPayment}
    /\ lines[i].status # Cancelled
    /\ lines[i].kind = Component => lines[lines[i].parent].status = Cancelled
    /\ lines' = CancelLines(CancelTargets(i))
    /\ ticket' = Recalculated(ticket, lines', discounts)
    /\ UNCHANGED <<discounts, payments, splits>>

-----------------------------------------------------------------------------
(* Discounts.                                                              *)

\* apply_discount once the amount to apply is known.  An ordinary discount
\* must leave something to pay; only a courtesy may cover the whole account.
AddDiscount(applied, courtesy) ==
    LET fresh == Recalculated(ticket, lines, discounts)
    IN  /\ ticket.status = Open
        /\ Len(discounts) < MaxDiscounts
        /\ fresh.subtotal > 0
        /\ applied > 0
        /\ fresh.discount + applied <= fresh.subtotal
        /\ ~courtesy => fresh.discount + applied < fresh.subtotal
        /\ discounts' = Append(discounts, [amount |-> applied, courtesy |-> courtesy])
        /\ ticket' = Recalculated(ticket, lines, discounts')
        /\ UNCHANGED <<lines, payments, splits>>

ApplyDiscount ==
    \E courtesy \in BOOLEAN :
        \/ \E a \in DiscountAmounts : AddDiscount(a, courtesy)
        \/ \E bps \in PercentBps :
              AddDiscount(RoundHalfEven(Subtotal(lines) * bps, 10000), courtesy)

-----------------------------------------------------------------------------
(* Splits.                                                                 *)

\* [Defect] The cents left over are lost.
EqualAmountNoResidue(total, parts, k) == total \div parts

\* create_equal_splits: the cents left over go to the first parts.
EqualAmount(total, parts, k) ==
    total \div parts + (IF k <= total % parts THEN 1 ELSE 0)

CreateEqualSplits(parts) ==
    /\ ticket.status \in {Open, InPayment}
    /\ LiveSplits(splits) = {}
    /\ Len(splits) + parts <= MaxSplits
    /\ splits' = splits \o [k \in 1..parts |->
                    [type |-> EqualParts, amount |-> EqualAmount(ticket.total, parts, k),
                     status |-> SplitOpen, lines |-> {}]]
    /\ UNCHANGED <<ticket, lines, discounts, payments>>

\* [Defect] The cents left over are lost.
ShareNoResidue(i) ==
    (LineTotal(lines[i]) * ticket.total) \div SumOfLines(lines, LiveLines(lines))

\* create_lines_split prices each line at its share of the total, rounded
\* down, and hands the cents left over to the first live lines.
Share(i) ==
    LET live    == LiveLines(lines)
        base(j) == (LineTotal(lines[j]) * ticket.total) \div SumOfLines(lines, live)
        rest    == ticket.total - SumFunction([j \in live |-> base(j)])
        rank    == Cardinality({j \in live : j <= i})
    IN  base(i) + (IF rank <= rest THEN 1 ELSE 0)

CreateLinesSplit(S) ==
    /\ ticket.status \in {Open, InPayment}
    /\ S # {} /\ S \subseteq LiveLines(lines)
    /\ \A i \in S : ~InLiveSplit(i)
    /\ SumOfLines(lines, LiveLines(lines)) > 0
    /\ Len(splits) < MaxSplits
    /\ splits' = Append(splits,
                    [type |-> ByLines, amount |-> SumFunction([i \in S |-> Share(i)]),
                     status |-> SplitOpen, lines |-> S])
    /\ UNCHANGED <<ticket, lines, discounts, payments>>

\* [Defect] A split that holds money can be cancelled.
CancelSplitsWithMoney ==
    /\ LiveSplits(splits) # {}
    /\ splits' = [s \in DOMAIN splits |-> [splits[s] EXCEPT !.status = SplitCancelled]]
    /\ UNCHANGED <<ticket, lines, discounts, payments>>

\* cancel_ticket_splits, whatever the status of the ticket.
CancelSplits ==
    /\ LiveSplits(splits) # {}
    /\ \A i \in DOMAIN payments :
          payments[i].active => payments[i].split \notin LiveSplits(splits)
    /\ splits' = [s \in DOMAIN splits |-> [splits[s] EXCEPT !.status = SplitCancelled]]
    /\ UNCHANGED <<ticket, lines, discounts, payments>>

-----------------------------------------------------------------------------
(* Billing, payment, cancellation.                                         *)

\* [Defect] Any account with nothing to pay passes for a courtesy.
NothingToPay == ticket.subtotal > 0 /\ ticket.total = 0

\* _has_full_courtesy_discount
FullCourtesy ==
    /\ ticket.subtotal > 0
    /\ ticket.total = 0
    /\ CourtesyTotal(discounts) >= ticket.subtotal
    /\ ticket.discount >= ticket.subtotal

\* [Defect] Captured lines do not hold the billing.
StartPaymentWithCaptured ==
    /\ ticket.status = Open
    /\ LiveLines(lines) # {}
    /\ ticket.total > 0
    /\ ticket' = [ticket EXCEPT !.status = InPayment]
    /\ UNCHANGED <<lines, discounts, payments, splits>>

\* start_payment: the account is billed, or closed at once if a courtesy
\* leaves nothing to pay.
StartPayment ==
    /\ ticket.status = Open
    /\ LiveLines(lines) # {}
    /\ CapturedLines(lines) = {}
    /\ \/ /\ ticket.total > 0
          /\ ticket' = [ticket EXCEPT !.status = InPayment]
       \/ /\ ticket.total <= 0
          /\ FullCourtesy
          /\ ticket' = [ticket EXCEPT !.status = Paid]
    /\ UNCHANGED <<lines, discounts, payments, splits>>

\* [Defect] The sum is read before the new payment is flushed.
RegisterPaymentUnflushed(amount, split) ==
    /\ ticket.status = InPayment
    /\ amount > 0
    /\ Len(payments) < MaxPayments
    /\ payments' = Append(payments, [amount |-> amount, split |-> split, active |-> TRUE])
    /\ ticket' = IF ActivePaid(payments) < ticket.total
                 THEN ticket ELSE [ticket EXCEPT !.status = Paid]
    /\ UNCHANGED <<lines, discounts>>

\* create_payment: there is no upper bound on the amount.  The payment that
\* reaches the total settles the account, unless a line is still captured,
\* in which case the payment itself is rejected.
RegisterPayment(amount, split) ==
    /\ ticket.status = InPayment
    /\ amount > 0
    /\ Len(payments) < MaxPayments
    /\ payments' = Append(payments, [amount |-> amount, split |-> split, active |-> TRUE])
    /\ \/ /\ ActivePaid(payments') < ticket.total
          /\ UNCHANGED ticket
       \/ /\ ActivePaid(payments') >= ticket.total
          /\ CapturedLines(lines) = {}
          /\ ticket' = [ticket EXCEPT !.status = Paid]
    /\ UNCHANGED <<lines, discounts>>

CreatePayment(amount) ==
    /\ RegisterPayment(amount, NoSplit)
    /\ UNCHANGED splits

\* pay_split: a payment that may not exceed what the split still owes.
PaySplit(s, amount) ==
    LET before == PaidToSplit(payments, s)
    IN  /\ splits[s].status = SplitOpen
        /\ before + amount <= splits[s].amount
        /\ RegisterPayment(amount, s)
        /\ splits' = IF before + amount = splits[s].amount
                     THEN [splits EXCEPT ![s].status = SplitPaid] ELSE splits

\* [Defect] A settled account can still be cancelled.
CancelSettledTicket ==
    /\ ticket.status \notin {Absent, Cancelled}
    /\ lines' = CancelLines(DOMAIN lines)
    /\ payments' = [i \in DOMAIN payments |-> [payments[i] EXCEPT !.active = FALSE]]
    /\ ticket' = [ticket EXCEPT !.status = Cancelled]
    /\ UNCHANGED <<discounts, splits>>

\* cancel_ticket: lines and active payments go, the totals and the splits stay.
CancelTicket ==
    /\ ticket.status \in {Open, InPayment}
    /\ lines' = CancelLines(DOMAIN lines)
    /\ payments' = [i \in DOMAIN payments |-> [payments[i] EXCEPT !.active = FALSE]]
    /\ ticket' = [ticket EXCEPT !.status = Cancelled]
    /\ UNCHANGED <<discounts, splits>>

-----------------------------------------------------------------------------
Next ==
    \/ OpenTicket
    \/ \E price \in Prices, q \in Quantities :
          \/ AddProduct(<<NewLine(Simple, NoParent, q, price)>>)
          \/ AddProduct(PackageLines(Len(lines) + 1, price, q))
    \/ \E i \in DOMAIN lines :
          \/ \E q \in Quantities \cup {lines[i].qty}, unit \in Prices \cup {lines[i].unit} :
                ModifyLine(i, q, unit)
          \/ CancelLine(i)
    \/ SendRound
    \/ ApplyDiscount
    \/ \E parts \in PartCounts : CreateEqualSplits(parts)
    \/ \E S \in SUBSET LiveLines(lines) : CreateLinesSplit(S)
    \/ CancelSplits
    \/ StartPayment
    \/ \E a \in PaymentAmounts :
          \/ CreatePayment(a)
          \/ \E s \in DOMAIN splits : PaySplit(s, a)
    \/ CancelTicket

Spec == Init /\ [][Next]_vars

-----------------------------------------------------------------------------
(* Properties.                                                             *)

TicketRow == [status : {Absent, Open, InPayment, Paid, Cancelled},
              subtotal : Nat, discount : Nat, total : Nat]

LineRow == [kind : {Simple, Parent, Component}, parent : Nat, qty : Nat \ {0},
            unit : Nat, status : {Captured, Sent, Cancelled}]

DiscountRow == [amount : Nat \ {0}, courtesy : BOOLEAN]

PaymentRow == [amount : Nat \ {0}, split : Nat, active : BOOLEAN]

SplitRow == [type : {EqualParts, ByLines}, amount : Nat, lines : SUBSET Nat,
             status : {SplitOpen, SplitPaid, SplitCancelled}]

\* The rows have the shape of their tables and refer to rows that exist.
TypeOK ==
    /\ ticket \in TicketRow
    /\ lines \in Seq(LineRow)
    /\ \A i \in DOMAIN lines : lines[i].parent < i
    /\ discounts \in Seq(DiscountRow)
    /\ payments \in Seq(PaymentRow)
    /\ \A p \in DOMAIN payments : payments[p].split <= Len(splits)
    /\ splits \in Seq(SplitRow)

\* Until an account is cancelled (which keeps its totals as evidence) the
\* stored totals are what a recalculation from its rows would store: no
\* service changes a line or a discount and forgets the totals
\* (recalculate_ticket_totals and its callers).
TotalsAgree ==
    ticket.status # Cancelled => ticket = Recalculated(ticket, lines, discounts)

\* A package and its components are captured, sent and cancelled together,
\* whatever order the single-line calls come in (add_product_to_ticket,
\* send_round, cancel_ticket_line).
PackageMovesTogether ==
    \A i \in DOMAIN lines :
        lines[i].kind = Component => lines[i].status = lines[lines[i].parent].status

\* From the moment an account is billed nothing on it is still waiting to go
\* to the kitchen, so the check create_payment repeats cannot fail unless
\* requests overlap (start_payment, add_product_to_ticket, create_payment).
BilledIsSent ==
    ticket.status \in {InPayment, Paid} => CapturedLines(lines) = {}

\* Unless the account is cancelled, a split is paid exactly when its active
\* payments add up to its amount, never holds more, and a cancelled split
\* holds none (pay_split, cancel_ticket_splits).  A part of zero cents can
\* never be paid and stays open.
SplitLedger ==
    ticket.status # Cancelled =>
        \A s \in DOMAIN splits :
            LET held == PaidToSplit(payments, s)
            IN  /\ held <= splits[s].amount
                /\ splits[s].status = SplitPaid <=> (held = splits[s].amount /\ held > 0)
                /\ splits[s].status = SplitCancelled => held = 0

\* No line is charged in two live splits at once (create_lines_split).
OneSplitPerLine ==
    \A i \in DOMAIN lines :
        Cardinality({s \in LiveSplits(splits) : i \in splits[s].lines}) <= 1

\* The shares of the live lines add up to the total to the cent, so splits
\* made of all of them at one time charge exactly the account (the
\* allocation of create_lines_split).
SharesAreExact ==
    LET live == LiveLines(lines)
    IN  ticket.status \in {Open, InPayment} /\ SumOfLines(lines, live) > 0 =>
            SumFunction([i \in live |-> Share(i)]) = ticket.total

\* An account closed without any money was a full courtesy: the courtesies
\* granted cover everything on it (_close_zero_total_courtesy_ticket).
FreeOnlyByCourtesy ==
    ticket.status = Paid /\ ActivePaid(payments) = 0 =>
        Subtotal(lines) > 0 /\ CourtesyTotal(discounts) >= Subtotal(lines)

\* Nothing on a settled or cancelled account changes again, apart from
\* withdrawing a split that nobody paid (the status checks of every service).
SettledIsFinal ==
    [][ticket.status \in {Paid, Cancelled} => UNCHANGED <<ticket, lines, discounts, payments>>]_vars

\* The parts of a new equal split add up to the total it divides and differ
\* by one cent at most (create_equal_splits).
EqualSplitIsExact ==
    [][LET new == {s \in DOMAIN splits' : s > Len(splits)}
           amount(s) == splits'[s].amount
       IN  (\E s \in new : splits'[s].type = EqualParts) =>
              /\ SumFunction([s \in new |-> amount(s)]) = ticket.total
              /\ \A r, s \in new : amount(r) <= amount(s) + 1]_vars

\* The account keeps the promises of AccountLifecycle: it is edited only
\* while open, the amount billed never grows, the covering payment settles.
Lifecycle == INSTANCE AccountLifecycle WITH
    status   <- ticket.status,
    due      <- ticket.total,
    received <- ActivePaid(payments)

RefinesLifecycle == Lifecycle!Spec

(* Statements of the documentation that the code does not keep.            *)

\* "Los pagos activos pueden ser parciales; al cubrir el total el ticket pasa
\* a PAID": an account that took payments and is still being billed owes
\* something.
CoveredIsClosed ==
    ticket.status = InPayment /\ ActivePaid(payments) > 0 =>
        ActivePaid(payments) < ticket.total

\* A line of a live split keeps its quantity and price until the split is
\* cancelled ("Cancela la division antes de cambiar la cantidad").
SplitLineIsFrozen ==
    [][\A i \in DOMAIN lines : InLiveSplit(i) =>
          lines'[i].qty = lines[i].qty /\ lines'[i].unit = lines[i].unit]_vars

=============================================================================
