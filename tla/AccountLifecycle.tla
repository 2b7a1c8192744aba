-------------------------- MODULE AccountLifecycle --------------------------
(***************************************************************************)
(* What a restaurant account promises, whatever lines, discounts, splits   *)
(* and kitchen rounds lie behind it: it is edited while it is open, billed *)
(* for an amount that can only go down, settled by the payment that covers *)
(* that amount (or by a courtesy that leaves nothing to pay), or cancelled *)
(* together with its payments.  Nothing happens after that.                *)
(*                                                                         *)
(* TicketAccount refines this machine for one account in full detail, and  *)
(* CashFloor refines one copy of it for each ticket of the floor.          *)
(***************************************************************************)
EXTENDS Naturals

VARIABLES
    status,     \* Ticket.status, or "Ausente" before the ticket exists
    due,        \* Ticket.total_cents
    received    \* the sum of the ticket's active payments

accountVars == <<status, due, received>>

Absent    == "Ausente"
Open      == "Abierto"
InPayment == "En cobro"
Paid      == "Cobrado"
Cancelled == "Cancelado"

AccountStatus == {Absent, Open, InPayment, Paid, Cancelled}

Init ==
    /\ status = Absent
    /\ due = 0
    /\ received = 0

(***************************************************************************)
(* The steps an account may take.                                          *)
(***************************************************************************)
OpenAccount ==
    /\ status = Absent
    /\ status' = Open
    /\ UNCHANGED <<due, received>>

\* Lines and discounts move the amount freely while the account is open.
Edit ==
    /\ status = Open
    /\ due' \in Nat
    /\ UNCHANGED <<status, received>>

StartPayment ==
    /\ status = Open
    /\ due > 0
    /\ status' = InPayment
    /\ UNCHANGED <<due, received>>

\* Once the account is being billed a line may still be cancelled: the
\* amount asked for never grows in front of the customer.
Reduce ==
    /\ status = InPayment
    /\ due' \in Nat
    /\ due' <= due
    /\ UNCHANGED <<status, received>>

\* A payment is positive and settles the account exactly when the amount
\* due is covered.
Receive ==
    /\ status = InPayment
    /\ received' \in Nat
    /\ received' > received
    /\ status' = IF received' >= due THEN Paid ELSE InPayment
    /\ UNCHANGED due

\* A full courtesy settles the account without any money.
CloseCourtesy ==
    /\ status = Open
    /\ due = 0
    /\ status' = Paid
    /\ UNCHANGED <<due, received>>

\* Cancelling keeps the amount as evidence and gives the money back.
Cancel ==
    /\ status \in {Open, InPayment}
    /\ status' = Cancelled
    /\ received' = 0
    /\ UNCHANGED due

Next ==
    \/ OpenAccount
    \/ Edit
    \/ StartPayment
    \/ Reduce
    \/ Receive
    \/ CloseCourtesy
    \/ Cancel

Spec == Init /\ [][Next]_accountVars

=============================================================================
