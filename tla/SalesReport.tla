---------------------------- MODULE SalesReport ----------------------------
(***************************************************************************)
(* What the sales reports say of an account: its sales by product, by      *)
(* category and in total.  Reports store nothing, they are recomputed from *)
(* the rows of TicketAccount.                                              *)
(***************************************************************************)
EXTENDS TicketAccount, FiniteSetsExt

\* The lines that the reports count once their account is paid.
SoldLines == IF ticket.status = Paid THEN Chargeable(lines) ELSE {}

\* total_sales_cents of get_operational_summary
TotalSales == IF ticket.status = Paid THEN ticket.total ELSE 0

\* get_sales_by_product: what was charged for the lines of product p.
ProductSales(product, p) == SumOfLines(lines, {i \in SoldLines : product[i] = p})

\* get_sales_by_payment_method: what was taken by method m, on any account.
MethodSales(method, m) ==
    SumOfAmounts(payments, {i \in DOMAIN payments : payments[i].active /\ method[i] = m})

-----------------------------------------------------------------------------
(* Sales by category: get_sales_by_category, where category[i] is the one  *)
(* that line i was captured in.                                            *)

Gross(category) ==
    [c \in {category[i] : i \in SoldLines} |->
        SumOfLines(lines, {i \in SoldLines : category[i] = c})]

\* [Defect] The last category is rounded like the others.
CategoryDiscountRounded(gross) ==
    LET total    == SumFunction(gross)
        discount == Min({ticket.discount, total})
    IN  [c \in DOMAIN gross |-> IF total = 0 THEN 0 ELSE (discount * gross[c]) \div total]

\* The discount is shared out by gross sales, rounded down; the last
\* category takes what is left.
CategoryDiscount(gross) ==
    LET total    == SumFunction(gross)
        discount == Min({ticket.discount, total})
        share    == [c \in DOMAIN gross |-> (discount * gross[c]) \div total]
        last     == Max(DOMAIN gross)
    IN  IF total = 0 THEN [c \in DOMAIN gross |-> 0]
        ELSE [share EXCEPT ![last] = discount - (SumFunction(share) - @)]

-----------------------------------------------------------------------------
\* However the lines of a paid account are spread over products and
\* categories, and whatever was discounted or cancelled before it was paid,
\* the reports tell of the same money: products add up to the subtotal,
\* categories to the total, payment methods to no less than the total (and to
\* nothing once the account is cancelled), and no category bears a cent less
\* than its part of the discount, nor more by more cents than there are other
\* categories (get_operational_summary, get_sales_by_product,
\* get_sales_by_category, get_sales_by_payment_method).
ReportsAgree ==
  /\ \A method \in [DOMAIN payments -> {1, 2}] :
        LET taken == MethodSales(method, 1) + MethodSales(method, 2)
        IN  taken >= TotalSales /\ (ticket.status = Cancelled => taken = 0)
  /\ \A label \in [SoldLines -> DOMAIN lines] :
        LET gross    == Gross(label)
            total    == SumFunction(gross)
            discount == CategoryDiscount(gross)
            borne    == SumFunction(discount)
        IN  /\ SumFunction([p \in DOMAIN gross |-> ProductSales(label, p)])
                  = IF ticket.status = Paid THEN ticket.subtotal ELSE 0
            /\ total - borne = TotalSales
            /\ \A c \in DOMAIN gross :
                  /\ total * discount[c] >= borne * gross[c] - total
                  /\ total * discount[c] <= borne * gross[c] + total * (Cardinality(DOMAIN gross) - 1)

=============================================================================
