-------------------------- MODULE MCTicketAccount --------------------------
(***************************************************************************)
(* TicketAccount on a small menu: one package of a single component served *)
(* twice, two prices, and amounts that reach every total exactly, fall     *)
(* short of it and exceed it.                                              *)
(***************************************************************************)
EXTENDS SalesReport

const_PackageItems == <<2>>

\* With one option that costs a cent, and without variants.
const_VariedProduct == [price |-> 2, variants |-> [min |-> 0, max |-> 1, deltas |-> <<1>>]]

\* Accounts of three lines are explored with one discount, and formal splits
\* on accounts of two lines of one price that are not given away.
SmallAccount ==
    /\ Len(lines) > 2 => Len(discounts) <= 1
    /\ splits # <<>> =>
          /\ Len(lines) <= 2 /\ \A i \in DOMAIN lines : lines[i].unit # Product.price
          /\ Len(discounts) <= 1 /\ \A d \in DOMAIN discounts : discounts[d].amount < Subtotal(lines)

const_PlainProduct  == [price |-> 3, variants |-> [min |-> 0, max |-> 0, deltas |-> <<>>]]
=============================================================================
