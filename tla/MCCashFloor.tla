---------------------------- MODULE MCCashFloor ----------------------------
(* CashFloor on two shifts, two tables and a few rows of everything else.  *)
EXTENDS CashFloor, TLC

Symmetry ==
    Permutations(Tables) \cup Permutations(Shifts)
      \cup Permutations(Tickets) \cup Permutations(Payments)
=============================================================================
