---------------------------- MODULE MCPrintQueue ----------------------------
(* PrintQueue with station printers and a cash printer.                    *)
EXTENDS PrintQueue, TLC

\* For the invariants only: the liveness run has one worker and no symmetry.
Symmetry == Permutations(Workers) \cup Permutations(Clerks)
=============================================================================
