--------------------------- MODULE MCPosRequests ---------------------------
(* Two requests at a time on one table, two tickets and two shifts.          *)
EXTENDS PosRequests, TLC

Symmetry == Permutations(Requests) \cup Permutations(Lines)

=============================================================================
