--------------------------- MODULE MCAirtableSync ---------------------------
(* Two employees; a shift that one opens and the other closes, and the     *)
(* ticket that refers to it.                                               *)
EXTENDS AirtableSync

MCParent == [r \in {"corte", "ticket"} |-> IF r = "ticket" THEN "corte" ELSE NoRow]
MCAuthor == [r \in {"corte", "ticket"} |-> IF r = "ticket" THEN "luz" ELSE "ana"]
MCClosers == [r \in {"corte", "ticket"} |-> IF r = "corte" THEN {"luz"} ELSE {}]
MCLevel == [r \in {"corte", "ticket"} |-> IF r = "ticket" THEN 2 ELSE 1]
=============================================================================
