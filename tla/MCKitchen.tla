----------------------------- MODULE MCKitchen -----------------------------
(* Two stations with a printer each; the package has two dishes, the second  *)
(* one always prepared at station 2.                                         *)
EXTENDS Kitchen

MCPackageItems == <<[product |-> "ramen", override |-> NoStation],
                    [product |-> "gyoza", override |-> 2]>>

MCPrinterOf == [s \in Stations |-> IF s = 1 THEN "COCINA" ELSE "BARRA"]

=============================================================================
