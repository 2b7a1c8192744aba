---------------------------- MODULE MCInventory ----------------------------
(* Bones and tare are raw; broth is a preparation that contains tare sauce,   *)
(* itself a preparation; loop is a preparation that needs itself.             *)
EXTENDS Inventory

Of(i, q) == [item |-> i, quantity |-> q]

MCPreparation ==
    [i \in Items |->
        IF i = "broth" THEN [yield |-> 2, recipe |-> <<Of("bones", 4), Of("sauce", 2)>>]
        ELSE IF i = "sauce" THEN [yield |-> 1, recipe |-> <<Of("tare", 1)>>]
        ELSE IF i = "loop" THEN [yield |-> 1, recipe |-> <<Of("tare", 1), Of("loop", 1)>>]
        ELSE NoPreparation]

MCRecipe ==
    [p \in {"ramen", "skewer", "gyoza"} |->
        IF p = "ramen" THEN <<Of("tare", 1), Of("broth", 2)>>
        ELSE IF p = "skewer" THEN <<Of("bones", 1)>>
        ELSE <<Of("loop", 1)>>]

MCMultiplier == [p \in {"ramen", "skewer", "gyoza"} |-> IF p = "skewer" THEN 2 ELSE 1]

MCOptionProduct == [o \in {"extra", "brocheta"} |-> "skewer"]
MCOptionRecipe == [o \in {"extra", "brocheta"} |-> IF o = "extra" THEN <<Of("tare", 1)>> ELSE <<>>]

MCLines ==
    [t \in Tickets |->
        IF t = 1
        THEN <<[product |-> "ramen", quantity |-> 1, consumable |-> FALSE, selections |-> <<>>],
               [product |-> "ramen", quantity |-> 1, consumable |-> TRUE,
                selections |-> <<[option |-> "extra", quantity |-> 1],
                                 [option |-> "brocheta", quantity |-> 1]>>]>>
        ELSE <<[product |-> "gyoza", quantity |-> 1, consumable |-> TRUE, selections |-> <<>>]>>]

MCConversions == {[from |-> "kg", to |-> "g", factor |-> 4]}

MCBaseUnit == [i \in Items |-> IF i = "bones" THEN "kg" ELSE "g"]

Entry(i, q, u) == [item |-> i, quantity |-> q, unit |-> u]

\* Requests differ only in the ticket they have loaded.
Symmetry == Permutations(Calls)

MCDeliveries == {<<Entry("tare", 2, "kg"), Entry("bones", 24, "g")>>}

MCCorrections == {[item |-> "tare", type |-> Waste, quantity |-> 4, unit |-> "g"],
                  [item |-> "bones", type |-> AdjustmentIn, quantity |-> 6, unit |-> "kg"],
                  [item |-> "tare", type |-> SaleConsumption, quantity |-> 1, unit |-> "g"]}

\* The hypotheses under which ConsumedAsSold and ReceiptsAreWhole are proved, and
\* what the first of them comes to.
ASSUME WholeYields == YieldsDivide
ASSUME RecipesExpand == RequirementsAreSold
ASSUME UnitsConvert == DeliveriesConvert

=============================================================================
