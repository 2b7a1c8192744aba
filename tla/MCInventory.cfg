SPECIFICATION Spec
CONSTANTS
    Items = {"bones", "tare", "broth", "sauce", "loop"}
    Preparation <- MCPreparation
    NoPreparation = NoPreparation
    Recipe <- MCRecipe
    Multiplier <- MCMultiplier
    OptionProduct <- MCOptionProduct
    OptionRecipe <- MCOptionRecipe
    PlainOptions = {"brocheta"}
    NoProduct = NoProduct
    Tickets = {1, 2}
    Lines <- MCLines
    Calls = {c1, c2}
    Minimums = {2, 4}
    Conversions <- MCConversions
    BaseUnit <- MCBaseUnit
    Deliveries <- MCDeliveries
    Corrections <- MCCorrections
    MaxEntries = 2
    MaxRollbacks = 2
    MaxChanges = 1
INVARIANTS
    ConsumedAsSold
    AlertsAgree
    OneSmsPerAlert
    ReceiptsAreWhole
SYMMETRY Symmetry
CHECK_DEADLOCK FALSE
