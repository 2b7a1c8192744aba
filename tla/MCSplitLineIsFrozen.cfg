\* A package takes its components along although they are in a live split.
SPECIFICATION Spec
CONSTANTS
    Product <- const_PlainProduct
    Quantities = {1, 2}
    PackageItems <- const_PackageItems
    DiscountAmounts = {2}
    PercentBps = {5000}
    PaymentAmounts = {2, 3}
    PartCounts = {2}
    MaxLines = 2
    MaxDiscounts = 0
    MaxPayments = 0
    MaxSplits = 2
PROPERTY SplitLineIsFrozen
\* A settled account accepts no more calls.
CHECK_DEADLOCK FALSE
