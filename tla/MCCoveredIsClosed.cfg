\* A line cancelled while the account is being billed leaves it covered but open.
SPECIFICATION Spec
CONSTANTS
    Product <- const_PlainProduct
    Quantities = {1, 2}
    PackageItems <- const_PackageItems
    DiscountAmounts = {2}
    PercentBps = {5000}
    PaymentAmounts = {2, 3}
    PartCounts = {2}
    MaxLines = 2
    MaxDiscounts = 0
    MaxPayments = 2
    MaxSplits = 0
INVARIANT CoveredIsClosed
\* A settled account accepts no more calls.
CHECK_DEADLOCK FALSE
