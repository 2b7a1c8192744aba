\* Two prices, two discounts and three lines; two splits on shorter accounts.
SPECIFICATION Spec
CONSTANTS
    Product <- const_VariedProduct
    Quantities = {1, 2}
    PackageItems <- const_PackageItems
    DiscountAmounts = {2}
    PercentBps = {5000, 10000}
    PaymentAmounts = {2, 3}
    PartCounts = {2}
    MaxLines = 3
    MaxDiscounts = 2
    MaxPayments = 2
    MaxSplits = 2
CONSTRAINT SmallAccount
INVARIANTS
    ReportsAgree
    TotalsAgree
    PackageMovesTogether
    BilledIsSent
    SharesAreExact
    FreeOnlyByCourtesy
    SplitLedger
    OneSplitPerLine
PROPERTIES
    EqualSplitIsExact
    SettledIsFinal
    RefinesLifecycle
\* A settled account accepts no more calls.
CHECK_DEADLOCK FALSE
