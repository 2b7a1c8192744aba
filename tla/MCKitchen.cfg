SPECIFICATION Spec
CONSTANTS
    Dishes = {"ramen", "gyoza"}
    Package = "combo"
    PackageItems <- MCPackageItems
    Stations = {1, 2}
    PrinterOf <- MCPrinterOf
    Printers = {"COCINA", "BARRA"}
    NoPrinter = NoPrinter
    MaxLines = 3
    MaxChanges = 1
    MaxStarted = 1
INVARIANTS
    CookedOnce
    RoundsAgree
    CancellationReachesTheCook
    CalledOffOnce
CHECK_DEADLOCK FALSE
