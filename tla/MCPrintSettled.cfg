\* One worker, two printers and a third one, last in its configuration, that is inactive.
SPECIFICATION FairSpec
CONSTANTS
    Workers = {w1}
    Clerks = {c1}
    Printers = 3
    Inactive = {3}
    CashPrinter = 2
    NoWorker = NoWorker
    Documents = {"Comanda", "Ticket", "Corte"}
    MaxJobs = 3
    MaxAttempts = 2
    MaxFaults = 0
PROPERTY EveryJobIsSettled
