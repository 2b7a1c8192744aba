------------------------------ MODULE Kitchen ------------------------------
(***************************************************************************)
(* Rounds and the kitchen: the lines of a ticket are sent to production    *)
(* stations as station orders, the stations work through them, and a       *)
(* cancelled line is called off on the printer of a station.               *)
(*                                                                         *)
(* Which station a line belongs to is answered twice: a snapshot is taken  *)
(* when the line is captured, and the round resolves it again when it is   *)
(* sent, against a catalogue that may have changed in between (a pull from *)
(* Airtable, a maintenance script).  The order goes to one, the slip that  *)
(* calls it off to the other.                                              *)
(*                                                                         *)
(* Each action is one service call, committed as a whole; a rejected call  *)
(* is a stuttering step.                                                   *)
(***************************************************************************)
EXTENDS Integers, Sequences, FiniteSets, FiniteSetsExt

CONSTANTS
    Dishes,       \* simple products
    Package,      \* a product that is a package of them
    PackageItems, \* its components in order
    Stations,     \* ids of the production stations
    PrinterOf,    \* printer key of each station, NoPrinter if it has none
    Printers,
    NoPrinter,
    MaxLines,     \* bound: lines of the ticket
    MaxChanges,   \* bound: changes to the catalogue, and notes, during the ticket
    MaxStarted    \* bound: station orders that leave the queue

NoStation == 0

\* A component of a package, and the station that prepares it there, if it is
\* not the one that prepares the dish.
PackageItem == [product : Dishes, override : Stations \cup {NoStation}]

\* The printer key of a station, if it has one.
StationPrinters == [Stations -> Printers \cup {NoPrinter}]

\* A package has a component once (uq_package_component).
ASSUME KitchenAssumption ==
    /\ Stations \subseteq Nat \ {NoStation} /\ IsFiniteSet(Stations)
    /\ Package \notin Dishes
    /\ NoPrinter \notin Printers
    /\ PrinterOf \in StationPrinters
    /\ PackageItems \in Seq(PackageItem)
    /\ \A j, k \in DOMAIN PackageItems :
          PackageItems[j].product = PackageItems[k].product => j = k
    /\ {MaxLines, MaxChanges, MaxStarted} \subseteq Nat

VARIABLES
    ticket,     \* Ticket.status
    lines,      \* TicketLine rows in id order
    orders,     \* StationOrder rows in id order, each with its lines
    slips,      \* PrintJob rows that are sent to stations
    batches,    \* CommandBatch rows: the rounds sent
    primaries,  \* stations with an active primary assignment, for each dish
    openStations,  \* stations that are active
    openPrinters,  \* printers that are active
    changes,    \* catalogue changes and notes so far
    unsettled   \* history: lines for which the two answers may differ

catalogue == <<primaries, openStations, openPrinters>>

vars == <<ticket, lines, orders, slips, batches, catalogue, changes, unsettled>>

Open      == "Abierto"
InPayment == "En cobro"
Paid      == "Cobrado"
Cancelled == "Cancelado"

Simple    == "Simple"
Parent    == "Paquete padre"
Component == "Componente de paquete"

Captured      == "Capturado"
SentToKitchen == "Enviado a comanda"
Printed       == "Impreso"

Queued        == "En cola"
Received      == "Recibida"
InPreparation == "En preparacion"
Completed     == "Terminada"
Delivered     == "Entregada"

Command      == "Comanda"
Cancellation == "Cancelacion comanda"
Modification == "Modificacion"

SentLineStatuses == {SentToKitchen, Printed}

ActiveTicket == ticket \in {Open, InPayment}

-----------------------------------------------------------------------------
(* Where a line goes.                                                      *)

\* _primary_station_id: the oldest active primary assignment, whether or not
\* its station is active.
PrimaryStation(p) == IF primaries[p] = {} THEN NoStation ELSE Min(primaries[p])

\* [Defect] The newest assignment is preferred to the snapshot.
ResolvedNewest(l) ==
    LET current == primaries[l.product] \cap openStations
    IN  IF current # {} THEN Max(current)
        ELSE IF l.snapshot \in openStations THEN l.snapshot ELSE NoStation

\* _resolve_station: the snapshot while its station is active, otherwise the
\* newest active primary assignment to an active station.
Resolved(l) ==
    LET current == primaries[l.product] \cap openStations
    IN  IF l.snapshot \in openStations THEN l.snapshot
        ELSE IF current = {} THEN NoStation ELSE Max(current)

\* A line whose snapshot is unavailable and has no substitute rejects the round.
Resolvable(l) == l.snapshot = NoStation \/ Resolved(l) # NoStation

\* get_active_printer for the printer key of a station
CanPrint(s) == PrinterOf[s] \in openPrinters

\* [Defect] Lines that were sent before are sent again.
LinesNotCancelled == {i \in DOMAIN lines : lines[i].status # Cancelled}

CapturedLines == {i \in DOMAIN lines : lines[i].status = Captured}

\* The captured lines that a round sends to some station.
Producible == {i \in CapturedLines : lines[i].kind # Parent /\ Resolved(lines[i]) # NoStation}

OrdersOf(i) == {o \in DOMAIN orders : i \in orders[o].lines}

-----------------------------------------------------------------------------
\* A dish is assigned to a station once (uq_product_station_assignment).
Assignments == [Dishes -> SUBSET Stations]

Init ==
    /\ ticket = Open
    /\ lines = <<>>
    /\ orders = <<>>
    /\ slips = {}
    /\ batches = {}
    /\ primaries \in Assignments
    /\ openStations = Stations
    /\ openPrinters = Printers
    /\ changes = 0
    /\ unsettled = {}

-----------------------------------------------------------------------------
(* The waiter.                                                             *)

NewLine(kind, p, parent, station) ==
    [kind |-> kind, product |-> p, parent |-> parent, snapshot |-> station,
     round |-> 0, status |-> Captured]

ComponentLine(item, parent) ==
    NewLine(Component, item.product, parent,
            IF item.override # NoStation THEN item.override ELSE PrimaryStation(item.product))

\* add_product_to_ticket
Capture(new) ==
    /\ ticket = Open
    /\ Len(lines) + Len(new) <= MaxLines
    /\ lines' = lines \o new
    /\ UNCHANGED <<ticket, orders, slips, batches, catalogue, changes, unsettled>>

AddProduct(p) == Capture(<<NewLine(Simple, p, 0, PrimaryStation(p))>>)

\* The line of the package itself goes nowhere: its own station is not read.
AddPackage ==
    Capture(<<NewLine(Parent, Package, 0, NoStation)>>
              \o [k \in DOMAIN PackageItems |-> ComponentLine(PackageItems[k], Len(lines) + 1)])

NewOrder(s, n) ==
    [station |-> s, round |-> n, status |-> Queued,
     lines |-> {i \in Producible : Resolved(lines[i]) = s}]

\* The stations of a round in the order of their ids.
StationsInOrder(S) == CHOOSE q \in [1..Cardinality(S) -> S] :
                          \A a, b \in DOMAIN q : a < b => q[a] < q[b]

CommandSlip(o, s) ==
    [type |-> Command, printer |-> PrinterOf[s], order |-> o, line |-> 0, key |-> "COMANDA"]

LastRound == Max({0} \cup batches)

\* send_round: nothing is sent unless every line has a station, or needs none,
\* and every station can print.
SendRound ==
    LET targets == {Resolved(lines[i]) : i \in Producible}
        route   == StationsInOrder(targets)
        n       == LastRound + 1
    IN  /\ ActiveTicket
        /\ CapturedLines # {}
        /\ \A i \in CapturedLines : lines[i].kind # Parent => Resolvable(lines[i])
        /\ \A s \in targets : CanPrint(s)
        /\ batches' = batches \cup {n}
        /\ orders' = orders \o [k \in DOMAIN route |-> NewOrder(route[k], n)]
        /\ slips' = slips \cup {CommandSlip(Len(orders) + k, route[k]) : k \in DOMAIN route}
        /\ lines' = [i \in DOMAIN lines |->
              IF i \in CapturedLines
              THEN [lines[i] EXCEPT !.status = IF i \in Producible THEN SentToKitchen ELSE Printed,
                                    !.round = n]
              ELSE lines[i]]
        /\ unsettled' = unsettled \cup
              {i \in Producible : lines[i].snapshot \notin openStations \cup {NoStation}}
        /\ UNCHANGED <<ticket, catalogue, changes>>

-----------------------------------------------------------------------------
(* Cancellations.                                                          *)

\* [Defect] Lines that were cancelled before are announced once more.
AnnouncedTwice(S) ==
    {i \in S : lines[i].kind # Parent /\ lines[i].status # Captured /\ lines[i].snapshot # NoStation}

\* The lines among S whose cancellation is announced.
Announced(S) ==
    {i \in S : /\ lines[i].kind # Parent
               /\ lines[i].status \in SentLineStatuses
               /\ lines[i].snapshot # NoStation}

\* create_cancellation_print_job: the slip goes to the station of the snapshot
\* and names the latest order of the line.
CancellationSlip(i, key) ==
    [type |-> Cancellation, printer |-> PrinterOf[lines[i].snapshot],
     order |-> Max({0} \cup OrdersOf(i)), line |-> i, key |-> key]

\* The lines of S are cancelled and announced; the call is rejected when one
\* of the printers cannot take its slip.
CancelLines(S, key) ==
    /\ \A i \in Announced(S) : CanPrint(lines[i].snapshot)
    /\ slips' = slips \cup {CancellationSlip(i, key) : i \in Announced(S)}
    /\ lines' = [i \in DOMAIN lines |->
                    IF i \in S THEN [lines[i] EXCEPT !.status = Cancelled] ELSE lines[i]]

\* [Defect] Only the package is cancelled.
PackageAlone(i) == {i}

CancelTargets(i) ==
    {i} \cup {j \in DOMAIN lines : lines[j].parent = i /\ lines[j].status # Cancelled}

\* cancel_ticket_line
CancelLine(i) ==
    /\ ActiveTicket
    /\ lines[i].status # Cancelled
    /\ lines[i].kind = Component => lines[lines[i].parent].status = Cancelled
    /\ CancelLines(CancelTargets(i), "CANCEL_LINE")
    /\ UNCHANGED <<ticket, orders, batches, catalogue, changes, unsettled>>

\* cancel_ticket
CancelTicket ==
    /\ ActiveTicket
    /\ ticket' = Cancelled
    /\ CancelLines(DOMAIN lines, "CANCEL_TICKET")
    /\ UNCHANGED <<orders, batches, catalogue, changes, unsettled>>

\* modify_ticket_line with a note on a line that was sent: a slip goes to the
\* station of its latest order, if it has one.
NoteLine(i) ==
    LET o == Max(OrdersOf(i))
    IN  /\ ActiveTicket
        /\ lines[i].status \in SentLineStatuses
        /\ OrdersOf(i) # {}
        /\ CanPrint(orders[o].station)
        /\ changes < MaxChanges
        /\ changes' = changes + 1
        /\ slips' = slips \cup {[type |-> Modification, printer |-> PrinterOf[orders[o].station],
                                 order |-> o, line |-> i, key |-> "MODIFICACION"]}
        /\ UNCHANGED <<ticket, lines, orders, batches, catalogue, unsettled>>

-----------------------------------------------------------------------------
(* The cashier and the cooks.                                              *)

\* start_payment, as far as the kitchen is concerned
StartPayment ==
    /\ ticket = Open
    /\ \E i \in DOMAIN lines : lines[i].status # Cancelled
    /\ CapturedLines = {}
    /\ ticket' = InPayment
    /\ UNCHANGED <<lines, orders, slips, batches, catalogue, changes, unsettled>>

\* create_payment, the one that covers the total
Settle ==
    /\ ticket = InPayment
    /\ CapturedLines = {}
    /\ ticket' = Paid
    /\ UNCHANGED <<lines, orders, slips, batches, catalogue, changes, unsettled>>

\* transition_station_order: from one status to the next.  Neither the ticket
\* nor the lines are looked at.
Transition(o, from, to) ==
    /\ orders[o].status = from
    /\ Cardinality({o} \cup {p \in DOMAIN orders : orders[p].status # Queued}) <= MaxStarted
    /\ orders' = [orders EXCEPT ![o].status = to]
    /\ UNCHANGED <<ticket, lines, slips, batches, catalogue, changes, unsettled>>

ReceiveOrder(o)  == Transition(o, Queued, Received)
StartOrder(o)    == Transition(o, Received, InPreparation)
CompleteOrder(o) == Transition(o, InPreparation, Completed)
DeliverOrder(o)  == Transition(o, Completed, Delivered)

-----------------------------------------------------------------------------
(* The catalogue, changed by a pull or by a script.                        *)

\* Lines not yet sent were captured under the old catalogue.
CatalogueChanges ==
    /\ changes < MaxChanges
    /\ changes' = changes + 1
    /\ UNCHANGED <<ticket, lines, orders, slips, batches>>

AssignProduct(p, S) ==
    /\ CatalogueChanges
    /\ S # primaries[p]
    /\ primaries' = [primaries EXCEPT ![p] = S]
    /\ unsettled' = unsettled \cup {i \in CapturedLines : lines[i].snapshot = NoStation}
    /\ UNCHANGED <<openStations, openPrinters>>

Toggled(S, x) == IF x \in S THEN S \ {x} ELSE S \cup {x}

ToggleStation(s) ==
    /\ CatalogueChanges
    /\ openStations' = Toggled(openStations, s)
    /\ UNCHANGED <<primaries, openPrinters, unsettled>>

TogglePrinter(k) ==
    /\ CatalogueChanges
    /\ openPrinters' = Toggled(openPrinters, k)
    /\ UNCHANGED <<primaries, openStations, unsettled>>

Next ==
    \/ \E p \in Dishes : AddProduct(p)
    \/ AddPackage
    \/ SendRound
    \/ \E i \in DOMAIN lines : CancelLine(i) \/ NoteLine(i)
    \/ CancelTicket
    \/ StartPayment
    \/ Settle
    \/ \E o \in DOMAIN orders :
          ReceiveOrder(o) \/ StartOrder(o) \/ CompleteOrder(o) \/ DeliverOrder(o)
    \/ \E p \in Dishes, S \in SUBSET Stations : AssignProduct(p, S)
    \/ \E s \in Stations : ToggleStation(s)
    \/ \E k \in Printers : TogglePrinter(k)

Spec == Init /\ [][Next]_vars

-----------------------------------------------------------------------------
(* Properties.                                                             *)

LineRow == [kind : {Simple, Parent, Component}, product : Dishes \cup {Package}, parent : Nat,
            snapshot : Stations \cup {NoStation}, round : Nat,
            status : {Captured, SentToKitchen, Printed, Cancelled}]

OrderRow == [station : Stations, round : Nat \ {0}, lines : SUBSET Nat,
             status : {Queued, Received, InPreparation, Completed, Delivered}]

BatchRow == Nat \ {0}

SlipRow == [type : {Command, Cancellation, Modification}, printer : Printers,
            order : Nat, line : Nat,
            key : {"COMANDA", "CANCEL_LINE", "CANCEL_TICKET", "MODIFICACION"}]

TypeOK ==
    /\ ticket \in {Open, InPayment, Paid, Cancelled}
    /\ lines \in Seq(LineRow)
    /\ orders \in Seq(OrderRow)
    /\ slips \subseteq SlipRow
    /\ batches \subseteq BatchRow
    /\ primaries \in Assignments
    /\ openStations \subseteq Stations
    /\ openPrinters \subseteq Printers
    /\ changes \in 0..MaxChanges
    /\ unsettled \subseteq DOMAIN lines

\* No dish is ordered from two stations or in two rounds, a line waits in the
\* kitchen exactly when some station has it, and a line that needs no station
\* is in no order, whatever the catalogue does meanwhile (send_round).
CookedOnce ==
    \A i \in DOMAIN lines :
        /\ Cardinality(OrdersOf(i)) <= 1
        /\ lines[i].status = SentToKitchen => OrdersOf(i) # {}
        /\ lines[i].status \in {Captured, Printed} => OrdersOf(i) = {}

\* A package leaves in one round, and an order holds lines of its own round
\* only, although components may go to different stations (send_round).
RoundsAgree ==
    /\ \A o \in DOMAIN orders : \A i \in orders[o].lines : lines[i].round = orders[o].round
    /\ \A i \in DOMAIN lines :
          lines[i].parent # 0 => lines[i].round = lines[lines[i].parent].round

CancellationsOf(i) == {x \in slips : x.type = Cancellation /\ x.line = i}

\* A dish that some station was told to cook and that is cancelled is called
\* off on the printer of that very station, unless the catalogue gave the
\* line another station between its capture and its round
\* (create_cancellation_print_job against _resolve_station).
CancellationReachesTheCook ==
    \A i \in DOMAIN lines \ unsettled :
        lines[i].status = Cancelled =>
            \A o \in OrdersOf(i) :
                \E x \in CancellationsOf(i) :
                    x.order = o /\ x.printer = PrinterOf[orders[o].station]

\* A line is called off once at most, by whichever of the two cancellations
\* came first, and only after a station was told to cook it
\* (cancel_ticket_line, cancel_ticket: their slips have different keys).
CalledOffOnce ==
    \A i \in DOMAIN lines :
        /\ Cardinality(CancellationsOf(i)) <= 1
        /\ CancellationsOf(i) # {} => lines[i].status = Cancelled /\ OrdersOf(i) # {}

=============================================================================
