----------------------------- MODULE Inventory -----------------------------
(***************************************************************************)
(* Stock as a ledger of signed movements: what sales consume through       *)
(* recipes and preparations, what receipts bring in, the alert each        *)
(* movement may open or resolve, and the SMS an alert sends.               *)
(*                                                                         *)
(* A call runs in one database transaction.  What it does to the tables is *)
(* taken back when it fails half way, what it sent to the SMS gateway is   *)
(* not; so a call is a sequence of movements applied to a copy of the      *)
(* tables, which is committed, or dropped after any of them.  Two calls    *)
(* that close the same ticket may both have loaded it before either took   *)
(* the write lock.                                                         *)
(***************************************************************************)
EXTENDS Integers, Sequences, FiniteSets, FiniteSetsExt, SequencesExt

CONSTANTS
    Items,          \* InventoryItem rows
    Preparation,    \* for each item, the active preparation it results from, or NoPreparation
    NoPreparation,
    Recipe,         \* active recipe of each product
    Multiplier,     \* Product.inventory_recipe_multiplier
    OptionProduct,  \* product that a variant option stands for, or NoProduct
    OptionRecipe,   \* active recipe of each variant option
    PlainOptions,   \* options of the group "BROCHETAS", which ignores the multiplier
    NoProduct,
    Tickets, Lines, \* Lines[t]: the lines of a ticket being billed
    Calls,          \* requests that can be closing tickets at the same time
    Minimums,       \* values of InventoryItem.minimum_stock_qty
    Conversions,    \* active UnitConversion rows
    BaseUnit,       \* unit in which each item is kept
    Deliveries,     \* receipts: sequences of [item, quantity, unit]
    Corrections,    \* manual movements: [item, type, quantity, unit]
    MaxEntries,     \* bound: receipts and manual movements
    MaxRollbacks,   \* bound: calls that are rolled back after a write
    MaxChanges      \* bound: changes to the catalogue, the gateway and the shift

NoTicket == 0

Need            == [item : Items, quantity : Nat]
PreparationRows == [yield : Int, recipe : Seq(Need)]
RecipeRows      == [item : Items, quantity : Nat \ {0}]
OptionRows      == [item : Items, quantity : Nat \ {0}]
ConversionRows  == [from : STRING, to : STRING, factor : Int]
ReceiptLineRow  == [item : Items, quantity : Int, unit : STRING]
SelectionRows   == [option : DOMAIN OptionRecipe, quantity : Nat \ {0}]
LineRows        == [product : DOMAIN Recipe, quantity : Nat \ {0}, consumable : BOOLEAN,
                    selections : Seq(SelectionRows)]

Purchase        == "Compra"
AdjustmentIn    == "Ajuste entrada"
AdjustmentOut   == "Ajuste salida"
Waste           == "Merma"
SaleConsumption == "Consumo venta"

CorrectionRows ==
    [item : Items, type : {Purchase, AdjustmentIn, AdjustmentOut, Waste, SaleConsumption},
     quantity : Int, unit : STRING]

ASSUME InventoryAssumption ==
    /\ IsFiniteSet(Items) /\ IsFiniteSet(Tickets)
    /\ Tickets \subseteq Nat \ {NoTicket}
    /\ Lines \in [Tickets -> Seq(LineRows)]
    /\ NoPreparation \notin PreparationRows
    /\ Preparation \in [Items -> PreparationRows \cup {NoPreparation}]
    /\ \A p \in DOMAIN Recipe : Recipe[p] \in Seq(RecipeRows)
    /\ \A o \in DOMAIN OptionRecipe : OptionRecipe[o] \in Seq(OptionRows)
    /\ Multiplier \in [DOMAIN Recipe -> Nat \ {0}]
    /\ OptionProduct \in [DOMAIN OptionRecipe -> DOMAIN Recipe \cup {NoProduct}]
    /\ NoProduct \notin DOMAIN Recipe
    /\ Conversions \subseteq ConversionRows
    /\ \A c, d \in Conversions : c.from = d.from /\ c.to = d.to => c = d
    /\ BaseUnit \in [Items -> STRING]
    /\ Minimums \subseteq Nat
    /\ Deliveries \subseteq Seq(ReceiptLineRow)
    /\ Corrections \subseteq CorrectionRows
    /\ {MaxEntries, MaxRollbacks, MaxChanges} \subseteq Nat

VARIABLES
    db,        \* the committed tables: moves, alerts, sms, receipts
    status,    \* Ticket.status
    slips,     \* tickets with a print job TICKET:{id}
    loaded,    \* ticket that each closing call has read, or NoTicket
    active,    \* items that are active
    minimum,   \* InventoryItem.minimum_stock_qty
    gatewayUp, \* whether LabsMobile accepts messages
    shiftOpen, \* whether a cash shift is open
    texted,    \* messages the gateway took, by item
    entries, rollbacks, changes,
    lost,      \* history: messages sent by calls that were rolled back, by item
    judged     \* history: minimum that each item was last compared with

vars == <<db, status, slips, loaded, active, minimum, gatewayUp, shiftOpen, texted,
          entries, rollbacks, changes, lost, judged>>

environment == <<active, minimum, gatewayUp, shiftOpen, changes>>

InPayment == "En cobro"
Paid      == "Cobrado"

TicketLine    == "Linea ticket"
VariantOption == "Opcion variante"
ReceiptLine   == "PurchaseReceiptLine"
Manual        == "Manual"

Low   == "Stock bajo"
Out   == "Sin stock"
Right == "Correcto"

OpenAlert == "Abierta"
Resolved  == "Resuelta"

Sent   == "Enviada"
Failed == "Fallida"

\* MOVEMENT_SIGNS
Sign == [m \in {Purchase, AdjustmentIn, AdjustmentOut, Waste, SaleConsumption} |->
            IF m \in {Purchase, AdjustmentIn} THEN 1 ELSE -1]

Total(s) == SumFunction(s)

-----------------------------------------------------------------------------
(* One movement: the ledger, the alert of its item, the message.           *)

\* get_current_stock
Stock(d, i) ==
    Total([k \in DOMAIN d.moves |-> IF d.moves[k].item = i THEN d.moves[k].signed ELSE 0])

\* [Defect] An item at its minimum is not low yet.
StockStatusBelow(current, min) ==
    IF current <= 0 THEN Out ELSE IF current < min THEN Low ELSE Right

StockStatus(current, min) ==
    IF current <= 0 THEN Out ELSE IF current <= min THEN Low ELSE Right

OpenAlertsOf(d, i) ==
    {a \in DOMAIN d.alerts : d.alerts[a].item = i /\ d.alerts[a].status = OpenAlert}

\* [Defect] Only messages that were taken leave a row.
SendSmsOnSuccess(d, a) ==
    IF ~gatewayUp THEN d
    ELSE [d EXCEPT !.sms = Append(@, [alert |-> a, status |-> Sent]),
                   !.texts[d.alerts[a].item] = @ + 1]

\* send_sms: one row per alert, whatever the gateway answers.
SendSms(d, a) ==
    IF \E k \in DOMAIN d.sms : d.sms[k].alert = a THEN d
    ELSE [d EXCEPT !.sms = Append(@, [alert |-> a, status |-> IF gatewayUp THEN Sent ELSE Failed]),
                   !.texts[d.alerts[a].item] = IF gatewayUp THEN @ + 1 ELSE @]

OpenNew(d, i, current, found) ==
    SendSms([d EXCEPT !.alerts = Append(@, [item |-> i, status |-> OpenAlert, type |-> found,
                                           quantity |-> current, threshold |-> minimum[i]])],
            Len(d.alerts) + 1)

Updated(alert, current, found) ==
    IF found = Right THEN [alert EXCEPT !.quantity = current, !.status = Resolved]
    ELSE [alert EXCEPT !.quantity = current, !.type = found, !.threshold = minimum[alert.item]]

\* evaluate_stock_alert: opens, updates or resolves the alert of the item.
Evaluate(d, i) ==
    LET current == Stock(d, i)
        found   == StockStatus(current, minimum[i])
        open    == OpenAlertsOf(d, i)
    IN  IF open = {}
        THEN IF found = Right THEN d ELSE OpenNew(d, i, current, found)
        ELSE [d EXCEPT !.alerts[Min(open)] = Updated(@, current, found)]

\* A movement that cannot be made: a preparation in a cycle, without yield or
\* without recipe.
Broken == [item |-> "none"]

\* create_inventory_movement: d.ok turns FALSE when the call must be given up.
Move(d, m) ==
    IF ~d.ok THEN d
    ELSE IF m = Broken \/ m.item \notin active \/ m.quantity <= 0 THEN [d EXCEPT !.ok = FALSE]
    ELSE Evaluate([d EXCEPT !.moves = Append(@,
                       [item |-> m.item, type |-> m.type, source |-> m.source, of |-> m.of,
                        signed |-> m.quantity * Sign[m.type]])],
                  m.item)

\* The tables as a transaction sees them, with the messages it sends.
Begun == [moves |-> db.moves, alerts |-> db.alerts, sms |-> db.sms,
          texts |-> [i \in Items |-> 0], ok |-> TRUE]

Apply(movements) == FoldLeft(Move, Begun, movements)

-----------------------------------------------------------------------------
(* What a sale consumes.                                                   *)

Scaled(recipe, n) == [k \in DOMAIN recipe |-> [recipe[k] EXCEPT !.quantity = @ * n]]

\* _create_sale_consumption_movements_expanding_preparations: the raw items a
\* quantity of an item stands for, below the preparations in path.
Expansion[path \in SUBSET Items] ==
    [need \in Need |->
        LET prep == Preparation[need.item]
        IN  IF prep = NoPreparation THEN <<need>>
            ELSE IF need.item \in path \/ prep.yield <= 0 \/ prep.recipe = <<>> THEN <<Broken>>
            ELSE FlattenSeq([k \in DOMAIN prep.recipe |->
                     Expansion[path \cup {need.item}]
                       [[item |-> prep.recipe[k].item,
                         quantity |-> (need.quantity * prep.recipe[k].quantity) \div prep.yield]]])]

Expanded(need) == Expansion[{}][need]

ExpandedAll(needs) == FlattenSeq([k \in DOMAIN needs |-> Expanded(needs[k])])

\* The movements for needs of ticket t.
Consumption(t, needs, source) ==
    [k \in DOMAIN needs |->
        IF needs[k] = Broken THEN Broken
        ELSE [item |-> needs[k].item, quantity |-> needs[k].quantity,
              type |-> SaleConsumption, source |-> source, of |-> t]]

\* What one chosen variant option adds to a line.
SelectionNeeds(line, s) ==
    LET p == OptionProduct[s.option]
        n == line.quantity * s.quantity
    IN  (IF p = NoProduct THEN <<>>
         ELSE Scaled(Recipe[p], n * (IF s.option \in PlainOptions THEN 1 ELSE Multiplier[p])))
        \o Scaled(OptionRecipe[s.option], n)

LineMovements(t, line) ==
    IF ~line.consumable THEN <<>>
    ELSE Consumption(t, ExpandedAll(Scaled(Recipe[line.product],
                                           line.quantity * Multiplier[line.product])), TicketLine)
         \o Consumption(t, ExpandedAll(FlattenSeq([k \in DOMAIN line.selections |->
                                           SelectionNeeds(line, line.selections[k])])), VariantOption)

\* consume_inventory_for_paid_ticket: parents of packages and cancelled lines
\* are not consumable.
Requirement ==
    [t \in Tickets |-> FlattenSeq([k \in DOMAIN Lines[t] |-> LineMovements(t, Lines[t][k])])]

-----------------------------------------------------------------------------
Init ==
    /\ db = [moves |-> <<>>, alerts |-> <<>>, sms |-> <<>>, receipts |-> <<>>]
    /\ status = [t \in Tickets |-> InPayment]
    /\ slips = {}
    /\ loaded = [c \in Calls |-> NoTicket]
    /\ active = Items
    /\ \E m \in Minimums : minimum = [i \in Items |-> m]
    /\ gatewayUp = TRUE
    /\ shiftOpen = TRUE
    /\ texted = [i \in Items |-> 0]
    /\ entries = 0 /\ rollbacks = 0 /\ changes = 0
    /\ lost = [i \in Items |-> 0]
    /\ judged = minimum

-----------------------------------------------------------------------------
(* Transactions.                                                           *)

Plus(f, g) == [i \in Items |-> f[i] + g[i]]

\* The call commits the tables d.
Commit(d, receipts) ==
    /\ d.ok
    /\ db' = [moves |-> d.moves, alerts |-> d.alerts, sms |-> d.sms, receipts |-> receipts]
    /\ texted' = Plus(texted, d.texts)
    /\ judged' = [i \in Items |->
          IF \E k \in (Len(db.moves) + 1)..Len(d.moves) : d.moves[k].item = i
          THEN minimum[i] ELSE judged[i]]
    /\ UNCHANGED <<lost, rollbacks>>

\* The call is rolled back after what it did to d: only its messages remain.
Rollback(d) ==
    /\ rollbacks < MaxRollbacks
    /\ rollbacks' = rollbacks + 1
    /\ texted' = Plus(texted, d.texts)
    /\ lost' = Plus(lost, d.texts)
    /\ UNCHANGED <<db, judged>>

\* The process dies while it is making these movements.
Dies(movements) == \E k \in 1..Len(movements) : Rollback(Apply(SubSeq(movements, 1, k)))

-----------------------------------------------------------------------------
(* Closing a ticket.                                                       *)

\* The call that covers the total, or the courtesy that leaves nothing to pay,
\* loads its ticket.
LoadTicket(c, t) ==
    /\ loaded[c] = NoTicket
    /\ status[t] = InPayment
    /\ loaded' = [loaded EXCEPT ![c] = t]
    /\ UNCHANGED <<db, status, slips, texted, entries, rollbacks, lost, judged, environment>>

\* [Defect] The print job of the ticket is found instead of created again.
SlipFreeAlways(t) == TRUE

\* create_ticket_print_job: PrintJob.idempotency_key is unique.
SlipFree(t) == t \notin slips

\* create_payment and _close_zero_total_courtesy_ticket: the ticket is marked
\* as paid, its stock is consumed and its print job created; status and
\* inventory_consumed_at are those of the ticket as it was loaded.
CloseTicket(c) ==
    LET t == loaded[c]
        d == Apply(Requirement[t])
    IN  /\ t # NoTicket
        /\ loaded' = [loaded EXCEPT ![c] = NoTicket]
        /\ UNCHANGED <<entries, environment>>
        /\ \/ /\ SlipFree(t)
              /\ Commit(d, db.receipts)
              /\ status' = [status EXCEPT ![t] = Paid]
              /\ slips' = slips \cup {t}
           \/ /\ \/ (~d.ok \/ ~SlipFree(t)) /\ Rollback(d)
                 \/ Dies(Requirement[t])
              /\ UNCHANGED <<status, slips>>

-----------------------------------------------------------------------------
(* The store room.                                                         *)

\* [Defect] The inverse of a conversion multiplies too.
ConvertedForward(q, unit, base) ==
    IF unit = base THEN q
    ELSE LET f == CHOOSE c \in Conversions : {c.from, c.to} = {unit, base} IN q * f.factor

Factors(u, v) == {c.factor : c \in {x \in Conversions : x.from = u /\ x.to = v}}

\* convert_quantity: the conversion from unit to base, or else the inverse of
\* the one from base to unit.
Converted(q, unit, base) ==
    IF unit = base THEN q
    ELSE IF Factors(unit, base) # {} THEN q * (CHOOSE f \in Factors(unit, base) : TRUE)
    ELSE q \div (CHOOSE f \in Factors(base, unit) : TRUE)

Convertible(unit, base) ==
    \/ unit = base
    \/ \E f \in Factors(unit, base) : f > 0
    \/ Factors(unit, base) = {} /\ \E f \in Factors(base, unit) : f > 0

\* Every line is checked before anything is written.
Acceptable(l) == l.item \in active /\ l.quantity > 0 /\ Convertible(l.unit, BaseUnit[l.item])

MovementOf(l, type, source, of) ==
    [item |-> l.item, quantity |-> Converted(l.quantity, l.unit, BaseUnit[l.item]),
     type |-> type, source |-> source, of |-> of]

ReceiptMovements(delivery) ==
    [k \in DOMAIN delivery |->
        MovementOf(delivery[k], Purchase, ReceiptLine, Len(db.receipts) + 1)]

\* process_purchase_receipt: a delivery paid on the spot is also an expense of
\* the open shift.
ProcessReceipt(delivery, paid) ==
    LET movements == ReceiptMovements(delivery)
    IN  /\ entries < MaxEntries
        /\ entries' = entries + 1
        /\ paid => shiftOpen
        /\ \A k \in DOMAIN delivery : Acceptable(delivery[k])
        /\ \/ Commit(Apply(movements),
                     Append(db.receipts, [delivery |-> delivery, expense |-> paid]))
           \/ Dies(movements)
        /\ UNCHANGED <<status, slips, loaded, environment>>

\* The movements endpoint: an adjustment, waste, or any other type.
CorrectStock(x) ==
    LET movements == <<MovementOf(x, x.type, Manual, 0)>>
    IN  /\ entries < MaxEntries
        /\ entries' = entries + 1
        /\ Acceptable(x)
        /\ Commit(Apply(movements), db.receipts) \/ Dies(movements)
        /\ UNCHANGED <<status, slips, loaded, environment>>

-----------------------------------------------------------------------------
(* What changes around: the catalogue, the gateway, the shift.             *)

Changes ==
    /\ changes < MaxChanges
    /\ changes' = changes + 1
    /\ UNCHANGED <<db, status, slips, loaded, texted, entries, rollbacks, lost, judged>>

\* A pull changes an item; no alert is evaluated.
DeactivateItem(i) ==
    /\ Changes
    /\ i \in active
    /\ active' = active \ {i}
    /\ UNCHANGED <<minimum, gatewayUp, shiftOpen>>

ChangeMinimum(i, m) ==
    /\ Changes
    /\ minimum' = [minimum EXCEPT ![i] = m]
    /\ UNCHANGED <<active, gatewayUp, shiftOpen>>

GatewayChanges ==
    /\ Changes
    /\ gatewayUp' = ~gatewayUp
    /\ UNCHANGED <<active, minimum, shiftOpen>>

ShiftChanges ==
    /\ Changes
    /\ shiftOpen' = ~shiftOpen
    /\ UNCHANGED <<active, minimum, gatewayUp>>

Next ==
    \/ \E c \in Calls, t \in Tickets : LoadTicket(c, t)
    \/ \E c \in Calls : CloseTicket(c)
    \/ \E delivery \in Deliveries, paid \in BOOLEAN : ProcessReceipt(delivery, paid)
    \/ \E x \in Corrections : CorrectStock(x)
    \/ \E i \in Items : DeactivateItem(i)
    \/ \E i \in Items, m \in Minimums : ChangeMinimum(i, m)
    \/ GatewayChanges
    \/ ShiftChanges

Spec == Init /\ [][Next]_vars

-----------------------------------------------------------------------------
(* Properties.                                                             *)

MovementRow == [item : Items, type : DOMAIN Sign, signed : Int,
                source : {TicketLine, VariantOption, ReceiptLine, Manual},
                of : Nat]

AlertRow == [item : Items, status : {OpenAlert, Resolved}, type : {Low, Out},
             quantity : Int, threshold : Nat]

ReceiptRow == [delivery : Deliveries, expense : BOOLEAN]

\* What changes of an InventoryItem.
ItemRows == [minimum : [Items -> Minimums], active : SUBSET Items]

SmsRow == [alert : Nat \ {0}, status : {Sent, Failed}]

TypeOK ==
    /\ db.moves \in Seq(MovementRow)
    /\ db.alerts \in Seq(AlertRow)
    /\ db.sms \in Seq(SmsRow)
    /\ db.receipts \in Seq(ReceiptRow)
    /\ status \in [Tickets -> {InPayment, Paid}]
    /\ slips \subseteq Tickets
    /\ loaded \in [Calls -> Tickets \cup {NoTicket}]
    /\ [minimum |-> minimum, active |-> active] \in ItemRows
    /\ texted \in [Items -> Nat]
    /\ lost \in [Items -> Nat]
    /\ judged \in [Items -> Nat]

\* How much of each raw item a unit of an item is made of, without order.
Content[depth \in 0..Cardinality(Items)] ==
    [i \in Items |-> [raw \in Items |->
        LET prep == Preparation[i]
        IN  IF prep = NoPreparation THEN (IF i = raw THEN 1 ELSE 0)
            ELSE IF depth = 0 THEN 0
            ELSE Total([k \in DOMAIN prep.recipe |->
                     prep.recipe[k].quantity * Content[depth - 1][prep.recipe[k].item][raw]])
                 \div prep.yield]]

ContentOf(needs, raw) ==
    Total([k \in DOMAIN needs |-> needs[k].quantity * Content[Cardinality(Items)][needs[k].item][raw]])

SoldIn(line, raw) ==
    line.quantity *
       (Multiplier[line.product] * ContentOf(Recipe[line.product], raw)
        + Total([k \in DOMAIN line.selections |->
              LET s == line.selections[k]
                  p == OptionProduct[s.option]
              IN  s.quantity * (ContentOf(OptionRecipe[s.option], raw)
                    + IF p = NoProduct THEN 0
                      ELSE ContentOf(Recipe[p], raw)
                             * (IF s.option \in PlainOptions THEN 1 ELSE Multiplier[p]))]))

Sold ==
    [t \in Tickets |-> [raw \in Items |->
        Total([k \in DOMAIN Lines[t] |->
            IF Lines[t][k].consumable THEN SoldIn(Lines[t][k], raw) ELSE 0])]]

ConsumedBy(t, raw) ==
    Total([k \in DOMAIN db.moves |->
        IF db.moves[k].type = SaleConsumption /\ db.moves[k].of = t /\ db.moves[k].item = raw
        THEN -db.moves[k].signed ELSE 0])

\* get_inventory_consumption: what movements of one type took or brought.
Reported(type, i) ==
    Total([k \in DOMAIN db.moves |->
        IF db.moves[k].type = type /\ db.moves[k].item = i
        THEN db.moves[k].signed * Sign[type] ELSE 0])

\* What a clerk entered by hand as consumed by sales.
EnteredAsSold(i) ==
    Total([k \in DOMAIN db.moves |->
        IF db.moves[k].type = SaleConsumption /\ db.moves[k].source = Manual /\ db.moves[k].item = i
        THEN -db.moves[k].signed ELSE 0])

\* A paid ticket has consumed the raw content of what it sold, exactly once,
\* and any other ticket nothing, whichever calls tried to close it, died or
\* were refused half way; the results of preparations are not consumed, and
\* the consumption report shows these sales and what a clerk entered by hand
\* as such, nothing else (consume_inventory_for_paid_ticket,
\* create_ticket_print_job, get_inventory_consumption).
ConsumedAsSold ==
    /\ \A t \in Tickets, i \in Items :
          ConsumedBy(t, i) = IF status[t] = Paid THEN Sold[t][i] ELSE 0
    /\ \A i \in Items :
          Reported(SaleConsumption, i) =
              Total([t \in {u \in Tickets : status[u] = Paid} |-> Sold[t][i]]) + EnteredAsSold(i)

\* An item has one open alert while its stock is at or below the minimum it
\* was last compared with, none otherwise, and the alert shows the stock the
\* item has now (evaluate_stock_alert, called by every movement).
AlertsAgree ==
    \A i \in Items :
        LET open == OpenAlertsOf(db, i)
            used == \E k \in DOMAIN db.moves : db.moves[k].item = i
        IN  /\ Cardinality(open) <= 1
            /\ open # {} <=> used /\ Stock(db, i) <= judged[i]
            /\ \A a \in open : db.alerts[a].quantity = Stock(db, i)

\* An alert is told to the gateway once in its life, however many movements
\* update it, and the history says which messages went out; any other message
\* came from a call that was rolled back (notify_stock_alert, send_sms).
OneSmsPerAlert ==
    /\ [k \in DOMAIN db.sms |-> db.sms[k].alert] = [a \in DOMAIN db.alerts |-> a]
    /\ \A i \in Items :
          texted[i] = lost[i] + Cardinality({k \in DOMAIN db.sms :
                          db.sms[k].status = Sent /\ db.alerts[db.sms[k].alert].item = i})

\* n in the unit of its item is what the line says in its own.
SameAmount(n, l) ==
    LET base == BaseUnit[l.item]
    IN  \/ l.unit = base /\ n = l.quantity
        \/ \E f \in Factors(l.unit, base) : n = l.quantity * f
        \/ \E f \in Factors(base, l.unit) : n * f = l.quantity

\* What a ticket's movements take of an item.
Needed ==
    [t \in Tickets |-> [i \in Items |->
        Total([k \in DOMAIN Requirement[t] |->
            IF Requirement[t][k].item = i THEN Requirement[t][k].quantity ELSE 0])]]

\* A preparation's yield divides what it is made of.
YieldsDivide ==
    \A i \in Items : Preparation[i] # NoPreparation =>
        LET prep == Preparation[i]
        IN  prep.yield > 0 => \A k \in DOMAIN prep.recipe : prep.recipe[k].quantity % prep.yield = 0

\* A ticket that can be consumed asks for what it sold: the expansion of its
\* recipes comes to the content of its products.
RequirementsAreSold ==
    \A t \in Tickets :
        (\A k \in DOMAIN Requirement[t] : Requirement[t][k] # Broken) => Needed[t] = Sold[t]

\* A delivery in a unit that only converts backwards makes a whole number of
\* its item's unit.
DeliveriesConvert ==
    \A delivery \in Deliveries : \A k \in DOMAIN delivery :
        LET l    == delivery[k]
            base == BaseUnit[l.item]
        IN  l.unit # base /\ Factors(l.unit, base) = {}
                => \A f \in Factors(base, l.unit) : f > 0 => (l.quantity \div f) * f = l.quantity

\* A receipt is in the ledger line by line, in the order of its lines and in
\* the unit of each item, or there is no receipt: none is kept that a failure
\* left half entered (process_purchase_receipt, convert_quantity).
ReceiptsAreWhole ==
    \A r \in 1..(Len(db.receipts) + 1) :
        LET bought == {k \in DOMAIN db.moves : db.moves[k].source = ReceiptLine /\ db.moves[k].of = r}
        IN  IF r > Len(db.receipts) THEN bought = {}
            ELSE LET delivery == db.receipts[r].delivery
                 IN  \E before \in 0..Len(db.moves) :
                        /\ bought = (before + 1)..(before + Len(delivery))
                        /\ \A k \in DOMAIN delivery :
                              /\ db.moves[before + k].item = delivery[k].item
                              /\ SameAmount(db.moves[before + k].signed, delivery[k])

=============================================================================
