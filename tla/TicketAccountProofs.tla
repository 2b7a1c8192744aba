------------------------ MODULE TicketAccountProofs ------------------------
(***************************************************************************)
(* The invariants of TicketAccount hold for any number of lines,           *)
(* discounts, payments and splits and for any prices, quantities and       *)
(* parts, its step properties with them, and the account refines           *)
(* AccountLifecycle.                                                       *)
(*                                                                         *)
(* The inductive invariant adds to the properties that a component belongs *)
(* to a package captured before it (Packages), that the stored totals are  *)
(* those of the rows on every account that is not cancelled (Totals) and   *)
(* that live splits share no line (SplitsDisjoint).  What the sums of rows *)
(* do when a row is added or changed comes from SumTheorems.               *)
(*                                                                         *)
(* The sales reports agree because no call loses money once it was taken   *)
(* for a settled account (MoneyKept), and because the categories of its    *)
(* lines, each line in one, add up to its subtotal.                        *)
(*                                                                         *)
(* Nothing in the code keeps the price of an option from being negative;   *)
(* where more than the final states is claimed, no selection of options    *)
(* may cost less than nothing (NoOptionPaysBack).                          *)
(***************************************************************************)
EXTENDS SalesReport, SumTheorems

\* No selection of options costs less than nothing.
NoOptionPaysBack == Prices \subseteq Nat

USE DEF Absent, Open, InPayment, Paid, Cancelled, Simple, Parent, Component, Captured, Sent,
        EqualParts, ByLines, SplitOpen, SplitPaid, SplitCancelled, NoParent, NoSplit

-----------------------------------------------------------------------------
(* The rows and their sums.                                                *)

LEMMA RowsAreFinite ==
  ASSUME NEW R, NEW s \in Seq(R), NEW S \in SUBSET (DOMAIN s)
  PROVE  IsFiniteSet(DOMAIN s) /\ IsFiniteSet(S)
<1>1. DOMAIN s = 1..Len(s) /\ Len(s) \in Nat OBVIOUS
<1>2. IsFiniteSet(DOMAIN s) BY <1>1, FS_Interval
<1> QED BY <1>2, FS_Subset

LEMMA LineTotalType == ASSUME NEW l \in LineRow PROVE LineTotal(l) \in Nat
<1>1. \A a, b \in Nat : a * b \in Nat OBVIOUS
<1> QED BY <1>1 DEF LineTotal, LineRow

LEMMA SumOfLinesType ==
  ASSUME NEW ls \in Seq(LineRow), NEW S \in SUBSET (DOMAIN ls)
  PROVE  SumOfLines(ls, S) \in Nat
<1> DEFINE f == [i \in DOMAIN ls |-> LineTotal(ls[i])]
<1>1. \A i \in S : f[i] \in Nat BY LineTotalType
<1>2. IsFiniteSet(S) BY RowsAreFinite
<1> HIDE DEF f
<1>3. SumFunctionOnSet(f, S) \in Nat BY <1>1, <1>2, SumIsNat
<1> QED BY <1>3 DEF SumOfLines, f

LEMMA SumOfAmountsType ==
  ASSUME NEW R, \A r \in R : r.amount \in Nat,
         NEW rows \in Seq(R), NEW S \in SUBSET (DOMAIN rows)
  PROVE  SumOfAmounts(rows, S) \in Nat
<1> DEFINE f == [i \in DOMAIN rows |-> rows[i].amount]
<1>1. \A i \in S : f[i] \in Nat OBVIOUS
<1>2. IsFiniteSet(S) BY RowsAreFinite
<1> HIDE DEF f
<1>3. SumFunctionOnSet(f, S) \in Nat BY <1>1, <1>2, SumIsNat
<1> QED BY <1>3 DEF SumOfAmounts, f

LEMMA SubtotalType == ASSUME NEW ls \in Seq(LineRow) PROVE Subtotal(ls) \in Nat
  BY SumOfLinesType DEF Subtotal, Chargeable, LiveLines

LEMMA DiscountTotalType == ASSUME NEW ds \in Seq(DiscountRow) PROVE DiscountTotal(ds) \in Nat
<1>1. \A d \in DiscountRow : d.amount \in Nat BY DEF DiscountRow
<1> QED BY <1>1, SumOfAmountsType DEF DiscountTotal

LEMMA PaidType ==
  ASSUME NEW ps \in Seq(PaymentRow), NEW s
  PROVE  ActivePaid(ps) \in Nat /\ PaidToSplit(ps, s) \in Nat
<1>1. \A p \in PaymentRow : p.amount \in Nat BY DEF PaymentRow
<1> QED BY <1>1, SumOfAmountsType DEF ActivePaid, PaidToSplit

\* A stored row whose totals are those of its rows.
Agrees(t, ls, ds) ==
    /\ t.subtotal = Subtotal(ls)
    /\ t.discount = DiscountTotal(ds)
    /\ t.total = IF t.subtotal > t.discount THEN t.subtotal - t.discount ELSE 0

LEMMA RecalculatedAgrees ==
  ASSUME NEW t \in TicketRow, NEW ls \in Seq(LineRow), NEW ds \in Seq(DiscountRow)
  PROVE  /\ Recalculated(t, ls, ds) \in TicketRow
         /\ Recalculated(t, ls, ds).status = t.status
         /\ Agrees(Recalculated(t, ls, ds), ls, ds)
         /\ Agrees(t, ls, ds) <=> t = Recalculated(t, ls, ds)
<1> DEFINE sub == Subtotal(ls)
           disc == DiscountTotal(ds)
           total == IF sub > disc THEN sub - disc ELSE 0
           r == [t EXCEPT !.subtotal = sub, !.discount = disc, !.total = total]
<1>1. sub \in Nat /\ disc \in Nat BY SubtotalType, DiscountTotalType
<1>2. Recalculated(t, ls, ds) = r BY DEF Recalculated
<1> HIDE DEF sub, disc
<1>3. total \in Nat BY <1>1
<1> HIDE DEF total
<1>4. r \in TicketRow BY <1>1, <1>3 DEF TicketRow
<1>5. /\ r.status = t.status /\ r.subtotal = sub /\ r.discount = disc /\ r.total = total
  BY DEF TicketRow
<1>6. t = r <=> t.subtotal = sub /\ t.discount = disc /\ t.total = total
  BY DEF TicketRow
<1> HIDE DEF r
<1>7. Agrees(r, ls, ds) BY <1>5 DEF Agrees, sub, disc, total
<1>8. Agrees(t, ls, ds) <=> t = r BY <1>6 DEF Agrees, sub, disc, total
<1> QED BY <1>2, <1>4, <1>5, <1>7, <1>8
-----------------------------------------------------------------------------
(* The rows each service writes.                                           *)

LEMMA NewLineType ==
  ASSUME NEW kind \in {Simple, Parent, Component}, NEW parent \in Nat,
         NEW q \in Nat \ {0}, NEW unit \in Nat
  PROVE  NewLine(kind, parent, q, unit) \in LineRow
  BY DEF NewLine, LineRow

\* What add_product_to_ticket appends: captured lines, the first one free of a
\* package and each of the others a component of it.
Captures(newLines, first) ==
    /\ newLines \in Seq(LineRow)
    /\ newLines # <<>>
    /\ \A k \in DOMAIN newLines :
          /\ newLines[k].status = Captured
          /\ k = 1 => newLines[k].kind # Component /\ newLines[k].parent = NoParent
          /\ k # 1 => /\ newLines[k].kind = Component /\ newLines[k].parent = first
                      /\ newLines[1].kind = Parent

LEMMA CapturesSimple ==
  ASSUME NEW price \in Nat, NEW q \in Quantities, NEW first \in Nat
  PROVE  Captures(<<NewLine(Simple, NoParent, q, price)>>, first)
<1>1. q \in Nat \ {0} BY TicketAccountAssumption, SMTT(30)
<1>2. NewLine(Simple, NoParent, q, price) \in LineRow BY <1>1, NewLineType
<1>3. /\ NewLine(Simple, NoParent, q, price).status = Captured
      /\ NewLine(Simple, NoParent, q, price).kind # Component
      /\ NewLine(Simple, NoParent, q, price).parent = NoParent
  BY DEF NewLine
<1> DEFINE l == NewLine(Simple, NoParent, q, price)
<1> HIDE DEF l
<1>4. <<l>> \in Seq(LineRow) /\ <<l>> # <<>> /\ DOMAIN <<l>> = {1} /\ <<l>>[1] = l
  BY <1>2 DEF l
<1>5. Captures(<<l>>, first) BY <1>3, <1>4 DEF Captures, l
<1> QED BY <1>5 DEF l

LEMMA CapturesPackage ==
  ASSUME NEW price \in Nat, NEW q \in Quantities, NEW first \in Nat
  PROVE  Captures(PackageLines(first, price, q), first)
<1> DEFINE head == NewLine(Parent, NoParent, q, price)
           part(k) == NewLine(Component, first, PackageItems[k] * q, 0)
           parts == [k \in 1..Len(PackageItems) |-> part(k)]
<1>1. q \in Nat \ {0} BY TicketAccountAssumption, SMTT(30)
<1>2. head \in LineRow BY <1>1, NewLineType
<1>3. ASSUME NEW k \in 1..Len(PackageItems) PROVE part(k) \in LineRow
  <2>0. PackageItems \in Seq(Nat \ {0}) BY TicketAccountAssumption, SMTT(30)
  <2>1. PackageItems[k] \in Nat \ {0} BY <2>0
  <2>2. \A a, b \in Nat \ {0} : a * b \in Nat \ {0} OBVIOUS
  <2>3. PackageItems[k] * q \in Nat \ {0} BY <1>1, <2>1, <2>2
  <2> QED BY <2>3, NewLineType
<1>4. \A k \in 1..Len(PackageItems) :
         part(k).status = Captured /\ part(k).kind = Component /\ part(k).parent = first
  BY DEF NewLine
<1>5. head.status = Captured /\ head.kind = Parent /\ head.parent = NoParent
  BY DEF NewLine
<1>6. Len(PackageItems) \in Nat BY TicketAccountAssumption, SMTT(30)
<1>7. PackageLines(first, price, q) = <<head>> \o parts BY DEF PackageLines
<1> HIDE DEF head, part
<1>8. parts \in Seq(LineRow) /\ Len(parts) = Len(PackageItems) BY <1>3, <1>6
<1>9. \A k \in 1..Len(parts) : parts[k] = part(k) BY <1>8
<1> HIDE DEF parts
<1> DEFINE all == <<head>> \o parts
<1>10. /\ all \in Seq(LineRow) /\ Len(all) = 1 + Len(parts)
       /\ all[1] = head
       /\ \A k \in DOMAIN all : k # 1 => k - 1 \in 1..Len(parts) /\ all[k] = parts[k - 1]
  BY <1>2, <1>8
<1>11. all # <<>> BY <1>8, <1>10
<1> HIDE DEF all
<1>12. \A k \in DOMAIN all : k # 1 => all[k].status = Captured /\ all[k].kind = Component
                                     /\ all[k].parent = first
  <2> SUFFICES ASSUME NEW k \in DOMAIN all, k # 1
               PROVE  all[k].status = Captured /\ all[k].kind = Component /\ all[k].parent = first
    OBVIOUS
  <2>1. k - 1 \in 1..Len(parts) /\ all[k] = parts[k - 1] BY <1>10
  <2>2. parts[k - 1] = part(k - 1) BY <1>9, <2>1
  <2>3. k - 1 \in 1..Len(PackageItems) BY <1>8, <2>1
  <2> QED BY <1>4, <2>1, <2>2, <2>3
<1> QED BY <1>5, <1>7, <1>10, <1>11, <1>12 DEF Captures, all

\* The options of a group add whole cents.
LEMMA SelectionsHavePrices == Prices \subseteq Int
<1> SUFFICES ASSUME NEW s \in Selections PROVE UnitPrice(s) \in Int
  BY DEF Prices
<1> DEFINE deltas == Product.variants.deltas
           f == [o \in DOMAIN s |-> deltas[o] * s[o]]
<1>1. /\ Product.price \in Int /\ deltas \in Seq(Int) /\ Product.variants.max \in Nat
  <2>1. Product \in ProductRow BY TicketAccountAssumption, SMTT(30)
  <2>2. Product.price \in Nat /\ Product.variants \in VariantGroupRow BY <2>1 DEF ProductRow
  <2> QED BY <2>2 DEF VariantGroupRow
<1>2. s \in [DOMAIN deltas -> 0..Product.variants.max] BY DEF Selections
<1>3. IsFiniteSet(DOMAIN f) /\ DOMAIN f = DOMAIN deltas BY <1>1, <1>2, RowsAreFinite
<1>4. ASSUME NEW o \in DOMAIN f PROVE f[o] \in Int
  <2>1. deltas[o] \in Int /\ s[o] \in Int BY <1>1, <1>2
  <2>2. \A a, b \in Int : a * b \in Int OBVIOUS
  <2>3. deltas[o] * s[o] \in Int BY <2>1, <2>2
  <2> QED BY <2>3
<1>5. UnitPrice(s) = Product.price + SumFunctionOnSet(f, DOMAIN f)
  BY DEF UnitPrice, SumFunction
<1> HIDE DEF f
<1>6. SumFunctionOnSet(f, DOMAIN f) \in Int BY <1>3, <1>4, SumIsInt
<1> QED BY <1>1, <1>5, <1>6

LEMMA RoundingType ==
  ASSUME NEW num \in Int, NEW den \in Nat \ {0}
  PROVE  RoundHalfEven(num, den) \in Int
  BY DEF RoundHalfEven

-----------------------------------------------------------------------------
(* The inductive invariant.                                                *)

\* A component belongs to a package that was captured before it and shares
\* its status; nothing else has a parent.
Packages ==
    \A i \in DOMAIN lines :
        IF lines[i].kind = Component
        THEN /\ lines[i].parent \in DOMAIN lines
             /\ lines[lines[i].parent].kind = Parent
             /\ lines[i].status = lines[lines[i].parent].status
        ELSE lines[i].parent = NoParent

\* Until it is cancelled, an account stores the totals of its rows.
Totals == ticket.status # Cancelled => Agrees(ticket, lines, discounts)

\* Two live splits share no line.
SplitsDisjoint ==
    \A r, s \in LiveSplits(splits) : r # s => splits[r].lines \cap splits[s].lines = {}

\* Apart from types, what is known of lines and totals, and of the splits.
IInv ==
    /\ TypeOK
    /\ Packages
    /\ Totals
    /\ BilledIsSent
    /\ FreeOnlyByCourtesy
    /\ SplitLedger
    /\ SplitsDisjoint

LEMMA EmptySums ==
  ASSUME NEW ls, ls = <<>>, NEW ds, ds = <<>>
  PROVE  Subtotal(ls) = 0 /\ DiscountTotal(ds) = 0
<1>1. Chargeable(ls) = {} BY DEF Chargeable, LiveLines
<1>2. DOMAIN ds = {} OBVIOUS
<1> QED BY <1>1, <1>2, SumOfNone DEF Subtotal, DiscountTotal, SumOfLines, SumOfAmounts

LEMMA InitIInv == Init => IInv
<1> SUFFICES ASSUME Init PROVE IInv
  OBVIOUS
<1>1. TypeOK BY DEF Init, TypeOK, TicketRow
<1>2. DOMAIN lines = {} /\ DOMAIN splits = {} /\ ticket.status = Absent BY DEF Init
<1>3. Totals BY EmptySums DEF Init, Totals, Agrees
<1> QED BY <1>1, <1>2, <1>3
        DEF IInv, Packages, BilledIsSent, FreeOnlyByCourtesy, SplitLedger, SplitsDisjoint, LiveSplits

\* A service that writes lines only and leaves true totals.
LEMMA LinesStep ==
  ASSUME IInv, ticket.status \in {Open, InPayment},
         UNCHANGED <<discounts, payments, splits>>,
         lines' \in Seq(LineRow), \A i \in DOMAIN lines' : lines'[i].parent < i,
         Packages',
         ticket' \in TicketRow, ticket'.status = ticket.status,
         Agrees(ticket', lines', discounts),
         ticket.status = InPayment => CapturedLines(lines') = {}
  PROVE  IInv'
<1>1. TypeOK' BY DEF IInv, TypeOK
<1>2. Totals' BY DEF Totals
<1>3. BilledIsSent' BY DEF BilledIsSent
<1>4. FreeOnlyByCourtesy' BY DEF FreeOnlyByCourtesy
<1>5. SplitLedger' BY DEF IInv, SplitLedger
<1>6. SplitsDisjoint' BY DEF IInv, SplitsDisjoint
<1> QED BY <1>1, <1>2, <1>3, <1>4, <1>5, <1>6 DEF IInv

LEMMA OpenTicketIInv == IInv /\ OpenTicket => IInv'
<1> SUFFICES ASSUME IInv, OpenTicket PROVE IInv'
  OBVIOUS
<1> USE DEF OpenTicket
<1>1. TypeOK' BY DEF IInv, TypeOK, TicketRow
<1>2. ticket'.status = Open /\ ticket'.subtotal = ticket.subtotal
      /\ ticket'.discount = ticket.discount /\ ticket'.total = ticket.total
  BY DEF IInv, TypeOK, TicketRow
<1>3. Totals' BY <1>2 DEF IInv, Totals, Agrees
<1>4. BilledIsSent' /\ FreeOnlyByCourtesy' BY <1>2 DEF BilledIsSent, FreeOnlyByCourtesy
<1>5. SplitLedger' BY <1>2 DEF IInv, SplitLedger
<1>6. Packages' /\ SplitsDisjoint' BY DEF IInv, Packages, SplitsDisjoint
<1> QED BY <1>1, <1>3, <1>4, <1>5, <1>6 DEF IInv

LEMMA Concatenation ==
  ASSUME NEW R, NEW s \in Seq(R), NEW t \in Seq(R), t # <<>>
  PROVE  /\ s \o t \in Seq(R)
         /\ DOMAIN (s \o t) = 1..(Len(s) + Len(t))
         /\ Len(t) \in Nat \ {0} /\ Len(s) \in Nat /\ 1 \in DOMAIN t
         /\ \A i \in DOMAIN s : i \in DOMAIN (s \o t) /\ (s \o t)[i] = s[i]
         /\ \A i \in DOMAIN (s \o t) : i \notin DOMAIN s =>
               i > Len(s) /\ i - Len(s) \in DOMAIN t /\ (s \o t)[i] = t[i - Len(s)]
<1>1. Len(t) \in Nat /\ Len(t) # 0 OBVIOUS
<1> QED BY <1>1

LEMMA AddProductIInv ==
  ASSUME IInv, NEW newLines, Captures(newLines, Len(lines) + 1), AddProduct(newLines)
  PROVE  IInv'
<1>0. /\ lines \in Seq(LineRow) /\ ticket \in TicketRow /\ discounts \in Seq(DiscountRow)
      /\ \A i \in DOMAIN lines : lines[i].parent < i
  BY DEF IInv, TypeOK
<1>1. newLines \in Seq(LineRow) /\ newLines # <<>> BY DEF Captures
<1>2. /\ lines' = lines \o newLines /\ ticket.status = Open
      /\ ticket' = Recalculated(ticket, lines', discounts)
      /\ UNCHANGED <<discounts, payments, splits>>
  BY DEF AddProduct
<1> DEFINE all == lines \o newLines
           first == Len(lines) + 1
<1>3. /\ all \in Seq(LineRow) /\ DOMAIN all = 1..(Len(lines) + Len(newLines))
      /\ Len(newLines) \in Nat \ {0} /\ Len(lines) \in Nat /\ 1 \in DOMAIN newLines
      /\ \A i \in DOMAIN lines : i \in DOMAIN all /\ all[i] = lines[i]
      /\ \A i \in DOMAIN all : i \notin DOMAIN lines =>
            i > Len(lines) /\ i - Len(lines) \in DOMAIN newLines /\ all[i] = newLines[i - Len(lines)]
  BY <1>0, <1>1, Concatenation
<1> HIDE DEF all
<1>4. /\ first \in DOMAIN all /\ first \notin DOMAIN lines /\ all[first] = newLines[1]
      /\ \A i \in DOMAIN all : i \in Nat
  <2>1. first \in DOMAIN all /\ first \notin DOMAIN lines BY <1>0, <1>3
  <2>2. first - Len(lines) = 1 BY <1>3
  <2>3. all[first] = newLines[1] BY <1>3, <2>1, <2>2
  <2> QED BY <1>3, <2>1, <2>3
<1>5. ASSUME NEW i \in DOMAIN all, i \notin DOMAIN lines
      PROVE  \/ i = first /\ all[i].kind # Component /\ all[i].parent = NoParent
             \/ /\ i > first /\ all[i].kind = Component /\ all[i].parent = first
                /\ all[first].kind = Parent /\ all[i].status = all[first].status
  <2> DEFINE k == i - Len(lines)
  <2>1. k \in DOMAIN newLines /\ all[i] = newLines[k] /\ i > Len(lines) BY <1>3, <1>5
  <2>2. k = 1 <=> i = first BY <1>3, <1>4
  <2>3. i > Len(lines) /\ i # first => i > first BY <1>3, <1>4
  <2>4. /\ newLines[k].status = Captured /\ newLines[1].status = Captured
        /\ k = 1 => newLines[k].kind # Component /\ newLines[k].parent = NoParent
        /\ k # 1 => /\ newLines[k].kind = Component /\ newLines[k].parent = first
                    /\ newLines[1].kind = Parent
    BY <1>3, <2>1 DEF Captures
  <2> HIDE DEF k, first
  <2> QED BY <1>4, <2>1, <2>2, <2>3, <2>4
<1>6. \A i \in DOMAIN all : all[i].parent < i
  <2> TAKE i \in DOMAIN all
  <2>1. CASE i \in DOMAIN lines BY <2>1, <1>0, <1>3
  <2>2. CASE i \notin DOMAIN lines
    <3> HIDE DEF first
    <3>1. i > 0 /\ i \in Nat BY <1>3, <1>4, <2>2
    <3> QED BY <1>5, <2>2, <3>1
  <2> QED BY <2>1, <2>2
<1>7. Packages'
  <2> SUFFICES ASSUME NEW i \in DOMAIN all
               PROVE  IF all[i].kind = Component
                      THEN /\ all[i].parent \in DOMAIN all
                           /\ all[all[i].parent].kind = Parent
                           /\ all[i].status = all[all[i].parent].status
                      ELSE all[i].parent = NoParent
    BY <1>2 DEF Packages, all
  <2>1. CASE i \in DOMAIN lines BY <2>1, <1>3 DEF IInv, Packages
  <2>2. CASE i \notin DOMAIN lines BY <2>2, <1>4, <1>5
  <2> QED BY <2>1, <2>2
<1>8. lines' = all BY <1>2 DEF all
<1>9. /\ ticket' \in TicketRow /\ ticket'.status = ticket.status
      /\ Agrees(ticket', lines', discounts)
  BY <1>0, <1>2, <1>3, <1>8, RecalculatedAgrees
<1> QED BY <1>2, <1>3, <1>6, <1>7, <1>8, <1>9, LinesStep

\* Lines written in place stay a sequence.
LEMMA InPlace ==
  ASSUME NEW R, NEW T, NEW s \in Seq(R), NEW f, DOMAIN f = DOMAIN s,
         f = [i \in DOMAIN s |-> f[i]], \A i \in DOMAIN s : f[i] \in T
  PROVE  f \in Seq(T) /\ Len(f) = Len(s)
<1>1. DOMAIN s = 1..Len(s) /\ Len(s) \in Nat OBVIOUS
<1>2. f \in [1..Len(s) -> T] BY <1>1
<1> QED BY <1>1, <1>2

LEMMA ModifyLineIInv ==
  ASSUME NoOptionPaysBack, IInv, NEW i \in DOMAIN lines,
         NEW q \in Quantities \cup {lines[i].qty}, NEW unit \in Prices \cup {lines[i].unit},
         ModifyLine(i, q, unit)
  PROVE  IInv'
<1>0. /\ lines \in Seq(LineRow) /\ ticket \in TicketRow /\ discounts \in Seq(DiscountRow)
      /\ \A j \in DOMAIN lines : lines[j].parent < j
  BY DEF IInv, TypeOK
<1>1. /\ lines' = Modified(i, q, unit) /\ lines[i].status = Captured
      /\ ticket.status \in {Open, InPayment}
      /\ ticket' = Recalculated(ticket, lines', discounts)
      /\ UNCHANGED <<discounts, payments, splits>>
  BY DEF ModifyLine
<1>2. q \in Nat \ {0} /\ unit \in Nat
  <2>1. lines[i] \in LineRow BY <1>0
  <2>2. lines[i].qty \in Nat \ {0} /\ lines[i].unit \in Nat BY <2>1 DEF LineRow
  <2>3. Quantities \subseteq Nat \ {0} BY TicketAccountAssumption, SMTT(30)
  <2> QED BY <2>2, <2>3 DEF NoOptionPaysBack
<1>3. /\ DOMAIN lines' = DOMAIN lines /\ lines' = [j \in DOMAIN lines |-> lines'[j]]
      /\ \A j \in DOMAIN lines :
            /\ lines'[j] \in LineRow
            /\ lines'[j].kind = lines[j].kind /\ lines'[j].parent = lines[j].parent
            /\ lines'[j].status = lines[j].status
  <2>1. \A j \in DOMAIN lines : lines[j] \in LineRow BY <1>0
  <2>2. DOMAIN lines' = DOMAIN lines /\ lines' = [j \in DOMAIN lines |-> lines'[j]]
    BY <1>1 DEF Modified
  <2>3. ASSUME NEW j \in DOMAIN lines
        PROVE  /\ lines'[j] \in LineRow
               /\ lines'[j].kind = lines[j].kind /\ lines'[j].parent = lines[j].parent
               /\ lines'[j].status = lines[j].status
    <3>1. lines'[j] \in {lines[j], [lines[j] EXCEPT !.qty = q],
                         [lines[j] EXCEPT !.qty = q, !.unit = unit]}
      BY <1>1 DEF Modified
    <3> QED BY <1>2, <2>1, <3>1 DEF LineRow
  <2> QED BY <2>2, <2>3
<1>4. lines' \in Seq(LineRow) BY <1>0, <1>3, InPlace
<1>5. \A j \in DOMAIN lines' : lines'[j].parent < j BY <1>0, <1>3
<1>6. Packages'
  <2>1. /\ DOMAIN lines' = DOMAIN lines
        /\ \A j \in DOMAIN lines :
              /\ lines'[j].kind = lines[j].kind /\ lines'[j].parent = lines[j].parent
              /\ lines'[j].status = lines[j].status
    BY <1>3
  <2>2. Packages BY DEF IInv
  <2> SUFFICES ASSUME NEW j \in DOMAIN lines'
               PROVE  IF lines'[j].kind = Component
                      THEN /\ lines'[j].parent \in DOMAIN lines'
                           /\ lines'[lines'[j].parent].kind = Parent
                           /\ lines'[j].status = lines'[lines'[j].parent].status
                      ELSE lines'[j].parent = NoParent
    BY DEF Packages
  <2>3. j \in DOMAIN lines /\ lines'[j].kind = lines[j].kind
        /\ lines'[j].parent = lines[j].parent /\ lines'[j].status = lines[j].status
    BY <2>1
  <2>4. CASE lines[j].kind = Component
    <3>1. /\ lines[j].parent \in DOMAIN lines
          /\ lines[lines[j].parent].kind = Parent
          /\ lines[j].status = lines[lines[j].parent].status
      BY <2>2, <2>3, <2>4 DEF Packages
    <3>2. /\ lines'[lines[j].parent].kind = lines[lines[j].parent].kind
          /\ lines'[lines[j].parent].status = lines[lines[j].parent].status
      BY <2>1, <3>1
    <3> QED BY <2>1, <2>3, <2>4, <3>1, <3>2
  <2>5. CASE lines[j].kind # Component
    <3>1. lines[j].parent = NoParent BY <2>2, <2>3, <2>5 DEF Packages
    <3> QED BY <2>3, <2>5, <3>1
  <2> QED BY <2>4, <2>5
<1>7. /\ ticket' \in TicketRow /\ ticket'.status = ticket.status
      /\ Agrees(ticket', lines', discounts)
  BY <1>0, <1>1, <1>4, RecalculatedAgrees
<1>8. ticket.status # InPayment BY <1>1 DEF IInv, BilledIsSent, CapturedLines
<1> QED BY <1>1, <1>4, <1>5, <1>6, <1>7, <1>8, LinesStep

\* The subtotal depends on which lines are live and on what each costs.
LEMMA SameSubtotal ==
  ASSUME NEW ls \in Seq(LineRow), NEW ks \in Seq(LineRow), DOMAIN ks = DOMAIN ls,
         \A i \in DOMAIN ls : /\ ks[i].unit = ls[i].unit /\ ks[i].qty = ls[i].qty
                              /\ ks[i].kind = ls[i].kind
                              /\ ks[i].status = Cancelled <=> ls[i].status = Cancelled
  PROVE  Subtotal(ks) = Subtotal(ls)
<1> DEFINE f == [i \in DOMAIN ls |-> LineTotal(ls[i])]
           g == [i \in DOMAIN ks |-> LineTotal(ks[i])]
<1>1. Chargeable(ks) = Chargeable(ls) /\ Chargeable(ls) \in SUBSET (DOMAIN ls)
  BY DEF Chargeable, LiveLines
<1>2. IsFiniteSet(Chargeable(ls)) BY <1>1, RowsAreFinite
<1>3. \A i \in Chargeable(ls) : g[i] = f[i] BY <1>1 DEF LineTotal
<1> HIDE DEF f, g
<1>4. SumFunctionOnSet(g, Chargeable(ls)) = SumFunctionOnSet(f, Chargeable(ls))
  BY <1>2, <1>3, SumsAreEqual
<1> QED BY <1>1, <1>4 DEF Subtotal, SumOfLines, f, g

LEMMA SendRoundIInv == ASSUME IInv, SendRound PROVE IInv'
<1>0. /\ lines \in Seq(LineRow) /\ ticket \in TicketRow /\ discounts \in Seq(DiscountRow)
      /\ \A j \in DOMAIN lines : lines[j].parent < j
  BY DEF IInv, TypeOK
<1>1. /\ lines' = [i \in DOMAIN lines |->
                      IF lines[i].status = Captured
                      THEN [lines[i] EXCEPT !.status = Sent] ELSE lines[i]]
      /\ ticket.status \in {Open, InPayment}
      /\ UNCHANGED <<ticket, discounts, payments, splits>>
  BY DEF SendRound
<1>2. \A j \in DOMAIN lines : lines[j] \in LineRow BY <1>0
<1>3. /\ DOMAIN lines' = DOMAIN lines /\ lines' = [j \in DOMAIN lines |-> lines'[j]]
      /\ \A j \in DOMAIN lines :
            /\ lines'[j] \in LineRow
            /\ lines'[j].kind = lines[j].kind /\ lines'[j].parent = lines[j].parent
            /\ lines'[j].unit = lines[j].unit /\ lines'[j].qty = lines[j].qty
            /\ lines'[j].status = IF lines[j].status = Captured THEN Sent ELSE lines[j].status
  BY <1>1, <1>2 DEF LineRow
<1>4. lines' \in Seq(LineRow) BY <1>0, <1>3, InPlace
<1>5. \A j \in DOMAIN lines' : lines'[j].parent < j BY <1>0, <1>3
<1>6. Packages'
  <2> SUFFICES ASSUME NEW j \in DOMAIN lines
               PROVE  IF lines'[j].kind = Component
                      THEN /\ lines'[j].parent \in DOMAIN lines
                           /\ lines'[lines'[j].parent].kind = Parent
                           /\ lines'[j].status = lines'[lines'[j].parent].status
                      ELSE lines'[j].parent = NoParent
    BY <1>3 DEF Packages
  <2>1. IF lines[j].kind = Component
        THEN /\ lines[j].parent \in DOMAIN lines
             /\ lines[lines[j].parent].kind = Parent
             /\ lines[j].status = lines[lines[j].parent].status
        ELSE lines[j].parent = NoParent
    BY DEF IInv, Packages
  <2> QED BY <1>3, <2>1
<1>7. Subtotal(lines') = Subtotal(lines) BY <1>0, <1>3, <1>4, SameSubtotal
<1>8. ticket' = ticket /\ Agrees(ticket', lines', discounts)
  BY <1>1, <1>7 DEF IInv, Totals, Agrees
<1>9. CapturedLines(lines') = {} BY <1>3 DEF CapturedLines
<1> QED BY <1>0, <1>1, <1>4, <1>5, <1>6, <1>8, <1>9, LinesStep

LEMMA CancelLinesEffect ==
  ASSUME IInv, NEW S
  PROVE  \E ls : /\ ls = CancelLines(S) /\ ls \in Seq(LineRow) /\ DOMAIN ls = DOMAIN lines
                 /\ \A j \in DOMAIN lines :
                       /\ ls[j].kind = lines[j].kind /\ ls[j].parent = lines[j].parent
                       /\ ls[j].unit = lines[j].unit /\ ls[j].qty = lines[j].qty
                       /\ ls[j].status = IF j \in S THEN Cancelled ELSE lines[j].status
<1> DEFINE ls == CancelLines(S)
<1>0. lines \in Seq(LineRow) BY DEF IInv, TypeOK
<1>2. \A j \in DOMAIN lines : lines[j] \in LineRow BY <1>0
<1>3. /\ DOMAIN ls = DOMAIN lines /\ ls = [j \in DOMAIN lines |-> ls[j]]
      /\ \A j \in DOMAIN lines :
            /\ ls[j] \in LineRow
            /\ ls[j].kind = lines[j].kind /\ ls[j].parent = lines[j].parent
            /\ ls[j].unit = lines[j].unit /\ ls[j].qty = lines[j].qty
            /\ ls[j].status = IF j \in S THEN Cancelled ELSE lines[j].status
  BY <1>2 DEF LineRow, CancelLines
<1>4. ls \in Seq(LineRow) BY <1>0, <1>3, InPlace
<1> HIDE DEF ls
<1>5. ls = CancelLines(S) BY DEF ls
<1> QED BY <1>3, <1>4, <1>5

LEMMA CancelLineIInv ==
  ASSUME IInv, NEW i \in DOMAIN lines, CancelLine(i)
  PROVE  IInv'
<1>0. /\ lines \in Seq(LineRow) /\ ticket \in TicketRow /\ discounts \in Seq(DiscountRow)
      /\ \A j \in DOMAIN lines : lines[j].parent < j
  BY DEF IInv, TypeOK
<1> DEFINE S == CancelTargets(i)
<1>1. /\ lines' = CancelLines(S) /\ lines[i].status # Cancelled
      /\ lines[i].kind = Component => lines[lines[i].parent].status = Cancelled
      /\ ticket.status \in {Open, InPayment}
      /\ ticket' = Recalculated(ticket, lines', discounts)
      /\ UNCHANGED <<discounts, payments, splits>>
  BY DEF CancelLine
<1>2. /\ lines' \in Seq(LineRow) /\ DOMAIN lines' = DOMAIN lines
      /\ \A j \in DOMAIN lines :
            /\ lines'[j].kind = lines[j].kind /\ lines'[j].parent = lines[j].parent
            /\ lines'[j].status = IF j \in S THEN Cancelled ELSE lines[j].status
  <2> HIDE DEF S
  <2>1. PICK ls : /\ ls = CancelLines(S) /\ ls \in Seq(LineRow) /\ DOMAIN ls = DOMAIN lines
                  /\ \A j \in DOMAIN lines :
                        /\ ls[j].kind = lines[j].kind /\ ls[j].parent = lines[j].parent
                        /\ ls[j].unit = lines[j].unit /\ ls[j].qty = lines[j].qty
                        /\ ls[j].status = IF j \in S THEN Cancelled ELSE lines[j].status
    BY CancelLinesEffect, Zenon
  <2>2. lines' = ls BY <1>1, <2>1
  <2> QED BY <2>1, <2>2
<1>3. lines[i].kind # Component BY <1>1 DEF IInv, Packages
<1>4. ASSUME NEW j \in DOMAIN lines, lines[j].kind = Component
      PROVE  /\ lines[j].parent \in DOMAIN lines /\ lines[lines[j].parent].kind = Parent
             /\ lines'[j].status = lines'[lines[j].parent].status
  <2> DEFINE p == lines[j].parent
  <2>1. p \in DOMAIN lines /\ lines[p].kind = Parent /\ lines[j].status = lines[p].status
    BY <1>4 DEF IInv, Packages
  <2>2. p \in S <=> p = i
    <3>1. lines[p].parent = NoParent BY <2>1 DEF IInv, Packages
    <3>2. i # NoParent BY <1>0
    <3> QED BY <3>1, <3>2 DEF CancelTargets
  <2>3. j \in S => p = i BY <1>3, <1>4 DEF CancelTargets
  <2>4. p = i => lines'[j].status = Cancelled
    <3>1. p = i /\ lines[j].status # Cancelled => j \in S
      BY <2>1 DEF CancelTargets, LiveLines
    <3> QED BY <1>2, <3>1
  <2> HIDE DEF p, S
  <2>5. lines'[j].status = lines'[p].status BY <1>2, <2>1, <2>2, <2>3, <2>4
  <2> QED BY <2>1, <2>5 DEF p
<1>5. Packages'
  <2>1. \A j \in DOMAIN lines : lines[j].kind # Component => lines[j].parent = NoParent
    BY DEF IInv, Packages
  <2> HIDE DEF S
  <2> SUFFICES ASSUME NEW j \in DOMAIN lines
               PROVE  IF lines'[j].kind = Component
                      THEN /\ lines'[j].parent \in DOMAIN lines
                           /\ lines'[lines'[j].parent].kind = Parent
                           /\ lines'[j].status = lines'[lines'[j].parent].status
                      ELSE lines'[j].parent = NoParent
    BY <1>2 DEF Packages
  <2>2. lines'[j].kind = lines[j].kind /\ lines'[j].parent = lines[j].parent BY <1>2
  <2>3. lines[j].parent \in DOMAIN lines =>
           lines'[lines[j].parent].kind = lines[lines[j].parent].kind
    BY <1>2
  <2> QED BY <1>4, <2>1, <2>2, <2>3
<1>6. \A j \in DOMAIN lines' : lines'[j].parent < j BY <1>0, <1>2
<1>7. /\ ticket' \in TicketRow /\ ticket'.status = ticket.status
      /\ Agrees(ticket', lines', discounts)
  BY <1>0, <1>1, <1>2, RecalculatedAgrees
<1>8. ticket.status = InPayment => CapturedLines(lines') = {}
  BY <1>2 DEF IInv, BilledIsSent, CapturedLines
<1> HIDE DEF S
<1> QED BY <1>1, <1>2, <1>5, <1>6, <1>7, <1>8, LinesStep

LEMMA Appended ==
  ASSUME NEW R, NEW s \in Seq(R), NEW r \in R
  PROVE  /\ Append(s, r) \in Seq(R)
         /\ Len(s) \in Nat /\ Len(Append(s, r)) = Len(s) + 1
         /\ DOMAIN s = 1..Len(s) /\ DOMAIN Append(s, r) = 1..(Len(s) + 1)
         /\ \A i \in DOMAIN s : Append(s, r)[i] = s[i]
         /\ Append(s, r)[Len(s) + 1] = r
  OBVIOUS

LEMMA AddDiscountIInv ==
  ASSUME IInv, NEW applied \in Int, NEW courtesy \in BOOLEAN, AddDiscount(applied, courtesy)
  PROVE  IInv'
<1> DEFINE d == [amount |-> applied, courtesy |-> courtesy]
<1>1. /\ ticket.status = Open /\ applied > 0
      /\ discounts' = Append(discounts, d)
      /\ ticket' = Recalculated(ticket, lines, discounts')
      /\ UNCHANGED <<lines, payments, splits>>
  BY DEF AddDiscount
<1>2. /\ lines \in Seq(LineRow) /\ ticket \in TicketRow /\ discounts \in Seq(DiscountRow)
  BY DEF IInv, TypeOK
<1>3. d \in DiscountRow BY <1>1 DEF DiscountRow
<1>4. discounts' \in Seq(DiscountRow) BY <1>1, <1>2, <1>3, Appended
<1>5. /\ ticket' \in TicketRow /\ ticket'.status = Open
      /\ Agrees(ticket', lines, discounts')
  BY <1>1, <1>2, <1>4, RecalculatedAgrees
<1>6. TypeOK' BY <1>1, <1>4, <1>5 DEF IInv, TypeOK
<1>7. Totals' BY <1>1, <1>5 DEF Totals
<1>8. BilledIsSent' /\ FreeOnlyByCourtesy' BY <1>5 DEF BilledIsSent, FreeOnlyByCourtesy
<1>9. SplitLedger' BY <1>1 DEF IInv, SplitLedger
<1>10. Packages' /\ SplitsDisjoint' BY <1>1 DEF IInv, Packages, SplitsDisjoint
<1> QED BY <1>6, <1>7, <1>8, <1>9, <1>10 DEF IInv

LEMMA ApplyDiscountIInv == ASSUME IInv, ApplyDiscount PROVE IInv'
<1>1. PICK courtesy \in BOOLEAN :
        \/ \E a \in DiscountAmounts : AddDiscount(a, courtesy)
        \/ \E bps \in PercentBps :
              AddDiscount(RoundHalfEven(Subtotal(lines) * bps, 10000), courtesy)
  BY DEF ApplyDiscount
<1>2. DiscountAmounts \subseteq Int /\ PercentBps \subseteq Int BY TicketAccountAssumption, SMTT(30)
<1>3. CASE \E a \in DiscountAmounts : AddDiscount(a, courtesy)
  BY <1>2, <1>3, AddDiscountIInv
<1>4. CASE \E bps \in PercentBps :
              AddDiscount(RoundHalfEven(Subtotal(lines) * bps, 10000), courtesy)
  <2>1. PICK bps \in PercentBps :
           AddDiscount(RoundHalfEven(Subtotal(lines) * bps, 10000), courtesy)
    BY <1>4
  <2>2. Subtotal(lines) \in Int BY SubtotalType DEF IInv, TypeOK
  <2>3. \A a, b \in Int : a * b \in Int OBVIOUS
  <2>4. Subtotal(lines) * bps \in Int BY <1>2, <2>2, <2>3
  <2>5. RoundHalfEven(Subtotal(lines) * bps, 10000) \in Int BY <2>4, RoundingType
  <2> QED BY <2>1, <2>5, AddDiscountIInv
<1> QED BY <1>1, <1>3, <1>4

LEMMA StartPaymentIInv == ASSUME IInv, StartPayment PROVE IInv'
<1>1. /\ ticket.status = Open /\ CapturedLines(lines) = {}
      /\ \/ ticket' = [ticket EXCEPT !.status = InPayment]
         \/ FullCourtesy /\ ticket' = [ticket EXCEPT !.status = Paid]
      /\ UNCHANGED <<lines, discounts, payments, splits>>
  BY DEF StartPayment
<1>2. ticket \in TicketRow BY DEF IInv, TypeOK
<1>3. /\ ticket' \in TicketRow /\ ticket'.status \in {InPayment, Paid}
      /\ ticket'.subtotal = ticket.subtotal /\ ticket'.discount = ticket.discount
      /\ ticket'.total = ticket.total
      /\ ticket'.status = Paid => FullCourtesy
  BY <1>1, <1>2 DEF TicketRow
<1>4. Agrees(ticket, lines, discounts) BY <1>1 DEF IInv, Totals
<1>5. TypeOK' BY <1>1, <1>3 DEF IInv, TypeOK
<1>6. Totals' BY <1>1, <1>3, <1>4 DEF Totals, Agrees
<1>7. BilledIsSent' BY <1>1 DEF BilledIsSent
<1>8. FreeOnlyByCourtesy' BY <1>1, <1>3, <1>4 DEF FreeOnlyByCourtesy, FullCourtesy, Agrees
<1>9. SplitLedger' BY <1>1 DEF IInv, SplitLedger
<1>10. Packages' /\ SplitsDisjoint' BY <1>1 DEF IInv, Packages, SplitsDisjoint
<1> QED BY <1>5, <1>6, <1>7, <1>8, <1>9, <1>10 DEF IInv

LEMMA CancelTicketIInv == ASSUME IInv, CancelTicket PROVE IInv'
<1> DEFINE S == DOMAIN lines
<1>1. /\ lines' = CancelLines(S)
      /\ payments' = [i \in DOMAIN payments |-> [payments[i] EXCEPT !.active = FALSE]]
      /\ ticket' = [ticket EXCEPT !.status = Cancelled]
      /\ UNCHANGED <<discounts, splits>>
  BY DEF CancelTicket
<1>2. /\ lines' \in Seq(LineRow) /\ DOMAIN lines' = DOMAIN lines
      /\ \A j \in DOMAIN lines :
            /\ lines'[j].kind = lines[j].kind /\ lines'[j].parent = lines[j].parent
            /\ lines'[j].status = Cancelled
  <2> HIDE DEF S
  <2>1. PICK ls : /\ ls = CancelLines(S) /\ ls \in Seq(LineRow) /\ DOMAIN ls = DOMAIN lines
                  /\ \A j \in DOMAIN lines :
                        /\ ls[j].kind = lines[j].kind /\ ls[j].parent = lines[j].parent
                        /\ ls[j].unit = lines[j].unit /\ ls[j].qty = lines[j].qty
                        /\ ls[j].status = IF j \in S THEN Cancelled ELSE lines[j].status
    BY CancelLinesEffect, Zenon
  <2>2. lines' = ls BY <1>1, <2>1
  <2> QED BY <2>1, <2>2 DEF S
<1>3. payments' \in Seq(PaymentRow) /\ Len(payments') = Len(payments)
      /\ \A p \in DOMAIN payments' : p \in DOMAIN payments /\ payments'[p].split = payments[p].split
  <2>1. payments \in Seq(PaymentRow) BY DEF IInv, TypeOK
  <2>2. \A p \in DOMAIN payments : payments[p] \in PaymentRow BY <2>1
  <2>3. /\ DOMAIN payments' = DOMAIN payments
        /\ payments' = [p \in DOMAIN payments |-> payments'[p]]
        /\ \A p \in DOMAIN payments :
              payments'[p] \in PaymentRow /\ payments'[p].split = payments[p].split
    BY <1>1, <2>2 DEF PaymentRow
  <2>4. payments' \in Seq(PaymentRow) /\ Len(payments') = Len(payments)
    BY <2>1, <2>3, InPlace
  <2> QED BY <2>3, <2>4
<1>4. ticket' \in TicketRow /\ ticket'.status = Cancelled
  BY <1>1 DEF IInv, TypeOK, TicketRow
<1>5. TypeOK' BY <1>1, <1>2, <1>3, <1>4 DEF IInv, TypeOK
<1>6. Packages'
  <2>1. \A i \in DOMAIN lines :
           IF lines[i].kind = Component
           THEN lines[i].parent \in DOMAIN lines /\ lines[lines[i].parent].kind = Parent
           ELSE lines[i].parent = NoParent
    BY DEF IInv, Packages
  <2> QED BY <1>2, <2>1 DEF Packages
<1>7. Totals' /\ BilledIsSent' /\ FreeOnlyByCourtesy' /\ SplitLedger'
  BY <1>4 DEF Totals, BilledIsSent, FreeOnlyByCourtesy, SplitLedger
<1>8. SplitsDisjoint' BY <1>1 DEF IInv, SplitsDisjoint
<1> QED BY <1>5, <1>6, <1>7, <1>8 DEF IInv

-----------------------------------------------------------------------------
(* Payments and splits.                                                    *)

\* A new row adds its amount to the sums that count it and to no other.
LEMMA SumOfAppended ==
  ASSUME NEW R, \A r \in R : r.amount \in Nat, NEW rows \in Seq(R), NEW row \in R,
         NEW S \in SUBSET (DOMAIN rows)
  PROVE  /\ SumOfAmounts(Append(rows, row), S) = SumOfAmounts(rows, S)
         /\ SumOfAmounts(Append(rows, row), S \cup {Len(rows) + 1})
              = SumOfAmounts(rows, S) + row.amount
<1> DEFINE new == Append(rows, row)
           n == Len(rows) + 1
           f == [i \in DOMAIN rows |-> rows[i].amount]
           g == [i \in DOMAIN new |-> new[i].amount]
<1>1. /\ new \in Seq(R) /\ Len(rows) \in Nat
      /\ DOMAIN rows = 1..Len(rows) /\ DOMAIN new = 1..n
      /\ \A i \in DOMAIN rows : new[i] = rows[i]
      /\ new[n] = row
  BY Appended
<1>2. n \in DOMAIN new /\ n \notin S /\ S \in SUBSET (DOMAIN new) BY <1>1
<1>3. \A i \in S : g[i] = f[i] BY <1>1, <1>2
<1>4. g[n] = row.amount BY <1>1, <1>2
<1>5. S \cup {n} \in SUBSET (DOMAIN new) BY <1>2
<1>6. \A i \in S \cup {n} : g[i] \in Int
  <2>1. \A i \in DOMAIN new : new[i] \in R BY <1>1
  <2> HIDE DEF new
  <2> QED BY <1>5, <2>1
<1>7. IsFiniteSet(S) /\ IsFiniteSet(S \cup {n})
  <2> HIDE DEF new, n
  <2> QED BY <1>1, <1>5, RowsAreFinite
<1>8. row.amount \in Int OBVIOUS
<1> HIDE DEF f, g, n
<1>9. SumFunctionOnSet(g, S) = SumFunctionOnSet(f, S) BY <1>3, <1>7, SumsAreEqual
<1>10. (S \cup {n}) \ {n} = S BY <1>2
<1>11. SumFunctionOnSet(g, S \cup {n}) = g[n] + SumFunctionOnSet(g, S)
  <2>1. SumFunctionOnSet(g, S \cup {n}) = g[n] + SumFunctionOnSet(g, (S \cup {n}) \ {n})
    BY <1>6, <1>7, SumWithout
  <2> QED BY <1>10, <2>1
<1>12. SumFunctionOnSet(g, S) \in Int BY <1>6, <1>7, SumIsInt
<1>13. SumFunctionOnSet(g, S \cup {n}) = SumFunctionOnSet(f, S) + row.amount
  BY <1>4, <1>8, <1>9, <1>11, <1>12
<1> QED BY <1>9, <1>13 DEF SumOfAmounts, f, g, n

LEMMA NewPayment ==
  ASSUME NEW ps \in Seq(PaymentRow), NEW p \in PaymentRow, p.active, NEW s
  PROVE  /\ ActivePaid(Append(ps, p)) = ActivePaid(ps) + p.amount
         /\ PaidToSplit(Append(ps, p), s)
              = PaidToSplit(ps, s) + (IF p.split = s THEN p.amount ELSE 0)
<1> DEFINE new == Append(ps, p)
           n == Len(ps) + 1
           All(q) == {i \in DOMAIN q : q[i].active}
           Of(q) == {i \in DOMAIN q : q[i].active /\ q[i].split = s}
<1>0. \A r \in PaymentRow : r.amount \in Nat BY DEF PaymentRow
<1>1. /\ new \in Seq(PaymentRow) /\ Len(ps) \in Nat
      /\ DOMAIN ps = 1..Len(ps) /\ DOMAIN new = 1..n
      /\ \A i \in DOMAIN ps : new[i] = ps[i]
      /\ new[n] = p
  BY Appended
<1>2. DOMAIN new = DOMAIN ps \cup {n} BY <1>1
<1> HIDE DEF n, new
<1>3. All(new) = All(ps) \cup {n} BY <1>1, <1>2
<1>4. p.split = s => Of(new) = Of(ps) \cup {n} BY <1>1, <1>2
<1>5. p.split # s => Of(new) = Of(ps) BY <1>1, <1>2
<1>6. All(ps) \in SUBSET (DOMAIN ps) /\ Of(ps) \in SUBSET (DOMAIN ps) OBVIOUS
<1>7. PaidToSplit(ps, s) \in Nat BY PaidType
<1>8. /\ ActivePaid(ps) = SumOfAmounts(ps, All(ps)) /\ ActivePaid(new) = SumOfAmounts(new, All(new))
      /\ PaidToSplit(ps, s) = SumOfAmounts(ps, Of(ps))
      /\ PaidToSplit(new, s) = SumOfAmounts(new, Of(new))
  BY DEF ActivePaid, PaidToSplit
<1> HIDE DEF All, Of
<1>9. SumOfAmounts(new, All(ps) \cup {n}) = SumOfAmounts(ps, All(ps)) + p.amount
  BY <1>0, <1>6, SumOfAppended DEF new, n
<1>10. /\ SumOfAmounts(new, Of(ps) \cup {n}) = SumOfAmounts(ps, Of(ps)) + p.amount
       /\ SumOfAmounts(new, Of(ps)) = SumOfAmounts(ps, Of(ps))
  BY <1>0, <1>6, SumOfAppended DEF new, n
<1>11. ActivePaid(new) = ActivePaid(ps) + p.amount BY <1>3, <1>8, <1>9
<1>12. PaidToSplit(new, s) = PaidToSplit(ps, s) + (IF p.split = s THEN p.amount ELSE 0)
  <2>1. CASE p.split = s BY <1>4, <1>8, <1>10, <2>1
  <2>2. CASE p.split # s BY <1>5, <1>7, <1>8, <1>10, <2>2
  <2> QED BY <2>1, <2>2
<1> QED BY <1>11, <1>12 DEF new

\* What a payment does to the account, whatever split it is for.
LEMMA RegisterPaymentEffect ==
  ASSUME IInv, NEW amount \in Nat \ {0}, NEW split \in Nat, split <= Len(splits),
         RegisterPayment(amount, split)
  PROVE  /\ ticket' \in TicketRow /\ ticket.status = InPayment
         /\ ticket'.subtotal = ticket.subtotal /\ ticket'.discount = ticket.discount
         /\ ticket'.total = ticket.total
         /\ ticket'.status = IF ActivePaid(payments') >= ticket.total THEN Paid ELSE InPayment
         /\ payments' \in Seq(PaymentRow)
         /\ \A p \in DOMAIN payments' : payments'[p].split <= Len(splits)
         /\ ActivePaid(payments') = ActivePaid(payments) + amount
         /\ \A s \in Nat : PaidToSplit(payments', s)
                     = PaidToSplit(payments, s) + (IF split = s THEN amount ELSE 0)
         /\ UNCHANGED <<lines, discounts>>
         /\ Packages' /\ Totals' /\ BilledIsSent' /\ FreeOnlyByCourtesy'
<1> DEFINE p == [amount |-> amount, split |-> split, active |-> TRUE]
<1>1. /\ payments' = Append(payments, p) /\ ticket.status = InPayment
      /\ \/ ActivePaid(payments') < ticket.total /\ ticket' = ticket
         \/ ActivePaid(payments') >= ticket.total /\ ticket' = [ticket EXCEPT !.status = Paid]
      /\ UNCHANGED <<lines, discounts>>
  BY DEF RegisterPayment
<1>2. /\ ticket \in TicketRow /\ payments \in Seq(PaymentRow)
      /\ \A q \in DOMAIN payments : payments[q].split <= Len(splits)
  BY DEF IInv, TypeOK
<1>3. p \in PaymentRow /\ p.active /\ p.amount = amount /\ p.split = split BY DEF PaymentRow
<1> HIDE DEF p
<1>4. /\ payments' \in Seq(PaymentRow)
      /\ Len(payments) \in Nat
      /\ DOMAIN payments = 1..Len(payments) /\ DOMAIN payments' = 1..(Len(payments) + 1)
      /\ \A i \in DOMAIN payments : payments'[i] = payments[i]
      /\ payments'[Len(payments) + 1] = p
  <2>1. payments' = Append(payments, p) BY <1>1
  <2> QED BY <1>2, <1>3, <2>1, Appended
<1>5. \A q \in DOMAIN payments' : payments'[q].split <= Len(splits)
  BY <1>2, <1>3, <1>4
<1>6. /\ ActivePaid(payments') = ActivePaid(payments) + amount
      /\ \A s \in Nat : PaidToSplit(payments', s)
                  = PaidToSplit(payments, s) + (IF split = s THEN amount ELSE 0)
  <2>1. payments' = Append(payments, p) BY <1>1
  <2>2. ASSUME NEW s \in Nat
        PROVE  /\ ActivePaid(payments') = ActivePaid(payments) + amount
               /\ PaidToSplit(payments', s)
                    = PaidToSplit(payments, s) + (IF split = s THEN amount ELSE 0)
    BY <1>2, <1>3, <2>1, NewPayment
  <2>3. 0 \in Nat OBVIOUS
  <2> QED BY <2>2, <2>3
<1>7. ActivePaid(payments) \in Nat BY <1>2, PaidType
<1>8. /\ ticket' \in TicketRow
      /\ ticket'.subtotal = ticket.subtotal /\ ticket'.discount = ticket.discount
      /\ ticket'.total = ticket.total
      /\ ticket'.status = IF ActivePaid(payments') >= ticket.total THEN Paid ELSE InPayment
  <2>0. ActivePaid(payments') = ActivePaid(payments) + amount BY <1>6
  <2>1. ActivePaid(payments') \in Nat /\ ticket.total \in Nat
    <3>1. ticket.total \in Nat BY <1>2 DEF TicketRow
    <3>2. ActivePaid(payments') \in Nat BY <1>7, <2>0
    <3> QED BY <3>1, <3>2
  <2> DEFINE paid == ActivePaid(payments')
             due == ticket.total
  <2>5. \/ paid < due /\ ticket' = ticket
        \/ paid >= due /\ ticket' = [ticket EXCEPT !.status = Paid]
    BY <1>1
  <2>6. paid \in Nat /\ due \in Nat BY <2>1
  <2>2. CASE ActivePaid(payments') < ticket.total
    <3>1. paid < due BY <2>2
    <3>2. ticket' = ticket /\ ~(paid >= due)
      <4> HIDE DEF paid, due
      <4> QED BY <2>5, <2>6, <3>1
    <3> QED BY <1>1, <1>2, <3>2
  <2>3. CASE ActivePaid(payments') >= ticket.total
    <3>1. paid >= due BY <2>3
    <3>2. ticket' = [ticket EXCEPT !.status = Paid]
      <4> HIDE DEF paid, due
      <4> QED BY <2>5, <2>6, <3>1
    <3> QED BY <1>2, <2>3, <3>2 DEF TicketRow
  <2>4. ActivePaid(payments') < ticket.total \/ ActivePaid(payments') >= ticket.total BY <2>1
  <2> QED BY <2>2, <2>3, <2>4
<1>9. Packages' BY <1>1 DEF IInv, Packages
<1>10. Totals' BY <1>1, <1>8 DEF IInv, Totals, Agrees
<1>11. BilledIsSent' BY <1>1 DEF IInv, BilledIsSent
<1>12. ActivePaid(payments') # 0 BY <1>6, <1>7
<1>13. FreeOnlyByCourtesy' BY <1>12 DEF FreeOnlyByCourtesy
<1> QED BY <1>1, <1>4, <1>5, <1>6, <1>8, <1>9, <1>10, <1>11, <1>13

LEMMA CreatePaymentIInv ==
  ASSUME IInv, NEW a \in PaymentAmounts, CreatePayment(a)
  PROVE  IInv'
<1>1. a \in Nat \ {0} BY TicketAccountAssumption, SMTT(30)
<1>2. RegisterPayment(a, NoSplit) /\ UNCHANGED splits BY DEF CreatePayment
<1>3. Len(splits) \in Nat /\ NoSplit <= Len(splits) /\ NoSplit \in Nat BY DEF IInv, TypeOK
<1>4. /\ ticket' \in TicketRow /\ ticket.status = InPayment
      /\ payments' \in Seq(PaymentRow)
      /\ \A p \in DOMAIN payments' : payments'[p].split <= Len(splits)
      /\ \A s \in Nat : PaidToSplit(payments', s)
                  = PaidToSplit(payments, s) + (IF NoSplit = s THEN a ELSE 0)
      /\ UNCHANGED <<lines, discounts>>
      /\ Packages' /\ Totals' /\ BilledIsSent' /\ FreeOnlyByCourtesy'
  BY <1>1, <1>2, <1>3, RegisterPaymentEffect
<1>5. TypeOK' BY <1>2, <1>4 DEF IInv, TypeOK
<1>6. \A s \in DOMAIN splits : PaidToSplit(payments', s) = PaidToSplit(payments, s)
  <2> TAKE s \in DOMAIN splits
  <2>1. NoSplit # s BY DEF IInv, TypeOK
  <2>2. PaidToSplit(payments, s) \in Nat BY PaidType DEF IInv, TypeOK
  <2>3. s \in Nat BY DEF IInv, TypeOK
  <2>4. PaidToSplit(payments', s) = PaidToSplit(payments, s) + 0 BY <1>4, <2>1, <2>3
  <2> QED BY <2>2, <2>4
<1>7. SplitLedger' BY <1>2, <1>4, <1>6 DEF IInv, SplitLedger
<1>8. SplitsDisjoint' BY <1>2 DEF IInv, SplitsDisjoint
<1> QED BY <1>4, <1>5, <1>7, <1>8 DEF IInv

LEMMA PaySplitIInv ==
  ASSUME IInv, NEW a \in PaymentAmounts, NEW s \in DOMAIN splits, PaySplit(s, a)
  PROVE  IInv'
<1> DEFINE before == PaidToSplit(payments, s)
<1>0. /\ splits \in Seq(SplitRow) /\ payments \in Seq(PaymentRow)
      /\ DOMAIN splits = 1..Len(splits) /\ Len(splits) \in Nat
  BY DEF IInv, TypeOK
<1>1. a \in Nat \ {0} BY TicketAccountAssumption, SMTT(30)
<1>2. /\ splits[s].status = SplitOpen /\ before + a <= splits[s].amount
      /\ RegisterPayment(a, s)
      /\ splits' = IF before + a = splits[s].amount
                   THEN [splits EXCEPT ![s].status = SplitPaid] ELSE splits
  BY DEF PaySplit
<1>3. s \in Nat /\ s <= Len(splits) BY <1>0
<1>4. /\ ticket' \in TicketRow /\ ticket.status = InPayment
      /\ payments' \in Seq(PaymentRow)
      /\ \A p \in DOMAIN payments' : payments'[p].split <= Len(splits)
      /\ \A r \in Nat : PaidToSplit(payments', r)
                  = PaidToSplit(payments, r) + (IF s = r THEN a ELSE 0)
      /\ UNCHANGED <<lines, discounts>>
      /\ Packages' /\ Totals' /\ BilledIsSent' /\ FreeOnlyByCourtesy'
  BY <1>1, <1>2, <1>3, RegisterPaymentEffect
<1>5. \A r \in DOMAIN splits : splits[r] \in SplitRow BY <1>0
<1> DEFINE now == IF before + a = splits[s].amount THEN SplitPaid ELSE SplitOpen
<1>6. /\ DOMAIN splits' = DOMAIN splits /\ splits' = [r \in DOMAIN splits |-> splits'[r]]
      /\ \A r \in DOMAIN splits :
            /\ splits'[r] \in SplitRow
            /\ splits'[r].lines = splits[r].lines /\ splits'[r].amount = splits[r].amount
            /\ splits'[r].status = IF r = s THEN now ELSE splits[r].status
  <2>1. CASE before + a = splits[s].amount
    <3>1. splits' = [splits EXCEPT ![s].status = SplitPaid] BY <1>2, <2>1
    <3> HIDE DEF before
    <3> QED BY <1>5, <2>1, <3>1 DEF SplitRow
  <2>2. CASE before + a # splits[s].amount
    <3>1. splits' = splits BY <1>2, <2>2
    <3>2. splits = [r \in DOMAIN splits |-> splits[r]] BY <1>0
    <3> HIDE DEF before
    <3> QED BY <1>2, <1>5, <2>2, <3>1, <3>2
  <2> QED BY <2>1, <2>2
<1>7. splits' \in Seq(SplitRow) /\ Len(splits') = Len(splits) BY <1>0, <1>6, InPlace
<1>8. TypeOK' BY <1>4, <1>7 DEF IInv, TypeOK
<1>9. ASSUME NEW r \in DOMAIN splits
      PROVE  /\ PaidToSplit(payments', r) <= splits'[r].amount
             /\ splits'[r].status = SplitPaid
                   <=> PaidToSplit(payments', r) = splits'[r].amount /\ PaidToSplit(payments', r) > 0
             /\ splits'[r].status = SplitCancelled => PaidToSplit(payments', r) = 0
  <2>1. /\ PaidToSplit(payments, r) <= splits[r].amount
        /\ splits[r].status = SplitPaid
              <=> PaidToSplit(payments, r) = splits[r].amount /\ PaidToSplit(payments, r) > 0
        /\ splits[r].status = SplitCancelled => PaidToSplit(payments, r) = 0
    BY <1>4 DEF IInv, SplitLedger
  <2>2. PaidToSplit(payments, r) \in Nat BY <1>0, PaidType
  <2>3. r \in Nat BY <1>0
  <2>4. splits[r].amount \in Nat BY <1>5 DEF SplitRow
  <2>5. CASE r = s
    <3>1. PaidToSplit(payments', r) = before + a BY <1>4, <2>3, <2>5
    <3>2. before \in Nat BY <2>2, <2>5
    <3>3. splits'[r].amount = splits[s].amount /\ splits'[r].status = now BY <1>6, <2>5
    <3>4. splits[s].amount \in Nat BY <2>4, <2>5
    <3> HIDE DEF before
    <3> QED BY <1>1, <1>2, <3>1, <3>2, <3>3, <3>4
  <2>6. CASE r # s
    <3>1. PaidToSplit(payments', r) = PaidToSplit(payments, r) + 0 BY <1>4, <2>3, <2>6
    <3>2. PaidToSplit(payments', r) = PaidToSplit(payments, r) BY <2>2, <3>1
    <3>3. splits'[r].amount = splits[r].amount /\ splits'[r].status = splits[r].status
      BY <1>6, <2>6
    <3> QED BY <2>1, <3>2, <3>3
  <2> QED BY <2>5, <2>6
<1>10. SplitLedger' BY <1>6, <1>9 DEF SplitLedger
<1>11. SplitsDisjoint'
  <2>1. \A r \in DOMAIN splits : splits'[r].status # SplitCancelled => splits[r].status # SplitCancelled
    <3> HIDE DEF before
    <3> QED BY <1>2, <1>6
  <2>2. \A r \in DOMAIN splits : splits'[r].lines = splits[r].lines BY <1>6
  <2>3. DOMAIN splits' = DOMAIN splits BY <1>6
  <2> QED BY <2>1, <2>2, <2>3 DEF IInv, SplitsDisjoint, LiveSplits
<1> QED BY <1>4, <1>8, <1>10, <1>11 DEF IInv

LEMMA CancelSplitsIInv == ASSUME IInv, CancelSplits PROVE IInv'
<1>0. splits \in Seq(SplitRow) /\ payments \in Seq(PaymentRow) BY DEF IInv, TypeOK
<1>1. /\ \A i \in DOMAIN payments : payments[i].active => payments[i].split \notin LiveSplits(splits)
      /\ splits' = [s \in DOMAIN splits |-> [splits[s] EXCEPT !.status = SplitCancelled]]
      /\ UNCHANGED <<ticket, lines, discounts, payments>>
  BY DEF CancelSplits
<1>2. \A r \in DOMAIN splits : splits[r] \in SplitRow BY <1>0
<1>3. /\ DOMAIN splits' = DOMAIN splits /\ splits' = [r \in DOMAIN splits |-> splits'[r]]
      /\ \A r \in DOMAIN splits :
            /\ splits'[r] \in SplitRow /\ splits'[r].amount = splits[r].amount
            /\ splits'[r].status = SplitCancelled
  BY <1>1, <1>2 DEF SplitRow
<1>4. splits' \in Seq(SplitRow) /\ Len(splits') = Len(splits) BY <1>0, <1>3, InPlace
<1>5. TypeOK' BY <1>1, <1>4 DEF IInv, TypeOK
<1>6. ASSUME NEW r \in DOMAIN splits, ticket.status # Cancelled
      PROVE  PaidToSplit(payments, r) = 0 /\ 0 <= splits[r].amount
  <2>1. CASE r \in LiveSplits(splits)
    <3>1. {i \in DOMAIN payments : payments[i].active /\ payments[i].split = r} = {}
      BY <1>1, <2>1
    <3>2. PaidToSplit(payments, r) = 0
      <4>1. SumOfAmounts(payments, {}) = 0 BY SumOfNone DEF SumOfAmounts
      <4> QED BY <3>1, <4>1 DEF PaidToSplit
    <3>3. splits[r].amount \in Nat BY <1>2 DEF SplitRow
    <3> QED BY <3>2, <3>3
  <2>2. CASE r \notin LiveSplits(splits)
    <3>1. splits[r].status = SplitCancelled BY <2>2 DEF LiveSplits
    <3> QED BY <1>2, <1>6, <3>1 DEF IInv, SplitLedger, SplitRow
  <2> QED BY <2>1, <2>2
<1>7. SplitLedger' BY <1>1, <1>3, <1>6 DEF SplitLedger
<1>8. SplitsDisjoint' BY <1>3 DEF SplitsDisjoint, LiveSplits
<1>9. Packages' /\ Totals' /\ BilledIsSent' /\ FreeOnlyByCourtesy'
  BY <1>1 DEF IInv, Packages, Totals, BilledIsSent, FreeOnlyByCourtesy
<1> QED BY <1>5, <1>7, <1>8, <1>9 DEF IInv

LEMMA PaymentsOfSplits ==
  ASSUME IInv
  PROVE  \A p \in DOMAIN payments : payments[p].split \in Nat /\ payments[p].split <= Len(splits)
<1>1. /\ payments \in Seq(PaymentRow)
      /\ \A p \in DOMAIN payments : payments[p].split <= Len(splits)
  BY DEF IInv, TypeOK
<1>2. \A p \in DOMAIN payments : payments[p] \in PaymentRow BY <1>1
<1> QED BY <1>1, <1>2 DEF PaymentRow

\* A split that does not exist yet has received nothing.
LEMMA NothingPaidYet ==
  ASSUME IInv, NEW s \in Nat, s > Len(splits)
  PROVE  PaidToSplit(payments, s) = 0
<1>1. Len(splits) \in Nat BY DEF IInv, TypeOK
<1>2. \A p \in DOMAIN payments : payments[p].split \in Nat /\ payments[p].split <= Len(splits)
  BY PaymentsOfSplits
<1>3. {i \in DOMAIN payments : payments[i].active /\ payments[i].split = s} = {}
  BY <1>1, <1>2
<1>4. SumOfAmounts(payments, {}) = 0 BY SumOfNone DEF SumOfAmounts
<1> QED BY <1>3, <1>4 DEF PaidToSplit

\* New splits are open and share no line with a live one.
LEMMA NewSplits ==
  ASSUME IInv, NEW more \in Seq(SplitRow), more # <<>>,
         \A k \in DOMAIN more : more[k].status = SplitOpen,
         splits' = splits \o more, UNCHANGED <<ticket, lines, discounts, payments>>,
         \A j, k \in DOMAIN more : j # k => more[j].lines \cap more[k].lines = {},
         \A s \in LiveSplits(splits), k \in DOMAIN more : splits[s].lines \cap more[k].lines = {}
  PROVE  IInv'
<1> DEFINE all == splits \o more
           at(i) == i - Len(splits)
<1>1. splits \in Seq(SplitRow) BY DEF IInv, TypeOK
<1>2. /\ all \in Seq(SplitRow) /\ DOMAIN all = 1..(Len(splits) + Len(more))
      /\ Len(more) \in Nat \ {0} /\ Len(splits) \in Nat /\ 1 \in DOMAIN more
      /\ \A i \in DOMAIN splits : i \in DOMAIN all /\ all[i] = splits[i]
      /\ \A i \in DOMAIN all : i \notin DOMAIN splits =>
            i > Len(splits) /\ at(i) \in DOMAIN more /\ all[i] = more[at(i)]
  BY <1>1, Concatenation
<1>3. \A i \in DOMAIN all : i \in Nat BY <1>2
<1>4. splits' = all OBVIOUS
<1>5. Len(all) \in Nat /\ Len(splits) <= Len(all) BY <1>2
<1> HIDE DEF all
<1>6. TypeOK'
  <2>1. \A p \in DOMAIN payments : payments[p].split \in Nat /\ payments[p].split <= Len(splits)
    BY PaymentsOfSplits
  <2>2. \A p \in DOMAIN payments : payments[p].split <= Len(all) BY <1>2, <1>5, <2>1
  <2> QED BY <1>2, <1>4, <2>2 DEF IInv, TypeOK
<1>7. ASSUME NEW i \in DOMAIN all, ticket.status # Cancelled
      PROVE  /\ PaidToSplit(payments, i) <= all[i].amount
             /\ all[i].status = SplitPaid
                   <=> PaidToSplit(payments, i) = all[i].amount /\ PaidToSplit(payments, i) > 0
             /\ all[i].status = SplitCancelled => PaidToSplit(payments, i) = 0
  <2>1. CASE i \in DOMAIN splits BY <1>2, <1>7, <2>1 DEF IInv, SplitLedger
  <2>2. CASE i \notin DOMAIN splits
    <3>1. PaidToSplit(payments, i) = 0 BY <1>2, <1>3, <2>2, NothingPaidYet
    <3>2. all[i].status = SplitOpen BY <1>2, <2>2
    <3>3. all[i] \in SplitRow BY <1>2
    <3>4. all[i].amount \in Nat BY <3>3 DEF SplitRow
    <3> QED BY <3>1, <3>2, <3>4
  <2> QED BY <2>1, <2>2
<1>8. SplitLedger' BY <1>4, <1>7 DEF SplitLedger
<1>9. ASSUME NEW r \in LiveSplits(all), NEW s \in LiveSplits(all), r # s
      PROVE  all[r].lines \cap all[s].lines = {}
  <2>0. r \in DOMAIN all /\ s \in DOMAIN all BY DEF LiveSplits
  <2>1. \A i \in LiveSplits(all) : i \in DOMAIN splits => i \in LiveSplits(splits)
    BY <1>2 DEF LiveSplits
  <2>2. CASE r \in DOMAIN splits /\ s \in DOMAIN splits
    BY <1>2, <1>9, <2>1, <2>2 DEF IInv, SplitsDisjoint
  <2>3. CASE r \in DOMAIN splits /\ s \notin DOMAIN splits
    <3>1. at(s) \in DOMAIN more /\ all[s] = more[at(s)] BY <1>2, <2>0, <2>3
    <3>2. r \in LiveSplits(splits) /\ all[r] = splits[r] BY <1>2, <2>1, <2>3
    <3> QED BY <3>1, <3>2
  <2>4. CASE r \notin DOMAIN splits /\ s \in DOMAIN splits
    <3>1. at(r) \in DOMAIN more /\ all[r] = more[at(r)] BY <1>2, <2>0, <2>4
    <3>2. s \in LiveSplits(splits) /\ all[s] = splits[s] BY <1>2, <2>1, <2>4
    <3>3. splits[s].lines \cap more[at(r)].lines = {} BY <3>1, <3>2
    <3> QED BY <3>1, <3>2, <3>3
  <2>5. CASE r \notin DOMAIN splits /\ s \notin DOMAIN splits
    <3>1. /\ at(r) \in DOMAIN more /\ all[r] = more[at(r)]
          /\ at(s) \in DOMAIN more /\ all[s] = more[at(s)]
      BY <1>2, <2>0, <2>5
    <3>2. at(r) # at(s) BY <1>2, <1>3, <1>9, <2>0
    <3> QED BY <3>1, <3>2
  <2> QED BY <2>2, <2>3, <2>4, <2>5
<1>10. SplitsDisjoint' BY <1>4, <1>9 DEF SplitsDisjoint
<1>11. Packages' /\ Totals' /\ BilledIsSent' /\ FreeOnlyByCourtesy'
  BY DEF IInv, Packages, Totals, BilledIsSent, FreeOnlyByCourtesy
<1> QED BY <1>6, <1>8, <1>10, <1>11 DEF IInv

LEMMA EqualAmountType ==
  ASSUME NEW total \in Nat, NEW parts \in Nat \ {0}, NEW k \in Nat
  PROVE  EqualAmount(total, parts, k) \in Nat
  BY DEF EqualAmount

\* The parts that create_equal_splits appends.
EqualRows(total, parts) ==
    [k \in 1..parts |->
        [type |-> EqualParts, amount |-> EqualAmount(total, parts, k),
         status |-> SplitOpen, lines |-> {}]]

LEMMA EqualRowsType ==
  ASSUME NEW total \in Nat, NEW parts \in PartCounts
  PROVE  /\ EqualRows(total, parts) \in Seq(SplitRow)
         /\ parts \in Nat \ {0}
         /\ DOMAIN EqualRows(total, parts) = 1..parts /\ Len(EqualRows(total, parts)) = parts
<1>1. PartCounts \subseteq 2..50 BY TicketAccountAssumption, SMTT(30)
<1>2. parts \in Nat \ {0} BY <1>1
<1>3. ASSUME NEW k \in 1..parts
      PROVE  [type |-> EqualParts, amount |-> EqualAmount(total, parts, k),
              status |-> SplitOpen, lines |-> {}] \in SplitRow
  <2>1. EqualAmount(total, parts, k) \in Nat BY <1>2, EqualAmountType
  <2> QED BY <2>1 DEF SplitRow
<1>4. EqualRows(total, parts) \in [1..parts -> SplitRow] BY <1>3 DEF EqualRows
<1> QED BY <1>2, <1>4

LEMMA CreateEqualSplitsIInv ==
  ASSUME IInv, NEW parts \in PartCounts, CreateEqualSplits(parts)
  PROVE  IInv'
<1> DEFINE more == EqualRows(ticket.total, parts)
<1>1. ticket.total \in Nat BY DEF IInv, TypeOK, TicketRow
<1>2. more \in Seq(SplitRow) /\ parts \in Nat \ {0} /\ DOMAIN more = 1..parts /\ Len(more) = parts
  BY <1>1, EqualRowsType
<1>3. more # <<>> BY <1>2
<1>4. \A k \in DOMAIN more : more[k].status = SplitOpen /\ more[k].lines = {}
  BY <1>2 DEF EqualRows
<1>5. /\ LiveSplits(splits) = {} /\ splits' = splits \o more
      /\ UNCHANGED <<ticket, lines, discounts, payments>>
  BY DEF CreateEqualSplits, EqualRows
<1> HIDE DEF more
<1> QED BY <1>2, <1>3, <1>4, <1>5, NewSplits

LEMMA ShareType ==
  ASSUME NEW i \in LiveLines(lines), IInv, SumOfLines(lines, LiveLines(lines)) > 0
  PROVE  Share(i) \in Nat
<1> DEFINE live == LiveLines(lines)
           W == SumOfLines(lines, live)
           base(j) == (LineTotal(lines[j]) * ticket.total) \div W
           rest == ticket.total - SumFunction([j \in live |-> base(j)])
           rank == Cardinality({j \in live : j <= i})
<1>1. lines \in Seq(LineRow) /\ ticket.total \in Nat BY DEF IInv, TypeOK, TicketRow
<1>2. W \in Nat \ {0} BY <1>1, SumOfLinesType DEF LiveLines
<1>3. lines[i] \in LineRow BY <1>1 DEF LiveLines
<1>4. LineTotal(lines[i]) \in Nat BY <1>3, LineTotalType
<1>5. \A a, b \in Nat : a * b \in Nat OBVIOUS
<1>6. LineTotal(lines[i]) * ticket.total \in Nat BY <1>1, <1>4, <1>5
<1>7. \A a \in Nat, b \in Nat \ {0} : a \div b \in Nat OBVIOUS
<1>8. base(i) \in Nat
  <2> HIDE DEF W
  <2> QED BY <1>2, <1>6, <1>7
<1>9. Share(i) = base(i) + (IF rank <= rest THEN 1 ELSE 0) BY DEF Share
<1> HIDE DEF base, rest, rank
<1> QED BY <1>8, <1>9

LEMMA CreateLinesSplitIInv ==
  ASSUME IInv, NEW S \in SUBSET LiveLines(lines), CreateLinesSplit(S)
  PROVE  IInv'
<1> DEFINE row == [type |-> ByLines, amount |-> SumFunction([i \in S |-> Share(i)]),
                   status |-> SplitOpen, lines |-> S]
           more == <<row>>
<1>1. /\ \A i \in S : ~InLiveSplit(i)
      /\ SumOfLines(lines, LiveLines(lines)) > 0
      /\ splits' = Append(splits, row)
      /\ UNCHANGED <<ticket, lines, discounts, payments>>
  BY DEF CreateLinesSplit
<1>2. SumFunction([i \in S |-> Share(i)]) \in Nat
  <2> DEFINE f == [i \in S |-> Share(i)]
  <2>1. \A i \in S : f[i] \in Nat BY <1>1, ShareType
  <2>2. IsFiniteSet(S)
    <3>1. S \in SUBSET (DOMAIN lines) BY DEF LiveLines
    <3>2. lines \in Seq(LineRow) BY DEF IInv, TypeOK
    <3> QED BY <3>1, <3>2, RowsAreFinite
  <2>3. DOMAIN f = S OBVIOUS
  <2> HIDE DEF f
  <2>4. SumFunctionOnSet(f, S) \in Nat BY <2>1, <2>2, SumIsNat
  <2> QED BY <2>3, <2>4 DEF SumFunction, f
<1>3. S \subseteq Nat BY DEF LiveLines, IInv, TypeOK
<1>4. row \in SplitRow BY <1>2, <1>3 DEF SplitRow
<1>5. row.status = SplitOpen /\ row.lines = S OBVIOUS
<1> HIDE DEF row
<1>6. more \in Seq(SplitRow) /\ more # <<>> /\ DOMAIN more = {1} /\ more[1] = row BY <1>4
<1>7. splits \in Seq(SplitRow) BY DEF IInv, TypeOK
<1>8. splits' = splits \o more BY <1>1, <1>4, <1>7
<1>9. \A s \in LiveSplits(splits) : splits[s].lines \cap S = {}
  BY <1>1 DEF InLiveSplit
<1> HIDE DEF more
<1> QED BY <1>1, <1>5, <1>6, <1>8, <1>9, NewSplits

-----------------------------------------------------------------------------
(* The invariant holds.                                                    *)

LEMMA NextIInv ==
  ASSUME NoOptionPaysBack, IInv, [Next]_vars
  PROVE  IInv'
<1>0. CASE UNCHANGED vars
  <2>1. UNCHANGED <<ticket, lines, discounts, payments, splits>> BY <1>0 DEF vars
  <2> QED BY <2>1 DEF IInv, TypeOK, Packages, Totals, BilledIsSent, FreeOnlyByCourtesy,
                      SplitLedger, SplitsDisjoint
<1>1. Len(lines) + 1 \in Nat BY DEF IInv, TypeOK
<1>2. CASE \E price \in Prices, q \in Quantities :
              \/ AddProduct(<<NewLine(Simple, NoParent, q, price)>>)
              \/ AddProduct(PackageLines(Len(lines) + 1, price, q))
  <2>1. PICK price \in Prices, q \in Quantities :
              \/ AddProduct(<<NewLine(Simple, NoParent, q, price)>>)
              \/ AddProduct(PackageLines(Len(lines) + 1, price, q))
    BY <1>2
  <2>2. price \in Nat BY DEF NoOptionPaysBack
  <2>3. CASE AddProduct(<<NewLine(Simple, NoParent, q, price)>>)
    BY <1>1, <2>2, <2>3, CapturesSimple, AddProductIInv
  <2>4. CASE AddProduct(PackageLines(Len(lines) + 1, price, q))
    BY <1>1, <2>2, <2>4, CapturesPackage, AddProductIInv
  <2> QED BY <2>1, <2>3, <2>4
<1>3. CASE \E i \in DOMAIN lines :
              \/ \E q \in Quantities \cup {lines[i].qty}, unit \in Prices \cup {lines[i].unit} :
                    ModifyLine(i, q, unit)
              \/ CancelLine(i)
  BY <1>3, ModifyLineIInv, CancelLineIInv
<1>4. CASE \E parts \in PartCounts : CreateEqualSplits(parts)
  BY <1>4, CreateEqualSplitsIInv
<1>5. CASE \E S \in SUBSET LiveLines(lines) : CreateLinesSplit(S)
  BY <1>5, CreateLinesSplitIInv
<1>6. CASE \E a \in PaymentAmounts :
              \/ CreatePayment(a)
              \/ \E s \in DOMAIN splits : PaySplit(s, a)
  BY <1>6, CreatePaymentIInv, PaySplitIInv
<1> QED BY <1>0, <1>2, <1>3, <1>4, <1>5, <1>6, OpenTicketIInv, SendRoundIInv, ApplyDiscountIInv,
           CancelSplitsIInv, StartPaymentIInv, CancelTicketIInv DEF Next

\* The inductive invariant holds in every reachable state.
THEOREM Invariance ==
    ASSUME NoOptionPaysBack
    PROVE  Spec => []IInv
<1>1. Init => IInv BY InitIInv
<1>2. IInv /\ [Next]_vars => IInv' BY NextIInv
<1> QED BY <1>1, <1>2, PTL DEF Spec

\* Rows keep their shape and refer to rows that exist.
THEOREM TypeCorrect ==
    ASSUME NoOptionPaysBack
    PROVE  Spec => []TypeOK
<1>1. IInv => TypeOK BY DEF IInv
<1> QED BY <1>1, Invariance, PTL

\* Until the account is cancelled the stored totals are those of its rows
\* (recalculate_ticket_totals and its callers).
THEOREM TotalsAlwaysAgree ==
    ASSUME NoOptionPaysBack
    PROVE  Spec => []TotalsAgree
<1>1. IInv => TotalsAgree
  BY RecalculatedAgrees DEF IInv, TypeOK, Totals, TotalsAgree
<1> QED BY <1>1, Invariance, PTL

\* A package and its components share their status (add_product_to_ticket,
\* send_round, cancel_ticket_line).
THEOREM PackagesMoveTogether ==
    ASSUME NoOptionPaysBack
    PROVE  Spec => []PackageMovesTogether
<1>1. IInv => PackageMovesTogether BY DEF IInv, Packages, PackageMovesTogether
<1> QED BY <1>1, Invariance, PTL

\* An account being billed has nothing left to send (start_payment).
THEOREM BilledIsAlwaysSent ==
    ASSUME NoOptionPaysBack
    PROVE  Spec => []BilledIsSent
<1>1. IInv => BilledIsSent BY DEF IInv
<1> QED BY <1>1, Invariance, PTL

\* An account closed without money was a full courtesy
\* (_close_zero_total_courtesy_ticket, create_payment).
THEOREM NothingIsFreeOtherwise ==
    ASSUME NoOptionPaysBack
    PROVE  Spec => []FreeOnlyByCourtesy
<1>1. IInv => FreeOnlyByCourtesy BY DEF IInv
<1> QED BY <1>1, Invariance, PTL

\* The status of a split is what its payments say (pay_split,
\* cancel_ticket_splits).
THEOREM SplitsKeepTheirLedger ==
    ASSUME NoOptionPaysBack
    PROVE  Spec => []SplitLedger
<1>1. IInv => SplitLedger BY DEF IInv
<1> QED BY <1>1, Invariance, PTL

LEMMA AtMostOne ==
  ASSUME NEW T, \A x, y \in T : x = y
  PROVE  Cardinality(T) <= 1
<1>1. CASE T = {} BY <1>1, FS_EmptySet
<1>2. CASE T # {}
  <2>1. PICK x \in T : TRUE BY <1>2
  <2>2. T = {x} BY <2>1
  <2>3. Cardinality({x}) = 1 BY FS_Singleton
  <2> QED BY <2>2, <2>3
<1> QED BY <1>1, <1>2

\* No line is charged twice (create_lines_split).
THEOREM LinesAreSplitOnce ==
    ASSUME NoOptionPaysBack
    PROVE  Spec => []OneSplitPerLine
<1>1. IInv => OneSplitPerLine
  <2> SUFFICES ASSUME IInv, NEW i \in DOMAIN lines
               PROVE  Cardinality({s \in LiveSplits(splits) : i \in splits[s].lines}) <= 1
    BY DEF OneSplitPerLine
  <2> DEFINE T == {s \in LiveSplits(splits) : i \in splits[s].lines}
  <2>1. \A r, s \in T : r = s BY DEF IInv, SplitsDisjoint
  <2> HIDE DEF T
  <2>2. Cardinality(T) <= 1 BY <2>1, AtMostOne
  <2> QED BY <2>2 DEF T
<1> QED BY <1>1, Invariance, PTL

\* Nothing on a settled or cancelled account changes again, but for splits
\* that are withdrawn (the status checks of every service).
THEOREM SettledStaysSettled == Spec => SettledIsFinal
<1>1. ASSUME Next, ticket.status \in {Paid, Cancelled}
      PROVE  UNCHANGED <<ticket, lines, discounts, payments>>
  <2>1. ASSUME NEW newLines PROVE ~AddProduct(newLines) BY <1>1 DEF AddProduct
  <2>2. ASSUME NEW i, NEW q, NEW unit PROVE ~ModifyLine(i, q, unit) BY <1>1 DEF ModifyLine
  <2>3. ASSUME NEW i PROVE ~CancelLine(i) BY <1>1 DEF CancelLine
  <2>4. ASSUME NEW a, NEW c PROVE ~AddDiscount(a, c) BY <1>1 DEF AddDiscount
  <2>5. ~ApplyDiscount BY <2>4 DEF ApplyDiscount
  <2>6. ASSUME NEW n PROVE ~CreateEqualSplits(n) BY <1>1 DEF CreateEqualSplits
  <2>7. ASSUME NEW S PROVE ~CreateLinesSplit(S) BY <1>1 DEF CreateLinesSplit
  <2>8. ASSUME NEW a, NEW s PROVE ~RegisterPayment(a, s) BY <1>1 DEF RegisterPayment
  <2>9. ASSUME NEW a PROVE ~CreatePayment(a) BY <2>8 DEF CreatePayment
  <2>10. ASSUME NEW a, NEW s PROVE ~PaySplit(s, a) BY <2>8 DEF PaySplit
  <2>11. ~OpenTicket /\ ~SendRound /\ ~StartPayment /\ ~CancelTicket
    BY <1>1 DEF OpenTicket, SendRound, StartPayment, CancelTicket
  <2>12. CancelSplits
    BY <1>1, <2>1, <2>2, <2>3, <2>5, <2>6, <2>7, <2>9, <2>10, <2>11, Zenon DEF Next
  <2> QED BY <2>12 DEF CancelSplits
<1>2. [Next]_vars => [ticket.status \in {Paid, Cancelled}
                        => UNCHANGED <<ticket, lines, discounts, payments>>]_vars
  BY <1>1
<1> QED BY <1>2, PTL DEF Spec, SettledIsFinal

-----------------------------------------------------------------------------
(* The account implements AccountLifecycle.                                *)

\* What the lifecycle calls paid.
paid == ActivePaid(payments)

LEMMA TotalsOfIInv ==
  ASSUME IInv
  PROVE  /\ lines \in Seq(LineRow) /\ discounts \in Seq(DiscountRow)
         /\ ticket \in TicketRow /\ ticket.total \in Nat
         /\ ticket.subtotal \in Nat /\ ticket.discount \in Nat
         /\ paid \in Nat
  BY PaidType DEF IInv, TypeOK, TicketRow, paid

\* A cancelled line takes its amount off the account and adds nothing.
LEMMA CancelledLinesCostNothing ==
  ASSUME NEW ls \in Seq(LineRow), NEW ks \in Seq(LineRow), DOMAIN ks = DOMAIN ls,
         \A i \in DOMAIN ls : /\ ks[i].unit = ls[i].unit /\ ks[i].qty = ls[i].qty
                              /\ ks[i].kind = ls[i].kind
                              /\ ls[i].status = Cancelled => ks[i].status = Cancelled
  PROVE  Subtotal(ks) <= Subtotal(ls)
<1> DEFINE f == [i \in DOMAIN ls |-> LineTotal(ls[i])]
           g == [i \in DOMAIN ks |-> LineTotal(ks[i])]
           S == Chargeable(ls)
           T == Chargeable(ks)
<1>1. T \in SUBSET S /\ S \in SUBSET (DOMAIN ls) /\ T \in SUBSET (DOMAIN ls)
  BY DEF Chargeable, LiveLines
<1>2. IsFiniteSet(S) /\ IsFiniteSet(T) BY <1>1, RowsAreFinite
<1>3. \A i \in T : g[i] = f[i] BY <1>1 DEF LineTotal
<1>4. \A i \in S : f[i] \in Nat BY <1>1, LineTotalType
<1>5. Subtotal(ls) = SumFunctionOnSet(f, S) /\ Subtotal(ks) = SumFunctionOnSet(g, T)
  BY DEF Subtotal, SumOfLines
<1> HIDE DEF f, g, S, T
<1>6. SumFunctionOnSet(g, T) = SumFunctionOnSet(f, T) BY <1>2, <1>3, SumsAreEqual
<1>7. SumFunctionOnSet(f, T) <= SumFunctionOnSet(f, S) BY <1>1, <1>2, <1>4, SumOfSubset
<1> QED BY <1>5, <1>6, <1>7

\* A step of the lifecycle or a stutter.
Abstract == [Lifecycle!Next]_<<ticket.status, ticket.total, paid>>

LEMMA EditRefines ==
  ASSUME ticket.status = Open, ticket'.status = Open, ticket'.total \in Nat, paid' = paid
  PROVE  Abstract
  BY DEF Abstract, Lifecycle!Next, Lifecycle!Edit, Lifecycle!Open, paid

LEMMA AddProductRefines ==
  ASSUME IInv, NEW newLines \in Seq(LineRow), AddProduct(newLines)
  PROVE  Abstract
<1>1. /\ lines' = lines \o newLines /\ ticket.status = Open
      /\ ticket' = Recalculated(ticket, lines', discounts)
      /\ payments' = payments
  BY DEF AddProduct
<1>2. lines' \in Seq(LineRow) BY <1>1, TotalsOfIInv
<1>3. ticket' \in TicketRow /\ ticket'.status = Open
  BY <1>1, <1>2, TotalsOfIInv, RecalculatedAgrees
<1>4. ticket'.total \in Nat BY <1>3 DEF TicketRow
<1>5. paid' = paid BY <1>1 DEF paid
<1> QED BY <1>1, <1>3, <1>4, <1>5, EditRefines

LEMMA ModifyLineRefines ==
  ASSUME IInv, IInv', NEW i \in DOMAIN lines, NEW q, NEW unit, ModifyLine(i, q, unit)
  PROVE  Abstract
<1>1. /\ ticket.status \in {Open, InPayment} /\ lines[i].status = Captured
      /\ ticket' = Recalculated(ticket, lines', discounts)
      /\ payments' = payments
  BY DEF ModifyLine
<1>2. ticket.status = Open BY <1>1 DEF IInv, BilledIsSent, CapturedLines
<1>3. ticket'.status = Open
  BY <1>1, <1>2, TotalsOfIInv DEF Recalculated, TicketRow
<1>4. ticket'.total \in Nat BY DEF IInv, TypeOK, TicketRow
<1>5. paid' = paid BY <1>1 DEF paid
<1> QED BY <1>2, <1>3, <1>4, <1>5, EditRefines

LEMMA CancelLineRefines ==
  ASSUME IInv, IInv', NEW i \in DOMAIN lines, CancelLine(i)
  PROVE  Abstract
<1> DEFINE S == CancelTargets(i)
<1>1. /\ ticket.status \in {Open, InPayment} /\ lines' = CancelLines(S)
      /\ ticket' = Recalculated(ticket, lines', discounts)
      /\ UNCHANGED <<discounts, payments>>
  BY DEF CancelLine
<1>2. ticket'.status = ticket.status
  BY <1>1, TotalsOfIInv DEF Recalculated, TicketRow
<1>3. ticket'.total \in Nat /\ ticket.total \in Nat BY DEF IInv, TypeOK, TicketRow
<1>4. paid' = paid BY <1>1 DEF paid
<1>5. Subtotal(lines') <= Subtotal(lines)
  <2> HIDE DEF S
  <2>1. PICK ls : /\ ls = CancelLines(S) /\ ls \in Seq(LineRow) /\ DOMAIN ls = DOMAIN lines
                  /\ \A j \in DOMAIN lines :
                        /\ ls[j].kind = lines[j].kind /\ ls[j].parent = lines[j].parent
                        /\ ls[j].unit = lines[j].unit /\ ls[j].qty = lines[j].qty
                        /\ ls[j].status = IF j \in S THEN Cancelled ELSE lines[j].status
    BY CancelLinesEffect, Zenon
  <2>2. lines' = ls BY <1>1, <2>1
  <2>3. Subtotal(ls) <= Subtotal(lines)
    BY <2>1, TotalsOfIInv, CancelledLinesCostNothing
  <2> QED BY <2>2, <2>3
<1>6. /\ ticket.subtotal = Subtotal(lines) /\ ticket.discount = DiscountTotal(discounts)
      /\ ticket.total = IF ticket.subtotal > ticket.discount
                        THEN ticket.subtotal - ticket.discount ELSE 0
  BY <1>1 DEF IInv, Totals, Agrees
<1>7. /\ ticket'.subtotal = Subtotal(lines') /\ ticket'.discount = DiscountTotal(discounts')
      /\ ticket'.total = IF ticket'.subtotal > ticket'.discount
                         THEN ticket'.subtotal - ticket'.discount ELSE 0
  BY <1>1, <1>2 DEF IInv, Totals, Agrees
<1>8. Subtotal(lines) \in Nat /\ Subtotal(lines') \in Nat /\ DiscountTotal(discounts) \in Nat
  BY SubtotalType, DiscountTotalType DEF IInv, TypeOK
<1>9. DiscountTotal(discounts') = DiscountTotal(discounts) BY <1>1
<1>10. ticket'.total <= ticket.total BY <1>5, <1>6, <1>7, <1>8, <1>9
<1>11. CASE ticket.status = Open BY <1>2, <1>3, <1>4, <1>11, EditRefines
<1>12. CASE ticket.status = InPayment
  BY <1>2, <1>3, <1>4, <1>10, <1>12
     DEF Abstract, Lifecycle!Next, Lifecycle!Reduce, Lifecycle!InPayment, paid
<1> QED BY <1>1, <1>11, <1>12

\* A call that leaves the account's row and its payments alone.
LEMMA StutterRefines ==
  ASSUME UNCHANGED <<ticket, payments>>
  PROVE  Abstract
  BY DEF Abstract, paid

LEMMA PaymentRefines ==
  ASSUME IInv, NEW amount \in Nat \ {0}, NEW split \in Nat, split <= Len(splits),
         RegisterPayment(amount, split)
  PROVE  Abstract
<1>1. /\ ticket.status = InPayment /\ ticket'.total = ticket.total
      /\ ticket'.status = IF paid' >= ticket.total THEN Paid ELSE InPayment
      /\ paid' = paid + amount
  BY RegisterPaymentEffect DEF paid
<1>2. paid \in Nat /\ ticket.total \in Nat BY TotalsOfIInv
<1>3. paid' \in Nat /\ paid' > paid
  <2>1. paid' = paid + amount BY <1>1
  <2>2. paid \in Nat BY <1>2
  <2> QED BY <2>1, <2>2
<1> QED BY <1>1, <1>2, <1>3
        DEF Abstract, Lifecycle!Next, Lifecycle!Receive, Lifecycle!InPayment, Lifecycle!Paid, paid

LEMMA StartPaymentRefines == ASSUME IInv, StartPayment PROVE Abstract
<1>1. /\ ticket.status = Open /\ payments' = payments
      /\ \/ ticket.total > 0 /\ ticket' = [ticket EXCEPT !.status = InPayment]
         \/ ticket.total <= 0 /\ ticket' = [ticket EXCEPT !.status = Paid]
  BY DEF StartPayment
<1>2. ticket \in TicketRow /\ ticket.total \in Nat BY TotalsOfIInv
<1>3. ticket'.total = ticket.total BY <1>1, <1>2 DEF TicketRow
<1>4. \/ ticket.total > 0 /\ ticket'.status = InPayment
      \/ ticket.total = 0 /\ ticket'.status = Paid
  <2>1. ticket.total <= 0 => ticket.total = 0 BY <1>2
  <2>2. [ticket EXCEPT !.status = InPayment].status = InPayment
        /\ [ticket EXCEPT !.status = Paid].status = Paid
    BY <1>2 DEF TicketRow
  <2> QED BY <1>1, <2>1, <2>2
<1>5. paid' = paid BY <1>1 DEF paid
<1> QED BY <1>1, <1>3, <1>4, <1>5
        DEF Abstract, Lifecycle!Next, Lifecycle!StartPayment, Lifecycle!CloseCourtesy,
            Lifecycle!Open, Lifecycle!InPayment, Lifecycle!Paid, paid

LEMMA CancelTicketRefines == ASSUME IInv, CancelTicket PROVE Abstract
<1>1. /\ ticket.status \in {Open, InPayment}
      /\ ticket' = [ticket EXCEPT !.status = Cancelled]
      /\ payments' = [i \in DOMAIN payments |-> [payments[i] EXCEPT !.active = FALSE]]
  BY DEF CancelTicket
<1>2. ticket'.status = Cancelled /\ ticket'.total = ticket.total
  BY <1>1, TotalsOfIInv DEF TicketRow
<1>3. \A i \in DOMAIN payments : payments[i] \in PaymentRow BY DEF IInv, TypeOK
<1>4. \A i \in DOMAIN payments' : ~payments'[i].active BY <1>1, <1>3 DEF PaymentRow
<1>5. {i \in DOMAIN payments' : payments'[i].active} = {} BY <1>4
<1>6. paid' = 0
  <2>1. SumOfAmounts(payments', {}) = 0 BY SumOfNone DEF SumOfAmounts
  <2> QED BY <1>5, <2>1 DEF paid, ActivePaid
<1> QED BY <1>1, <1>2, <1>6
        DEF Abstract, Lifecycle!Next, Lifecycle!Cancel, Lifecycle!Open, Lifecycle!InPayment,
            Lifecycle!Cancelled, paid

LEMMA OpenTicketRefines == ASSUME IInv, OpenTicket PROVE Abstract
<1>1. ticket.status = Absent /\ ticket' = [ticket EXCEPT !.status = Open] /\ payments' = payments
  BY DEF OpenTicket
<1>2. ticket'.status = Open /\ ticket'.total = ticket.total
  BY <1>1, TotalsOfIInv DEF TicketRow
<1>3. paid' = paid BY <1>1 DEF paid
<1> QED BY <1>1, <1>2, <1>3
        DEF Abstract, Lifecycle!Next, Lifecycle!OpenAccount, Lifecycle!Absent, Lifecycle!Open, paid

LEMMA ApplyDiscountRefines == ASSUME IInv, IInv', ApplyDiscount PROVE Abstract
<1>1. PICK a, c : AddDiscount(a, c) BY DEF ApplyDiscount
<1>2. /\ ticket.status = Open /\ payments' = payments
      /\ ticket' = Recalculated(ticket, lines, discounts')
  BY <1>1 DEF AddDiscount
<1>3. ticket'.status = Open BY <1>2, TotalsOfIInv DEF Recalculated, TicketRow
<1>4. ticket'.total \in Nat BY DEF IInv, TypeOK, TicketRow
<1>5. paid' = paid BY <1>2 DEF paid
<1> QED BY <1>2, <1>3, <1>4, <1>5, EditRefines

LEMMA NextRefines ==
  ASSUME NoOptionPaysBack, IInv, IInv', [Next]_vars
  PROVE  Abstract
<1>1. CASE UNCHANGED vars BY <1>1, StutterRefines DEF vars
<1>2. CASE \E price \in Prices, q \in Quantities :
              \/ AddProduct(<<NewLine(Simple, NoParent, q, price)>>)
              \/ AddProduct(PackageLines(Len(lines) + 1, price, q))
  <2>1. PICK price \in Prices, q \in Quantities :
              \/ AddProduct(<<NewLine(Simple, NoParent, q, price)>>)
              \/ AddProduct(PackageLines(Len(lines) + 1, price, q))
    BY <1>2
  <2>2. price \in Nat BY DEF NoOptionPaysBack
  <2>3. Len(lines) + 1 \in Nat BY TotalsOfIInv
  <2>4. <<NewLine(Simple, NoParent, q, price)>> \in Seq(LineRow)
    BY <2>2, <2>3, CapturesSimple DEF Captures
  <2>5. PackageLines(Len(lines) + 1, price, q) \in Seq(LineRow)
    BY <2>2, <2>3, CapturesPackage DEF Captures
  <2> QED BY <2>1, <2>4, <2>5, AddProductRefines
<1>3. CASE \E i \in DOMAIN lines :
              \/ \E q \in Quantities \cup {lines[i].qty}, unit \in Prices \cup {lines[i].unit} :
                    ModifyLine(i, q, unit)
              \/ CancelLine(i)
  BY <1>3, ModifyLineRefines, CancelLineRefines
<1>4. CASE SendRound BY <1>4, StutterRefines DEF SendRound
<1>5. CASE \E parts \in PartCounts : CreateEqualSplits(parts)
  BY <1>5, StutterRefines DEF CreateEqualSplits
<1>6. CASE \E S \in SUBSET LiveLines(lines) : CreateLinesSplit(S)
  BY <1>6, StutterRefines DEF CreateLinesSplit
<1>7. CASE CancelSplits BY <1>7, StutterRefines DEF CancelSplits
<1>8. CASE \E a \in PaymentAmounts :
              \/ CreatePayment(a)
              \/ \E s \in DOMAIN splits : PaySplit(s, a)
  <2>1. PICK a \in PaymentAmounts : CreatePayment(a) \/ \E s \in DOMAIN splits : PaySplit(s, a)
    BY <1>8
  <2>2. a \in Nat \ {0} BY TicketAccountAssumption, SMTT(30)
  <2>3. DOMAIN splits = 1..Len(splits) /\ Len(splits) \in Nat BY DEF IInv, TypeOK
  <2>4. \E s \in Nat : s <= Len(splits) /\ RegisterPayment(a, s)
    <3>1. CASE CreatePayment(a)
      <4>1. NoSplit \in Nat /\ NoSplit <= Len(splits) BY <2>3
      <4> QED BY <3>1, <4>1 DEF CreatePayment
    <3>2. CASE \E s \in DOMAIN splits : PaySplit(s, a)
      BY <2>3, <3>2 DEF PaySplit
    <3> QED BY <2>1, <3>1, <3>2
  <2> QED BY <2>2, <2>4, PaymentRefines
<1> QED BY <1>1, <1>2, <1>3, <1>4, <1>5, <1>6, <1>7, <1>8, OpenTicketRefines,
           ApplyDiscountRefines, StartPaymentRefines, CancelTicketRefines DEF Next

\* The account keeps the promises of AccountLifecycle (every service that
\* writes a ticket or a payment).
THEOREM RefinesAccountLifecycle ==
    ASSUME NoOptionPaysBack
    PROVE  Spec => RefinesLifecycle
<1>1. Init => Lifecycle!Init
  <2> SUFFICES ASSUME Init PROVE Lifecycle!Init OBVIOUS
  <2>1. DOMAIN payments = {} /\ ticket.status = Absent /\ ticket.total = 0 BY DEF Init
  <2>2. ActivePaid(payments) = SumOfAmounts(payments, {})
    BY <2>1 DEF ActivePaid
  <2>3. SumOfAmounts(payments, {}) = 0 BY SumOfNone DEF SumOfAmounts
  <2> QED BY <2>1, <2>2, <2>3 DEF Lifecycle!Init, Lifecycle!Absent
<1>2. IInv /\ IInv' /\ [Next]_vars => [Lifecycle!Next]_(Lifecycle!accountVars)
  BY NextRefines DEF Abstract, Lifecycle!accountVars, paid
<1> QED BY <1>1, <1>2, Invariance, PTL DEF Spec, RefinesLifecycle, Lifecycle!Spec

-----------------------------------------------------------------------------
(* No cent is lost in a split.                                             *)

\* n parts of f after position base: the first r of them are of q + 1 cents,
\* the others of q.
ArePartsOf(f, base, n, q, r) == \A k \in 1..n : f[base + k] = q + (IF k <= r THEN 1 ELSE 0)

\* What they add up to.
AddUp(f, base, n, q, r) ==
    \A m \in 0..n : SumFunctionOnSet(f, (base + 1)..(base + m)) = m * q + (IF m <= r THEN m ELSE r)

LEMMA SumOfParts ==
  ASSUME NEW q \in Nat, NEW r \in Nat, NEW n \in Nat, NEW base \in Nat, NEW f,
         ArePartsOf(f, base, n, q, r)
  PROVE  AddUp(f, base, n, q, r)
<1> USE DEF ArePartsOf, AddUp
<1> DEFINE Sum(m) == SumFunctionOnSet(f, (base + 1)..(base + m))
           Good(m) == Sum(m) = m * q + (IF m <= r THEN m ELSE r)
           Bad == {m \in 0..n : ~Good(m)}
<1> SUFFICES ASSUME Bad # {} PROVE FALSE
  OBVIOUS
<1>1. PICK m \in Bad : \A k \in Bad : m <= k
  <2>1. Bad \subseteq Nat OBVIOUS
  <2> HIDE DEF Bad
  <2> QED BY <2>1, LeastNatural
<1>2. m \in 0..n /\ ~Good(m) OBVIOUS
<1>3. Good(0)
  <2>1. (base + 1)..(base + 0) = {} OBVIOUS
  <2> QED BY <2>1, SumOfNone
<1>4. m # 0
  <2> HIDE DEF Good
  <2> QED BY <1>2, <1>3
<1>5. m - 1 \in 0..n /\ m - 1 \notin Bad
  <2> HIDE DEF Bad
  <2> QED BY <1>1, <1>2, <1>4
<1>6. Good(m - 1)
  <2> HIDE DEF Good
  <2> QED BY <1>5
<1>13. m \in Nat \ {0} /\ m <= n BY <1>2, <1>4
<1>7. Sum(m) = f[base + m] + Sum(m - 1)
  <2> HIDE DEF Bad, Good
  <2> DEFINE S == (base + 1)..(base + m)
  <2>1. IsFiniteSet(S) BY <1>13, FS_Interval
  <2>2. ASSUME NEW x \in S PROVE f[x] \in Int
    <3>1. x - base \in 1..n /\ base + (x - base) = x BY <1>13
    <3>2. f[base + (x - base)] = q + (IF x - base <= r THEN 1 ELSE 0) BY <3>1
    <3> QED BY <3>1, <3>2
  <2>3. base + m \in S BY <1>13
  <2>4. S \ {base + m} = (base + 1)..(base + (m - 1)) BY <1>13
  <2> HIDE DEF S
  <2>5. SumFunctionOnSet(f, S) = f[base + m] + SumFunctionOnSet(f, S \ {base + m})
    BY <2>1, <2>2, <2>3, SumWithout
  <2> QED BY <2>4, <2>5 DEF S
<1>8. f[base + m] = q + (IF m <= r THEN 1 ELSE 0) BY <1>2, <1>4
<1>9. Sum(m - 1) = (m - 1) * q + (IF m - 1 <= r THEN m - 1 ELSE r) BY <1>6
<1>10. (m - 1) * q = m * q - q /\ m * q \in Int BY <1>2
<1> HIDE DEF Sum
<1> DEFINE mq == m * q
<1>11. Sum(m) = mq + (IF m <= r THEN m ELSE r)
  <2>1. mq \in Int /\ Sum(m - 1) = mq - q + (IF m - 1 <= r THEN m - 1 ELSE r) BY <1>9, <1>10
  <2> HIDE DEF mq
  <2> QED BY <1>2, <1>4, <1>7, <1>8, <2>1
<1> QED BY <1>2, <1>11

LEMMA Division ==
  ASSUME NEW a \in Nat, NEW b \in Nat \ {0}
  PROVE  /\ a \div b \in Nat /\ a % b \in 0..(b - 1)
         /\ a = b * (a \div b) + (a % b)
<1>1. a \div b \in Nat OBVIOUS
<1>2. a % b \in 0..(b - 1) OBVIOUS
<1>3. a = b * (a \div b) + (a % b) OBVIOUS
<1> QED BY <1>1, <1>2, <1>3

\* The parts of an equal split add up to the total and differ by a cent at
\* most (create_equal_splits).
THEOREM EqualSplitsAreExact ==
    ASSUME NoOptionPaysBack
    PROVE  Spec => EqualSplitIsExact
<1> DEFINE new == {s \in DOMAIN splits' : s > Len(splits)}
           amount(s) == splits'[s].amount
           Exact == (\E s \in new : splits'[s].type = EqualParts) =>
                       /\ SumFunction([s \in new |-> amount(s)]) = ticket.total
                       /\ \A r, s \in new : amount(r) <= amount(s) + 1
<1>1. ASSUME IInv, NEW parts \in PartCounts, CreateEqualSplits(parts) PROVE Exact
  <2> DEFINE more == EqualRows(ticket.total, parts)
             n == Len(splits)
             q == ticket.total \div parts
             r == ticket.total % parts
             f == [s \in new |-> amount(s)]
  <2>1. ticket.total \in Nat BY <1>1 DEF IInv, TypeOK, TicketRow
  <2>2. more \in Seq(SplitRow) /\ parts \in Nat \ {0} /\ DOMAIN more = 1..parts /\ Len(more) = parts
    BY <2>1, EqualRowsType
  <2>3. \A k \in 1..parts : more[k].amount = q + (IF k <= r THEN 1 ELSE 0)
    BY DEF EqualRows, EqualAmount
  <2>4. splits' = splits \o more BY <1>1 DEF CreateEqualSplits, EqualRows
  <2>5. splits \in Seq(SplitRow) /\ n \in Nat BY <1>1 DEF IInv, TypeOK
  <2> HIDE DEF more
  <2>6. /\ DOMAIN splits' = 1..(n + parts)
        /\ \A s \in DOMAIN splits' : s > n => s - n \in 1..parts /\ splits'[s] = more[s - n]
    <3>1. more # <<>> BY <2>2
    <3>2. DOMAIN splits = 1..n BY <2>5
    <3>3. /\ DOMAIN splits' = 1..(n + parts)
          /\ \A i \in DOMAIN splits' : i \notin DOMAIN splits =>
                i > n /\ i - n \in DOMAIN more /\ splits'[i] = more[i - n]
      <4>1. splits \o more \in Seq(SplitRow) /\ more \in Seq(SplitRow) /\ splits \in Seq(SplitRow)
        BY <2>2, <2>5
      <4> HIDE DEF new, amount, q, r, f, Exact
      <4>2. /\ DOMAIN (splits \o more) = 1..(Len(splits) + Len(more))
            /\ \A i \in DOMAIN (splits \o more) : i \notin DOMAIN splits =>
                  i > Len(splits) /\ i - Len(splits) \in DOMAIN more
                    /\ (splits \o more)[i] = more[i - Len(splits)]
        BY <2>2, <4>1, <3>1, Concatenation
      <4> QED BY <2>2, <2>4, <4>2
    <3> QED BY <2>2, <2>5, <3>2, <3>3
  <2>7. new = (n + 1)..(n + parts) BY <2>2, <2>5, <2>6
  <2>8. ASSUME NEW s \in new
        PROVE  s - n \in 1..parts /\ amount(s) = q + (IF s - n <= r THEN 1 ELSE 0)
    BY <2>3, <2>6
  <2>9. q \in Nat /\ r \in 0..(parts - 1) /\ ticket.total = parts * q + r
    BY <2>1, <2>2, Division
  <2>10. \A k \in 1..parts : f[n + k] = q + (IF k <= r THEN 1 ELSE 0)
    <3> TAKE k \in 1..parts
    <3>1. n + k \in new /\ (n + k) - n = k BY <2>2, <2>5, <2>7
    <3>2. f[n + k] = amount(n + k) BY <3>1
    <3> QED BY <2>8, <3>1, <3>2
  <2>11. DOMAIN f = new OBVIOUS
  <2> HIDE DEF q, r, f
  <2>12. SumFunctionOnSet(f, (n + 1)..(n + parts)) = parts * q + (IF parts <= r THEN parts ELSE r)
    <3>1. parts \in Nat /\ parts \in 0..parts /\ r \in Nat BY <2>2, <2>9
    <3> HIDE DEF new, amount, Exact, n
    <3>2. ArePartsOf(f, n, parts, q, r) BY <2>10 DEF ArePartsOf
    <3>3. AddUp(f, n, parts, q, r) BY <2>5, <2>9, <3>1, <3>2, SumOfParts
    <3> QED BY <3>1, <3>3 DEF AddUp
  <2>13. SumFunction(f) = ticket.total
    <3>1. ~(parts <= r) BY <2>2, <2>9
    <3>2. SumFunction(f) = SumFunctionOnSet(f, new) BY <2>11 DEF SumFunction
    <3> QED BY <2>7, <2>9, <2>12, <3>1, <3>2
  <2>14. \A x, y \in new : amount(x) <= amount(y) + 1
    <3> TAKE x, y \in new
    <3>1. amount(x) \in {q, q + 1} /\ amount(y) \in {q, q + 1} BY <2>8, <2>9
    <3> HIDE DEF amount
    <3> QED BY <2>9, <3>1
  <2> QED BY <2>13, <2>14 DEF f
<1>2. ASSUME DOMAIN splits' = DOMAIN splits, splits \in Seq(SplitRow) PROVE Exact
  <2>1. new = {} BY <1>2
  <2> HIDE DEF new
  <2> QED BY <2>1
<1>3. ASSUME IInv, NEW S \in SUBSET LiveLines(lines), CreateLinesSplit(S) PROVE Exact
  <2> DEFINE row == [type |-> ByLines, amount |-> SumFunction([i \in S |-> Share(i)]),
                     status |-> SplitOpen, lines |-> S]
  <2>1. splits' = Append(splits, row) BY <1>3 DEF CreateLinesSplit
  <2>2. splits \in Seq(SplitRow) BY <1>3 DEF IInv, TypeOK
  <2>3. row.type # EqualParts OBVIOUS
  <2> HIDE DEF row
  <2>4. \A s \in new : splits'[s] = row BY <2>1, <2>2
  <2> HIDE DEF new
  <2> QED BY <2>3, <2>4
<1>4. ASSUME IInv, Next PROVE Exact
  <2>0. splits \in Seq(SplitRow) BY <1>4 DEF IInv, TypeOK
  <2>1. CASE \E parts \in PartCounts : CreateEqualSplits(parts)
    <3> HIDE DEF Exact
    <3> QED BY <1>1, <1>4, <2>1
  <2>2. CASE \E S \in SUBSET LiveLines(lines) : CreateLinesSplit(S)
    <3> HIDE DEF Exact
    <3> QED BY <1>3, <1>4, <2>2
  <2>3. ASSUME NEW s \in DOMAIN splits, NEW a, PaySplit(s, a)
        PROVE  DOMAIN splits' = DOMAIN splits
    BY <2>0, <2>3 DEF PaySplit
  <2>4. CASE CancelSplits
    <3>1. DOMAIN splits' = DOMAIN splits BY <2>4 DEF CancelSplits
    <3> HIDE DEF Exact
    <3> QED BY <1>2, <2>0, <3>1
  <2>5. CASE UNCHANGED splits
    <3> HIDE DEF Exact
    <3> QED BY <1>2, <2>0, <2>5
  <2>6. CASE \E a \in PaymentAmounts, s \in DOMAIN splits : PaySplit(s, a)
    <3> HIDE DEF Exact
    <3> QED BY <1>2, <2>0, <2>3, <2>6
  <2>7. \/ \E parts \in PartCounts : CreateEqualSplits(parts)
        \/ \E S \in SUBSET LiveLines(lines) : CreateLinesSplit(S)
        \/ \E a \in PaymentAmounts, s \in DOMAIN splits : PaySplit(s, a)
        \/ CancelSplits
        \/ UNCHANGED splits
    <3>1. ASSUME NEW newLines, AddProduct(newLines) PROVE UNCHANGED splits
      BY <3>1 DEF AddProduct
    <3>2. ASSUME NEW i, NEW p, NEW unit, ModifyLine(i, p, unit) PROVE UNCHANGED splits
      BY <3>2 DEF ModifyLine
    <3>3. ASSUME NEW i, CancelLine(i) PROVE UNCHANGED splits BY <3>3 DEF CancelLine
    <3>4. ASSUME NEW a, NEW c, AddDiscount(a, c) PROVE UNCHANGED splits BY <3>4 DEF AddDiscount
    <3>5. ASSUME ApplyDiscount PROVE UNCHANGED splits BY <3>4, <3>5 DEF ApplyDiscount
    <3>6. ASSUME NEW a, CreatePayment(a) PROVE UNCHANGED splits BY <3>6 DEF CreatePayment
    <3>7. ASSUME OpenTicket \/ SendRound \/ StartPayment \/ CancelTicket PROVE UNCHANGED splits
      BY <3>7 DEF OpenTicket, SendRound, StartPayment, CancelTicket
    <3> HIDE DEF Exact
    <3> QED BY <1>4, <3>1, <3>2, <3>3, <3>5, <3>6, <3>7, Zenon DEF Next
  <2> HIDE DEF Exact
  <2> QED BY <2>1, <2>2, <2>4, <2>5, <2>6, <2>7
<1>5. IInv /\ [Next]_vars => [Exact]_vars
  <2> HIDE DEF Exact
  <2> QED BY <1>4
<1> HIDE DEF Exact
<1> QED BY <1>5, Invariance, PTL DEF Spec, EqualSplitIsExact, Exact

\* Each member of S has its share of T by weights that add up to W, rounded down.
AreSharesOf(base, weight, T, W, S) == \A i \in S : base[i] = (weight[i] * T) \div W

\* Shares that are rounded down leave a cent for each member at most.
LEMMA Leftover ==
  ASSUME NEW S, IsFiniteSet(S), NEW weight, \A i \in S : weight[i] \in Nat,
         NEW T \in Nat, NEW W \in Nat \ {0}, W = SumFunctionOnSet(weight, S),
         NEW base, AreSharesOf(base, weight, T, W, S)
  PROVE  /\ SumFunctionOnSet(base, S) \in Nat
         /\ T - SumFunctionOnSet(base, S) \in Nat
         /\ T - SumFunctionOnSet(base, S) <= Cardinality(S)
<1> DEFINE part(i) == weight[i] * T
           p == [i \in S |-> T * weight[i]]
           d == [i \in S |-> W * base[i]]
           m == [i \in S |-> part(i) % W]
           one == [i \in S |-> 1]
           c == [i \in S |-> W * one[i]]
           B == SumFunctionOnSet(base, S)
           M == SumFunctionOnSet(m, S)
           n == Cardinality(S)
<1>1. \A a, b \in Nat : a * b \in Nat /\ a * b = b * a OBVIOUS
<1>2. ASSUME NEW i \in S
      PROVE  /\ part(i) \in Nat /\ part(i) = T * weight[i]
             /\ base[i] \in Nat /\ part(i) % W \in 0..(W - 1)
             /\ part(i) = W * base[i] + (part(i) % W)
  <2>1. part(i) \in Nat /\ part(i) = T * weight[i] BY <1>1
  <2>2. base[i] = part(i) \div W BY DEF AreSharesOf
  <2> HIDE DEF part
  <2>3. part(i) \in Nat BY <2>1
  <2>4. /\ part(i) \div W \in Nat /\ part(i) % W \in 0..(W - 1)
        /\ part(i) = W * (part(i) \div W) + (part(i) % W)
    BY <2>3, Division
  <2> DEFINE x == part(i)
             y == part(i) \div W
             z == part(i) % W
  <2>5. x = W * y + z /\ y = base[i] BY <2>2, <2>4
  <2>6. x = W * base[i] + z
    <3> HIDE DEF x, y, z
    <3> QED BY <2>5, Zenon
  <2>7. base[i] \in Nat BY <2>2, <2>4, Zenon
  <2> QED BY <2>1, <2>4, <2>6, <2>7
<1>3. ASSUME NEW i \in S
      PROVE  /\ p[i] = T * weight[i] /\ d[i] = W * base[i] /\ m[i] = part(i) % W
             /\ one[i] = 1 /\ c[i] = W * one[i]
  OBVIOUS
<1>4. ASSUME NEW i \in S
      PROVE  /\ p[i] = d[i] + m[i] /\ p[i] \in Int /\ d[i] \in Int
             /\ m[i] \in Nat /\ m[i] <= c[i] /\ c[i] \in Int
  <2>1. W * base[i] \in Nat BY <1>1, <1>2
  <2>2. c[i] = W BY <1>3
  <2> HIDE DEF p, d, m, c, one, part
  <2> QED BY <1>2, <1>3, <2>1, <2>2
<1> HIDE DEF p, d, m, c, one, part
<1>5. SumFunctionOnSet(p, S) = T * W BY <1>3, SumScales
<1>6. SumFunctionOnSet(d, S) = W * B
  <2>1. \A i \in S : base[i] \in Int BY <1>2
  <2> QED BY <1>3, <2>1, SumScales
<1>7. SumFunctionOnSet(p, S) = SumFunctionOnSet(d, S) + M BY <1>4, SumAdds
<1>8. SumFunctionOnSet(c, S) = W * n
  <2>1. SumFunctionOnSet(one, S) = n BY <1>3, SumOfOnes
  <2>2. \A i \in S : one[i] \in Int BY <1>3
  <2> QED BY <1>3, <2>1, <2>2, SumScales
<1>9. M \in Nat BY <1>4, SumIsNat
<1>10. M <= SumFunctionOnSet(c, S) BY <1>4, SumIsMonotonic
<1>11. B \in Nat BY <1>2, SumIsNat
<1>12. n \in Nat BY FS_CardinalityType
<1> HIDE DEF B, M, n
<1>13. T * W = W * B + M /\ M <= W * n BY <1>5, <1>6, <1>7, <1>8, <1>10
<1>14. /\ T * W = W * T /\ W * T \in Int /\ W * B \in Int /\ W * n \in Int
       /\ W * (T - B) = W * T - W * B
  BY <1>11, <1>12
<1>15. W * (T - B) = M BY <1>9, <1>13, <1>14
<1>16. T - B >= 0
  <2>1. \A x \in Int : W * x >= 0 => x >= 0 OBVIOUS
  <2> QED BY <1>9, <1>11, <1>15, <2>1
<1>17. T - B <= n
  <2>1. \A x, y \in Int : W * x <= W * y => x <= y OBVIOUS
  <2>2. T - B \in Int BY <1>11
  <2> QED BY <1>12, <1>13, <1>15, <2>1, <2>2
<1> QED BY <1>11, <1>12, <1>16, <1>17 DEF B, n

\* The shares of the live lines add up to the total to the cent
\* (create_lines_split).
THEOREM SharesAddUp ==
    ASSUME NoOptionPaysBack
    PROVE  Spec => []SharesAreExact
<1>1. IInv => SharesAreExact
  <2> SUFFICES ASSUME IInv, SumOfLines(lines, LiveLines(lines)) > 0
               PROVE  SumFunction([i \in LiveLines(lines) |-> Share(i)]) = ticket.total
    BY DEF SharesAreExact
  <2> DEFINE live == LiveLines(lines)
             W == SumOfLines(lines, live)
             T == ticket.total
             weight == [i \in DOMAIN lines |-> LineTotal(lines[i])]
             base == [j \in live |-> (LineTotal(lines[j]) * T) \div W]
             rest == T - SumFunctionOnSet(base, live)
             ones == FirstOnes(live, rest)
             share == [i \in live |-> Share(i)]
  <2>1. lines \in Seq(LineRow) /\ T \in Nat BY DEF IInv, TypeOK, TicketRow
  <2>2. live \subseteq DOMAIN lines /\ DOMAIN lines \subseteq Int BY <2>1 DEF LiveLines
  <2>3. IsFiniteSet(live) BY <2>1, <2>2, RowsAreFinite
  <2>4. W = SumFunctionOnSet(weight, live) BY DEF SumOfLines
  <2>5. W \in Nat \ {0} BY <2>1, <2>2, SumOfLinesType
  <2>6. \A i \in live : weight[i] = LineTotal(lines[i]) /\ weight[i] \in Nat
    BY <2>1, <2>2, LineTotalType
  <2>7. AreSharesOf(base, weight, T, W, live)
    <3>1. \A i \in live : base[i] = (LineTotal(lines[i]) * T) \div W OBVIOUS
    <3> HIDE DEF base, weight, W, T, live
    <3> QED BY <2>6, <3>1 DEF AreSharesOf
  <2>8. ASSUME NEW i \in live PROVE share[i] = base[i] + ones[i]
    <3>1. SumFunction(base) = SumFunctionOnSet(base, live) BY DEF SumFunction
    <3>2. Share(i) = base[i] + (IF Rank(live, i) <= rest THEN 1 ELSE 0)
      BY <3>1 DEF Share, Rank
    <3>3. ones[i] = IF Rank(live, i) <= rest THEN 1 ELSE 0 BY DEF FirstOnes
    <3> QED BY <3>2, <3>3
  <2>9. DOMAIN share = live OBVIOUS
  <2>10. \A i \in live : ones[i] \in Int BY DEF FirstOnes
  <2> HIDE DEF live, W, T, weight, base, ones, share
  <2>11. /\ SumFunctionOnSet(base, live) \in Nat
         /\ rest \in Nat /\ rest <= Cardinality(live)
    BY <2>1, <2>3, <2>4, <2>5, <2>6, <2>7, Leftover
  <2>12. SumFunctionOnSet(ones, live) = rest
    <3> HIDE DEF rest
    <3>1. live \subseteq Int BY <2>2
    <3> QED BY <2>3, <2>11, <3>1, FirstOnesCount DEF ones
  <2>13. \A i \in live : base[i] \in Int
    <3>1. ASSUME NEW i \in live PROVE base[i] \in Int
      <4>1. base[i] = (weight[i] * T) \div W BY <2>7 DEF AreSharesOf
      <4>2. weight[i] * T \in Nat
        <5>1. \A a, b \in Nat : a * b \in Nat OBVIOUS
        <5> QED BY <2>1, <2>6, <5>1
      <4> QED BY <2>5, <4>1, <4>2, Division
    <3> QED BY <3>1
  <2>14. SumFunctionOnSet(share, live)
           = SumFunctionOnSet(base, live) + SumFunctionOnSet(ones, live)
    BY <2>3, <2>8, <2>10, <2>13, SumAdds
  <2>15. SumFunction(share) = T
    <3>1. SumFunction(share) = SumFunctionOnSet(share, live) BY <2>9 DEF SumFunction
    <3> QED BY <2>1, <2>11, <2>12, <2>14, <3>1
  <2> QED BY <2>15 DEF share, T, live
<1> QED BY <1>1, Invariance, PTL

-----------------------------------------------------------------------------
(* The sales reports.                                                      *)

\* A settled account holds the money it was settled for, and a cancelled
\* one holds none.
MoneyKept ==
    /\ ticket.status = Paid => ticket.total <= ActivePaid(payments)
    /\ ticket.status = Cancelled => \A p \in DOMAIN payments : ~payments[p].active

LEMMA SettlesOnceCovered ==
  ASSUME IInv, NEW amount \in Nat \ {0}, NEW split \in Nat, split <= Len(splits),
         RegisterPayment(amount, split)
  PROVE  MoneyKept'
<1> DEFINE held == ActivePaid(payments)'
           due == ticket.total
<1>1. /\ ticket'.total = due
      /\ ticket'.status = IF held >= due THEN Paid ELSE InPayment
  BY RegisterPaymentEffect
<1>2. held = ActivePaid(payments) + amount BY RegisterPaymentEffect
<1>3. ActivePaid(payments) \in Nat /\ due \in Nat BY PaidType DEF IInv, TypeOK, TicketRow
<1>4. held \in Nat BY <1>2, <1>3
<1>5. ticket'.status = Paid => ticket'.total <= held
  <2> HIDE DEF held, due
  <2> QED BY <1>1, <1>3, <1>4
<1>6. ticket'.status # Cancelled
  <2> HIDE DEF held, due
  <2> QED BY <1>1
<1> QED BY <1>5, <1>6 DEF MoneyKept

LEMMA NextMoneyKept == ASSUME IInv, MoneyKept, Next PROVE MoneyKept'
<1>0. ticket \in TicketRow BY DEF IInv, TypeOK
<1>1. ASSUME ticket' \in TicketRow, ticket'.status \notin {Paid, Cancelled} PROVE MoneyKept'
  BY <1>1 DEF MoneyKept
<1>2. ASSUME UNCHANGED <<ticket, payments>> PROVE MoneyKept'
  BY <1>2 DEF MoneyKept, ActivePaid
<1>3. ASSUME ticket.status \notin {Paid, Cancelled},
             ticket'.status = ticket.status
      PROVE  MoneyKept'
  BY <1>3 DEF MoneyKept
<1>4. ASSUME OpenTicket PROVE MoneyKept'
  <2>1. ticket'.status = Open BY <1>0, <1>4 DEF OpenTicket, TicketRow
  <2> QED BY <2>1 DEF MoneyKept
<1>5. ASSUME NEW ls, NEW ds, ticket' = Recalculated(ticket, ls, ds),
             ticket.status \in {Open, InPayment}
      PROVE  MoneyKept'
  <2>1. ticket'.status = ticket.status BY <1>0, <1>5 DEF Recalculated, TicketRow
  <2> QED BY <1>3, <1>5, <2>1
<1>6. ASSUME NEW newLines, AddProduct(newLines) PROVE MoneyKept'
  BY <1>5, <1>6 DEF AddProduct
<1>7. ASSUME NEW i, NEW q, NEW unit, ModifyLine(i, q, unit) PROVE MoneyKept'
  BY <1>5, <1>7 DEF ModifyLine
<1>8. ASSUME NEW i, CancelLine(i) PROVE MoneyKept'
  BY <1>5, <1>8 DEF CancelLine
<1>9. ASSUME ApplyDiscount PROVE MoneyKept'
  <2>1. ASSUME NEW a, NEW c, AddDiscount(a, c) PROVE MoneyKept'
    BY <1>5, <2>1 DEF AddDiscount
  <2> QED BY <1>9, <2>1 DEF ApplyDiscount
<1>10. ASSUME StartPayment PROVE MoneyKept'
  <2>1. CASE ticket' = [ticket EXCEPT !.status = InPayment]
    <3>1. ticket'.status = InPayment BY <1>0, <2>1 DEF TicketRow
    <3> QED BY <3>1 DEF MoneyKept
  <2>2. CASE FullCourtesy /\ ticket' = [ticket EXCEPT !.status = Paid]
    <3>1. ticket'.status = Paid /\ ticket'.total = 0 BY <1>0, <2>2 DEF TicketRow, FullCourtesy
    <3>2. ActivePaid(payments) \in Nat BY PaidType DEF IInv, TypeOK
    <3>3. payments' = payments BY <1>10 DEF StartPayment
    <3> QED BY <3>1, <3>2, <3>3 DEF MoneyKept
  <2> QED BY <1>10, <2>1, <2>2 DEF StartPayment
<1>11. ASSUME NEW a \in PaymentAmounts, CreatePayment(a) PROVE MoneyKept'
  <2>1. a \in Nat \ {0} BY TicketAccountAssumption, SMTT(30)
  <2>2. Len(splits) \in Nat /\ NoSplit <= Len(splits) /\ NoSplit \in Nat BY DEF IInv, TypeOK
  <2>3. RegisterPayment(a, NoSplit) BY <1>11 DEF CreatePayment
  <2> QED BY <2>1, <2>2, <2>3, SettlesOnceCovered
<1>12. ASSUME NEW a \in PaymentAmounts, NEW s \in DOMAIN splits, PaySplit(s, a) PROVE MoneyKept'
  <2>1. a \in Nat \ {0} BY TicketAccountAssumption, SMTT(30)
  <2>2. s \in Nat /\ s <= Len(splits) BY DEF IInv, TypeOK
  <2>3. RegisterPayment(a, s) BY <1>12 DEF PaySplit
  <2> QED BY <2>1, <2>2, <2>3, SettlesOnceCovered
<1>13. ASSUME CancelTicket PROVE MoneyKept'
  <2>1. ticket'.status = Cancelled BY <1>0, <1>13 DEF CancelTicket, TicketRow
  <2>2. payments \in Seq(PaymentRow) BY DEF IInv, TypeOK
  <2>3. \A p \in DOMAIN payments : payments[p] \in PaymentRow BY <2>2
  <2>4. payments' = [i \in DOMAIN payments |-> [payments[i] EXCEPT !.active = FALSE]]
    BY <1>13 DEF CancelTicket
  <2>5. \A p \in DOMAIN payments' : ~payments'[p].active BY <2>3, <2>4 DEF PaymentRow
  <2> QED BY <2>1, <2>5 DEF MoneyKept
<1>14. ASSUME SendRound PROVE MoneyKept' BY <1>2, <1>14 DEF SendRound
<1>15. ASSUME CancelSplits PROVE MoneyKept' BY <1>2, <1>15 DEF CancelSplits
<1>16. ASSUME NEW n, CreateEqualSplits(n) PROVE MoneyKept' BY <1>2, <1>16 DEF CreateEqualSplits
<1>17. ASSUME NEW S, CreateLinesSplit(S) PROVE MoneyKept' BY <1>2, <1>17 DEF CreateLinesSplit
<1> QED BY <1>4, <1>6, <1>7, <1>8, <1>9, <1>10, <1>11, <1>12, <1>13, <1>14, <1>15, <1>16, <1>17,
           Zenon DEF Next

\* A settled account holds what it was settled for, a cancelled one nothing.
THEOREM MoneyIsKept ==
    ASSUME NoOptionPaysBack
    PROVE  Spec => []MoneyKept
<1>1. Init => MoneyKept BY DEF Init, MoneyKept
<1>2. IInv /\ MoneyKept /\ [Next]_vars => MoneyKept'
  <2>1. ASSUME UNCHANGED vars, MoneyKept PROVE MoneyKept' BY <2>1 DEF vars, MoneyKept, ActivePaid
  <2> QED BY <2>1, NextMoneyKept
<1> QED BY <1>1, <1>2, Invariance, PTL DEF Spec


\* How an amount D is shared out by weight among the members of C: rounded
\* down, the last one taking what is left.
SharedOut(share, bears, weight, C, D, last) ==
    LET T == SumFunctionOnSet(weight, C)
    IN  /\ \A c \in C : share[c] = (D * weight[c]) \div T
        /\ \A c \in C \ {last} : bears[c] = share[c]
        /\ bears[last] = D - (SumFunctionOnSet(share, C) - share[last])

\* Each member bears its part, but for a cent less or, the last one, for a cent
\* more for each other member.
FairlyBorne(bears, weight, C, D) ==
    LET T == SumFunctionOnSet(weight, C)
    IN  \A c \in C : /\ T * bears[c] >= D * weight[c] - T
                     /\ T * bears[c] <= D * weight[c] + T * (Cardinality(C) - 1)

LEMMA LastTakesTheRest ==
  ASSUME NEW C, IsFiniteSet(C), NEW weight, \A c \in C : weight[c] \in Nat,
         SumFunctionOnSet(weight, C) \in Nat \ {0}, NEW D \in Nat, NEW last \in C,
         NEW share, NEW bears, SharedOut(share, bears, weight, C, D, last)
  PROVE  SumFunctionOnSet(bears, C) = D /\ FairlyBorne(bears, weight, C, D)
<1> DEFINE T == SumFunctionOnSet(weight, C)
           R == C \ {last}
           n == Cardinality(C)
           a == [c \in C |-> D * weight[c]]
           b == [c \in C |-> T * share[c]]
           m == [c \in C |-> a[c] % T]
           one == [c \in C |-> 1]
           t == [c \in C |-> T * one[c]]
<1>1. T \in Nat \ {0} /\ IsFiniteSet(R) /\ n \in Nat \ {0} /\ Cardinality(R) = n - 1
  <2>1. IsFiniteSet(R) /\ Cardinality(R) = n - 1 BY FS_RemoveElement
  <2>2. n \in Nat BY FS_CardinalityType
  <2>3. Cardinality(R) \in Nat BY <2>1, FS_CardinalityType
  <2> HIDE DEF n, R
  <2> QED BY <2>1, <2>2, <2>3
<1>2. \A c \in C : share[c] = (D * weight[c]) \div T /\ (c # last => bears[c] = share[c])
  BY DEF SharedOut
<1>3. bears[last] = D - (SumFunctionOnSet(share, C) - share[last]) BY DEF SharedOut
<1>4. \A x, y \in Nat : x * y \in Nat OBVIOUS
<1>5. \A c \in C : /\ a[c] = D * weight[c] /\ b[c] = T * share[c] /\ m[c] = a[c] % T
                   /\ one[c] = 1 /\ t[c] = T * one[c]
  OBVIOUS
<1> HIDE DEF T, n, a, b, m, one, t
<1>6. ASSUME NEW c \in C
      PROVE  /\ a[c] \in Nat /\ share[c] \in Nat /\ b[c] \in Nat /\ m[c] \in Nat /\ m[c] <= T
             /\ a[c] = b[c] + m[c]
  <2>1. a[c] \in Nat BY <1>4, <1>5
  <2>2. share[c] = a[c] \div T BY <1>2, <1>5
  <2> DEFINE x == a[c]
             y == share[c]
             z == m[c]
  <2>3. x \in Nat /\ y = x \div T /\ z = x % T BY <1>5, <2>1, <2>2
  <2>4. /\ x \div T \in Nat /\ x % T \in 0..(T - 1)
        /\ x = T * (x \div T) + (x % T)
    <3> HIDE DEF x
    <3> QED BY <1>1, <2>3, Division
  <2>5. y \in Nat /\ z \in Nat /\ z <= T /\ x = T * y + z
    <3> HIDE DEF x, y, z
    <3>1. y \in Nat /\ z \in 0..(T - 1) BY <2>3, <2>4, Zenon
    <3>2. x = T * y + z BY <2>3, <2>4, Zenon
    <3> QED BY <1>1, <3>1, <3>2
  <2>6. b[c] = T * y BY <1>5
  <2>7. T * y \in Nat BY <1>1, <1>4, <2>5
  <2> QED BY <2>1, <2>5, <2>6, <2>7
<1>7. \A c \in C : c \in R \/ c = last BY DEF R
<1>8. SumFunctionOnSet(a, C) = D * T
  <2>1. \A c \in C : weight[c] \in Int OBVIOUS
  <2> QED BY <1>5, <2>1, SumScales DEF T
<1>9. SumFunctionOnSet(a, C) = a[last] + SumFunctionOnSet(a, R)
  <2>1. \A c \in C : a[c] \in Int BY <1>6
  <2> QED BY <2>1, SumWithout DEF R
<1>10. SumFunctionOnSet(a, R) = SumFunctionOnSet(b, R) + SumFunctionOnSet(m, R)
  <2>1. \A c \in R : b[c] \in Int /\ m[c] \in Int /\ a[c] = b[c] + m[c] BY <1>6 DEF R
  <2> QED BY <1>1, <2>1, SumAdds
<1>11. \A c \in R : share[c] \in Int BY <1>6 DEF R
<1>12. SumFunctionOnSet(b, R) = T * SumFunctionOnSet(share, R)
  <2>1. \A c \in R : share[c] \in Int /\ b[c] = T * share[c] BY <1>5, <1>11 DEF R
  <2>2. T \in Int BY <1>1
  <2> QED BY <1>1, <2>1, <2>2, SumScales
<1>13. SumFunctionOnSet(t, R) = T * (n - 1)
  <2>1. \A c \in R : one[c] = 1 /\ t[c] = T * one[c] BY <1>5 DEF R
  <2>2. SumFunctionOnSet(one, R) = n - 1 BY <1>1, <2>1, SumOfOnes
  <2>3. \A c \in R : one[c] \in Int /\ t[c] = T * one[c] BY <2>1
  <2>4. T \in Int BY <1>1
  <2>5. SumFunctionOnSet(t, R) = T * SumFunctionOnSet(one, R) BY <1>1, <2>3, <2>4, SumScales
  <2> QED BY <2>2, <2>5
<1>14. SumFunctionOnSet(m, R) \in Nat
  <2>1. \A c \in R : m[c] \in Nat BY <1>6 DEF R
  <2> QED BY <1>1, <2>1, SumIsNat
<1>15. SumFunctionOnSet(m, R) <= SumFunctionOnSet(t, R)
  <2>1. \A c \in R : m[c] \in Int /\ t[c] \in Int /\ m[c] <= t[c]
    <3>1. \A c \in R : t[c] = T BY <1>1, <1>5 DEF R
    <3> QED BY <1>1, <1>6, <3>1 DEF R
  <2> QED BY <1>1, <2>1, SumIsMonotonic
<1>16. SumFunctionOnSet(share, C) = share[last] + SumFunctionOnSet(share, R)
  <2>1. \A c \in C : share[c] \in Int BY <1>6
  <2> QED BY <2>1, SumWithout DEF R
<1>17. SumFunctionOnSet(share, R) \in Int BY <1>1, <1>11, SumIsInt
<1> DEFINE shares == SumFunctionOnSet(share, R)
           rests == SumFunctionOnSet(m, R)
<1>18. bears[last] = D - shares
  <2>1. share[last] \in Int /\ shares \in Int BY <1>6, <1>17
  <2> HIDE DEF shares
  <2> QED BY <1>3, <1>16, <2>1 DEF shares
<1>19. SumFunctionOnSet(bears, C) = D
  <2>1. SumFunctionOnSet(bears, R) = shares
    <3>1. \A c \in R : bears[c] = share[c] BY <1>2 DEF R
    <3> QED BY <1>1, <3>1, SumsAreEqual
  <2>2. \A c \in C : bears[c] \in Int
    <3>1. shares \in Int BY <1>17
    <3> HIDE DEF shares
    <3>2. bears[last] \in Int BY <1>18, <3>1
    <3>3. ASSUME NEW c \in C, c # last PROVE bears[c] \in Int BY <1>2, <1>6, <3>3
    <3> QED BY <3>2, <3>3
  <2>3. SumFunctionOnSet(bears, C) = bears[last] + SumFunctionOnSet(bears, R)
    BY <2>2, SumWithout DEF R
  <2>4. shares \in Int BY <1>17
  <2> HIDE DEF shares
  <2> QED BY <1>18, <2>1, <2>3, <2>4
<1>20. /\ shares \in Int /\ rests \in Nat /\ rests <= T * (n - 1)
       /\ D * T = a[last] + (T * shares + rests)
  BY <1>8, <1>9, <1>10, <1>12, <1>13, <1>14, <1>15, <1>17
<1> HIDE DEF shares, rests
<1>21. T * bears[last] = a[last] + rests
  <2>1. T * (D - shares) = D * T - T * shares /\ D * T \in Int /\ T * shares \in Int
    BY <1>1, <1>20
  <2> QED BY <1>6, <1>18, <1>20, <2>1
<1>22. T * (n - 1) \in Nat
  <2>1. n - 1 \in Nat BY <1>1
  <2> QED BY <1>1, <1>4, <2>1
<1>23. ASSUME NEW c \in C
       PROVE  T * bears[c] >= a[c] - T /\ T * bears[c] <= a[c] + T * (n - 1)
  <2>1. CASE c = last
    BY <1>1, <1>6, <1>20, <1>21, <1>22, <2>1
  <2>2. CASE c # last
    <3>1. T * bears[c] = b[c] BY <1>2, <1>5, <2>2
    <3> QED BY <1>1, <1>6, <1>22, <3>1
  <2> QED BY <2>1, <2>2
<1>24. FairlyBorne(bears, weight, C, D)
  <2>1. ASSUME NEW c \in C
        PROVE  T * bears[c] >= D * weight[c] - T /\ T * bears[c] <= D * weight[c] + T * (n - 1)
    BY <1>5, <1>23
  <2> QED BY <2>1 DEF FairlyBorne, T, n
<1> QED BY <1>19, <1>24

LEMMA MethodsAddUp ==
  ASSUME IInv, NEW method \in [DOMAIN payments -> {1, 2}]
  PROVE  MethodSales(method, 1) + MethodSales(method, 2) = ActivePaid(payments)
<1> DEFINE S == {i \in DOMAIN payments : payments[i].active}
           U == {i \in DOMAIN payments : payments[i].active /\ method[i] = 1}
           V == {i \in DOMAIN payments : payments[i].active /\ method[i] = 2}
           f == [i \in DOMAIN payments |-> payments[i].amount]
<1>1. payments \in Seq(PaymentRow) BY DEF IInv, TypeOK
<1>2. IsFiniteSet(S) BY <1>1, RowsAreFinite
<1>3. \A i \in S : f[i] \in Int
  <2>1. \A i \in DOMAIN payments : payments[i] \in PaymentRow BY <1>1
  <2> QED BY <2>1 DEF PaymentRow
<1>4. U \in SUBSET S /\ S \ U = V OBVIOUS
<1> HIDE DEF S, U, V, f
<1>5. SumFunctionOnSet(f, S) = SumFunctionOnSet(f, U) + SumFunctionOnSet(f, S \ U)
  BY <1>2, <1>3, <1>4, SumSplits
<1>6. SumFunctionOnSet(f, S) = SumFunctionOnSet(f, U) + SumFunctionOnSet(f, V) BY <1>4, <1>5
<1> QED BY <1>6 DEF S, U, V, f, MethodSales, ActivePaid, SumOfAmounts

LEMMA CancelledHoldsNothing ==
  ASSUME MoneyKept, ticket.status = Cancelled PROVE ActivePaid(payments) = 0
<1>1. {i \in DOMAIN payments : payments[i].active} = {} BY DEF MoneyKept
<1> QED BY <1>1, SumOfNone DEF ActivePaid, SumOfAmounts

LEMMA MethodsCoverTheTotal ==
  ASSUME IInv, MoneyKept, NEW method \in [DOMAIN payments -> {1, 2}]
  PROVE  LET taken == MethodSales(method, 1) + MethodSales(method, 2)
         IN  taken >= TotalSales /\ (ticket.status = Cancelled => taken = 0)
<1> DEFINE taken == MethodSales(method, 1) + MethodSales(method, 2)
<1>1. taken = ActivePaid(payments) BY MethodsAddUp
<1>2. ActivePaid(payments) \in Nat /\ ticket.total \in Nat BY PaidType DEF IInv, TypeOK, TicketRow
<1>3. ticket.status = Cancelled => taken = 0 BY <1>1, CancelledHoldsNothing
<1>4. taken >= TotalSales
  <2>1. TotalSales = IF ticket.status = Paid THEN ticket.total ELSE 0 BY DEF TotalSales
  <2>2. ticket.status = Paid => ticket.total <= ActivePaid(payments) BY DEF MoneyKept
  <2> HIDE DEF taken
  <2> QED BY <1>1, <1>2, <2>1, <2>2
<1> QED BY <1>3, <1>4

\* What the sold lines cost, by class and together.
LEMMA GrossAddsUp ==
  ASSUME IInv, NEW label \in [SoldLines -> DOMAIN lines]
  PROVE  /\ IsFiniteSet(DOMAIN Gross(label)) /\ DOMAIN Gross(label) \subseteq Nat
         /\ \A c \in DOMAIN Gross(label) : Gross(label)[c] \in Nat
         /\ SumFunctionOnSet(Gross(label), DOMAIN Gross(label))
              = IF ticket.status = Paid THEN ticket.subtotal ELSE 0
<1> DEFINE C == {label[i] : i \in SoldLines}
           g == Gross(label)
           f == [i \in DOMAIN lines |-> LineTotal(lines[i])]
<1>1. lines \in Seq(LineRow) /\ \A i \in DOMAIN lines : lines[i] \in LineRow BY DEF IInv, TypeOK
<1>2. SoldLines \in SUBSET (DOMAIN lines) BY DEF SoldLines, Chargeable, LiveLines
<1>3. C \in SUBSET (DOMAIN lines) BY <1>2
<1>4. IsFiniteSet(C) /\ IsFiniteSet(SoldLines) /\ C \subseteq Nat
  <2>1. DOMAIN lines \subseteq Nat BY <1>1
  <2> HIDE DEF C
  <2> QED BY <1>1, <1>2, <1>3, <2>1, RowsAreFinite
<1>5. DOMAIN g = C BY DEF Gross
<1>6. \A c \in C : g[c] = SumOfLines(lines, {i \in SoldLines : label[i] = c}) BY DEF Gross
<1>7. \A c \in C : g[c] = SumFunctionOnSet(f, {i \in SoldLines : label[i] = c})
  BY <1>6 DEF SumOfLines
<1>8. \A c \in C : g[c] \in Nat
  <2> TAKE c \in C
  <2>1. {i \in SoldLines : label[i] = c} \in SUBSET (DOMAIN lines) BY <1>2
  <2> QED BY <1>1, <1>6, <2>1, SumOfLinesType
<1>9. \A i \in SoldLines : f[i] \in Int /\ label[i] \in C BY <1>1, <1>2, LineTotalType
<1> HIDE DEF C, g, f
<1>10. SumFunctionOnSet(g, C) = SumFunctionOnSet(f, SoldLines)
  <2> DEFINE S == SoldLines
  <2>1. IsFiniteSet(S) /\ IsFiniteSet(C) BY <1>4
  <2>2. \A x \in S : f[x] \in Int BY <1>9
  <2>3. \A x \in S : label[x] \in C BY <1>9
  <2> DEFINE part == [c \in C |-> {x \in S : label[x] = c}]
  <2>4. /\ \A c \in C : part[c] = {x \in S : label[x] = c}
        /\ \A c \in C : g[c] = SumFunctionOnSet(f, part[c])
    BY <1>7
  <2> HIDE DEF S, part
  <2>5. SumFunctionOnSet(g, C) = SumFunctionOnSet(f, S)
    BY <2>1, <2>2, <2>3, <2>4, SumOfClasses
  <2> QED BY <2>5 DEF S
<1>11. SumFunctionOnSet(f, SoldLines) = IF ticket.status = Paid THEN ticket.subtotal ELSE 0
  <2>1. CASE ticket.status = Paid
    <3>1. SoldLines = Chargeable(lines) BY <2>1 DEF SoldLines
    <3>2. ticket.subtotal = Subtotal(lines) BY <2>1 DEF IInv, Totals, Agrees
    <3> QED BY <2>1, <3>1, <3>2 DEF f, Subtotal, SumOfLines
  <2>2. CASE ticket.status # Paid
    <3>1. SoldLines = {} BY <2>2 DEF SoldLines
    <3> QED BY <2>2, <3>1, SumOfNone
  <2> QED BY <2>1, <2>2
<1>12. IsFiniteSet(DOMAIN g) /\ DOMAIN g \subseteq Nat /\ \A c \in DOMAIN g : g[c] \in Nat
  BY <1>4, <1>5, <1>8
<1>13. SumFunctionOnSet(g, DOMAIN g) = IF ticket.status = Paid THEN ticket.subtotal ELSE 0
  BY <1>5, <1>10, <1>11
<1> QED BY <1>12, <1>13 DEF g

\* What the last category takes is what the others leave of the discount.
LEMMA CategoriesBearTheDiscount ==
  ASSUME NEW g, IsFiniteSet(DOMAIN g), DOMAIN g \subseteq Nat, \A c \in DOMAIN g : g[c] \in Nat,
         ticket.discount \in Nat, NEW T, T = SumFunctionOnSet(g, DOMAIN g)
  PROVE  LET bears == CategoryDiscount(g)
             D     == IF T <= ticket.discount THEN T ELSE ticket.discount
         IN  /\ DOMAIN bears = DOMAIN g
             /\ SumFunctionOnSet(bears, DOMAIN g) = D
             /\ FairlyBorne(bears, g, DOMAIN g, D)
<1> DEFINE C == DOMAIN g
           bears == CategoryDiscount(g)
           D == IF T <= ticket.discount THEN T ELSE ticket.discount
           share == [c \in C |-> (D * g[c]) \div T]
           last == Max(C)
<1>0. T \in Nat BY SumIsNat
<1>1. D \in Nat BY <1>0
<1>2. Min({ticket.discount, T}) = D BY <1>0 DEF Min
<1>3. SumFunction(g) = T BY DEF SumFunction
<1>4. bears = IF T = 0 THEN [c \in C |-> 0]
              ELSE [share EXCEPT ![last] = D - (SumFunction(share) - @)]
  BY <1>2, <1>3 DEF CategoryDiscount
<1>5. CASE T = 0
  <2>1. bears = [c \in C |-> 0] BY <1>4, <1>5
  <2>2. D = 0 BY <1>5
  <2>3. \A c \in C : bears[c] = 0 BY <2>1
  <2>4. DOMAIN bears = C BY <2>1
  <2> DEFINE one == [c \in C |-> 1]
  <2>5. \A c \in C : one[c] \in Int /\ bears[c] = 0 * one[c] BY <2>3
  <2> HIDE DEF bears, one
  <2>6. SumFunctionOnSet(bears, C) = 0 * SumFunctionOnSet(one, C) BY <2>5, SumScales
  <2>7. SumFunctionOnSet(one, C) \in Int BY <2>5, SumIsInt
  <2>8. SumFunctionOnSet(bears, C) = D BY <2>2, <2>6, <2>7
  <2>9. FairlyBorne(bears, g, C, D)
    <3> DEFINE n == Cardinality(C)
    <3>1. n \in Nat BY FS_CardinalityType
    <3>2. ASSUME NEW c \in C
          PROVE  T * bears[c] >= D * g[c] - T /\ T * bears[c] <= D * g[c] + T * (n - 1)
      <4> HIDE DEF n
      <4>1. D * g[c] = 0 /\ T * (n - 1) = 0 /\ T * bears[c] = 0 BY <1>5, <2>2, <2>3, <3>1
      <4> QED BY <1>5, <4>1
    <3> QED BY <3>2 DEF FairlyBorne
  <2> QED BY <2>4, <2>8, <2>9 DEF bears
<1>6. CASE T # 0
  <2>1. bears = [share EXCEPT ![last] = D - (SumFunction(share) - @)] BY <1>4, <1>6
  <2>2. last \in C
    <3>1. C # {} BY <1>6, SumOfNone
    <3>2. C \subseteq Int OBVIOUS
    <3>3. PICK m \in C : \A x \in C : x <= m BY <3>1, <3>2, GreatestInteger
    <3>4. \A x \in C : m >= x BY <3>2, <3>3
    <3> QED BY <3>3, <3>4 DEF Max
  <2>3. DOMAIN share = C OBVIOUS
  <2>4. SumFunction(share) = SumFunctionOnSet(share, C) BY <2>3 DEF SumFunction
  <2>5. \A c \in C : share[c] = (D * g[c]) \div T OBVIOUS
  <2> HIDE DEF bears, share, last, D
  <2>6. /\ DOMAIN bears = C
        /\ \A c \in C \ {last} : bears[c] = share[c]
        /\ bears[last] = D - (SumFunctionOnSet(share, C) - share[last])
    BY <2>1, <2>2, <2>3, <2>4
  <2>7. SharedOut(share, bears, g, C, D, last) BY <2>5, <2>6 DEF SharedOut
  <2>8. SumFunctionOnSet(g, C) \in Nat \ {0} BY <1>0, <1>6
  <2>9. SumFunctionOnSet(bears, C) = D /\ FairlyBorne(bears, g, C, D)
    BY <1>1, <2>2, <2>7, <2>8, LastTakesTheRest
  <2> QED BY <2>6, <2>9 DEF bears, D
<1> QED BY <1>5, <1>6

LEMMA CategoriesAgree ==
  ASSUME IInv, NEW label \in [SoldLines -> DOMAIN lines]
  PROVE  LET gross    == Gross(label)
             total    == SumFunction(gross)
             discount == CategoryDiscount(gross)
             borne    == SumFunction(discount)
         IN  /\ SumFunction([p \in DOMAIN gross |-> ProductSales(label, p)])
                   = IF ticket.status = Paid THEN ticket.subtotal ELSE 0
             /\ total - borne = TotalSales
             /\ \A c \in DOMAIN gross :
                   /\ total * discount[c] >= borne * gross[c] - total
                   /\ total * discount[c] <= borne * gross[c] + total * (Cardinality(DOMAIN gross) - 1)
<1> DEFINE g == Gross(label)
           T == SumFunctionOnSet(g, DOMAIN g)
           bears == CategoryDiscount(g)
           D == IF T <= ticket.discount THEN T ELSE ticket.discount
<1>1. /\ IsFiniteSet(DOMAIN g) /\ DOMAIN g \subseteq Nat
      /\ \A c \in DOMAIN g : g[c] \in Nat
      /\ T = IF ticket.status = Paid THEN ticket.subtotal ELSE 0
  BY GrossAddsUp
<1>2. /\ ticket.subtotal \in Nat /\ ticket.discount \in Nat /\ ticket.total \in Nat
  BY DEF IInv, TypeOK, TicketRow
<1>3. [p \in DOMAIN g |-> ProductSales(label, p)] = g BY DEF Gross, ProductSales
<1>4. DOMAIN bears = DOMAIN g /\ SumFunctionOnSet(bears, DOMAIN g) = D
      /\ FairlyBorne(bears, g, DOMAIN g, D)
  <2> HIDE DEF g
  <2> QED BY <1>1, <1>2, CategoriesBearTheDiscount
<1>5. SumFunction(g) = T /\ SumFunction(bears) = D
  <2> HIDE DEF g, bears, D
  <2> QED BY <1>4 DEF SumFunction
<1>6. T - D = TotalSales
  <2>1. CASE ticket.status = Paid
    <3>1. ticket.total = IF ticket.subtotal > ticket.discount
                         THEN ticket.subtotal - ticket.discount ELSE 0
      BY <2>1 DEF IInv, Totals, Agrees
    <3>2. TotalSales = ticket.total /\ T = ticket.subtotal BY <1>1, <2>1 DEF TotalSales
    <3> HIDE DEF T
    <3> QED BY <1>2, <3>1, <3>2
  <2>2. CASE ticket.status # Paid
    <3>1. TotalSales = 0 /\ T = 0 BY <1>1, <2>2 DEF TotalSales
    <3> HIDE DEF T
    <3> QED BY <1>2, <3>1
  <2> QED BY <2>1, <2>2
<1>7. \A c \in DOMAIN g : /\ T * bears[c] >= D * g[c] - T
                          /\ T * bears[c] <= D * g[c] + T * (Cardinality(DOMAIN g) - 1)
  BY <1>4 DEF FairlyBorne
<1> HIDE DEF g, bears, T, D
<1>8. SumFunction([p \in DOMAIN g |-> ProductSales(label, p)])
        = IF ticket.status = Paid THEN ticket.subtotal ELSE 0
  BY <1>1, <1>3, <1>5
<1> QED BY <1>5, <1>6, <1>7, <1>8 DEF g, bears

\* However the sold lines are spread over products and categories, the sales
\* reports tell of the same money (get_operational_summary,
\* get_sales_by_product, get_sales_by_category, get_sales_by_payment_method).
THEOREM ReportsAlwaysAgree ==
    ASSUME NoOptionPaysBack
    PROVE  Spec => []ReportsAgree
<1>1. IInv /\ MoneyKept => ReportsAgree
  BY MethodsCoverTheTotal, CategoriesAgree DEF ReportsAgree
<1> QED BY <1>1, Invariance, MoneyIsKept, PTL

=============================================================================
