--------------------------- MODULE KitchenProofs ---------------------------
(***************************************************************************)
(* The invariants of Kitchen hold for any number of dishes, stations,      *)
(* lines, rounds and changes of the catalogue.                             *)
(*                                                                         *)
(* The inductive invariant says what a line knows of its package           *)
(* (Packages), which lines have no station (Stationed), what an order      *)
(* knows of its lines (OrdersKept) and what a slip that calls a line off   *)
(* knows of it (SlipsKept).  Each action touches a few of the rows; those  *)
(* that only append, only cancel or leave the rows alone are treated       *)
(* together.                                                               *)
(***************************************************************************)
EXTENDS Kitchen, SumTheorems

USE DEF Open, InPayment, Paid, Cancelled, Simple, Parent, Component, Captured, SentToKitchen,
        Printed, Queued, Received, InPreparation, Completed, Delivered, Command, Cancellation,
        Modification, NoStation

-----------------------------------------------------------------------------
(* Sets of numbers, and sets of one element at most.                       *)

LEMMA MinIsIn ==
  ASSUME NEW S, S \subseteq Nat, S # {}
  PROVE  Min(S) \in S
<1>1. PICK n \in S : \A m \in S : n <= m BY LeastNatural
<1> QED BY <1>1 DEF Min

LEMMA MaxIsIn ==
  ASSUME NEW S, S \subseteq Nat, IsFiniteSet(S), S # {}
  PROVE  Max(S) \in S /\ \A x \in S : x <= Max(S)
<1>1. S \subseteq Int OBVIOUS
<1>2. PICK m \in S : \A x \in S : x <= m BY <1>1, GreatestInteger
<1>3. \A x \in S : m >= x BY <1>1, <1>2
<1>4. Max(S) \in S /\ \A x \in S : Max(S) >= x BY <1>2, <1>3 DEF Max
<1> QED BY <1>1, <1>4

Single(S) == \A x, y \in S : x = y

LEMMA SingleIsOne == ASSUME NEW S, Single(S) PROVE IsFiniteSet(S) /\ Cardinality(S) <= 1
<1>1. CASE S = {} BY <1>1, FS_EmptySet
<1>2. CASE S # {}
  <2>1. PICK x : S = {x} BY <1>2 DEF Single
  <2>2. IsFiniteSet({x}) /\ Cardinality({x}) = 1 BY FS_Singleton
  <2> QED BY <2>1, <2>2
<1> QED BY <1>1, <1>2

\* q lists the elements of S, each once, in increasing order.
Lists(q, S) ==
    /\ q \in [1..Cardinality(S) -> S]
    /\ \A a, b \in DOMAIN q : a < b => q[a] < q[b]

\* A finite set of naturals can be listed in increasing order.
LEMMA ListExists ==
  ASSUME NEW S, IsFiniteSet(S)
  PROVE  S \subseteq Nat => \E q : Lists(q, S)
<1> DEFINE Good(T) == T \subseteq Nat => \E q : Lists(q, T)
           Bad == {T \in SUBSET S : ~Good(T)}
<1>0. Bad = {}
  <2> SUFFICES ASSUME Bad # {} PROVE FALSE
    OBVIOUS
  <2>1. PICK T \in Bad : \A V \in Bad : V \subseteq T => V = T
    <3>1. Bad \subseteq SUBSET S OBVIOUS
    <3> HIDE DEF Bad
    <3> QED BY <3>1, MinimalSubset
  <2>2. T \in SUBSET S /\ T \subseteq Nat /\ ~\E q : Lists(q, T) BY <2>1
  <2>3. IsFiniteSet(T) BY <2>2, FS_Subset
  <2>4. T # {}
    <3> SUFFICES ASSUME T = {} PROVE FALSE
      OBVIOUS
    <3>1. Cardinality(T) = 0 BY FS_EmptySet
    <3>2. Lists([k \in 1..0 |-> 0], T) BY <3>1 DEF Lists
    <3> QED BY <2>2, <3>2
  <2>5. PICK m \in T : \A x \in T : x <= m
    <3>1. T \subseteq Int BY <2>2
    <3> QED BY <2>3, <2>4, <3>1, GreatestInteger
  <2> DEFINE U == T \ {m}
             n == Cardinality(T)
  <2>6. U \in SUBSET S /\ U \subseteq T /\ U # T BY <2>2, <2>5
  <2>7. U \notin Bad BY <2>1, <2>6
  <2>8. \E q : Lists(q, U) BY <2>2, <2>6, <2>7
  <2>9. PICK q : Lists(q, U) BY <2>8
  <2>10. n \in Nat /\ Cardinality(U) = n - 1 /\ Cardinality(U) \in Nat
    <3>1. n \in Nat BY <2>3, FS_CardinalityType
    <3>2. IsFiniteSet(U) /\ Cardinality(U) = n - 1 BY <2>3, FS_RemoveElement
    <3>3. Cardinality(U) \in Nat BY <3>2, FS_CardinalityType
    <3> QED BY <3>1, <3>2, <3>3
  <2> HIDE DEF n
  <2>11. q \in [1..(n - 1) -> U] /\ \A a, b \in 1..(n - 1) : a < b => q[a] < q[b]
    BY <2>9, <2>10 DEF Lists
  <2>12. \A x \in U : x \in Nat /\ x < m
    BY <2>2, <2>5
  <2>13. m \in Nat BY <2>2
  <2> HIDE DEF U
  <2> DEFINE r == [k \in 1..n |-> IF k = n THEN m ELSE q[k]]
  <2>14. \A k \in 1..n : k # n => k \in 1..(n - 1) /\ q[k] \in U
    BY <2>10, <2>11
  <2>15. r \in [1..n -> T] BY <2>6, <2>14
  <2>16. \A a, b \in 1..n : a < b => r[a] < r[b]
    <3> SUFFICES ASSUME NEW a \in 1..n, NEW b \in 1..n, a < b PROVE r[a] < r[b]
      OBVIOUS
    <3>1. a # n /\ r[a] = q[a] BY <2>10
    <3>2. CASE b = n BY <2>12, <2>14, <3>1, <3>2
    <3>3. CASE b # n BY <2>11, <2>14, <3>1, <3>3
    <3> QED BY <3>2, <3>3
  <2>17. Lists(r, T)
    <3> HIDE DEF r
    <3> QED BY <2>15, <2>16 DEF Lists, n
  <2> QED BY <2>2, <2>17
<1>1. S \notin Bad BY <1>0
<1>2. Good(S) BY <1>1
<1> QED BY <1>2

\* What the round takes as its route lists the stations, and leaves none out.
LEMMA RouteListsStations ==
  ASSUME NEW S, IsFiniteSet(S)
  PROVE  S \subseteq Nat =>
           LET q == StationsInOrder(S)
           IN  /\ Cardinality(S) \in Nat
               /\ q \in [1..Cardinality(S) -> S]
               /\ \A a, b \in 1..Cardinality(S) : q[a] = q[b] => a = b
               /\ \A s \in S : \E k \in 1..Cardinality(S) : q[k] = s
<1> SUFFICES ASSUME S \subseteq Nat
             PROVE  LET q == StationsInOrder(S)
                    IN  /\ Cardinality(S) \in Nat
                        /\ q \in [1..Cardinality(S) -> S]
                        /\ \A a, b \in 1..Cardinality(S) : q[a] = q[b] => a = b
                        /\ \A s \in S : \E k \in 1..Cardinality(S) : q[k] = s
  OBVIOUS
<1> DEFINE q == StationsInOrder(S)
           n == Cardinality(S)
<1>1. Lists(q, S)
  <2>1. PICK p : Lists(p, S) BY ListExists
  <2>2. p \in [1..Cardinality(S) -> S] /\ \A a, b \in DOMAIN p : a < b => p[a] < p[b]
    BY <2>1 DEF Lists
  <2> QED BY <2>2 DEF StationsInOrder, Lists
<1>2. n \in Nat BY FS_CardinalityType
<1> HIDE DEF q
<1>3. q \in [1..n -> S] /\ \A a, b \in 1..n : a < b => q[a] < q[b] BY <1>1 DEF Lists
<1> HIDE DEF n
<1>4. \A a, b \in 1..n : q[a] = q[b] => a = b
  <2> SUFFICES ASSUME NEW a \in 1..n, NEW b \in 1..n, a # b PROVE q[a] # q[b]
    OBVIOUS
  <2>1. q[a] \in Nat /\ q[b] \in Nat BY <1>3
  <2>2. a < b \/ b < a BY <1>2
  <2> QED BY <1>3, <2>1, <2>2
<1>5. q \in Injection(1..n, S) BY <1>3, <1>4 DEF Injection, IsInjective
<1>6. IsFiniteSet(1..n) /\ Cardinality(1..n) = n
  <2>1. IsFiniteSet(1..n) /\ Cardinality(1..n) = IF 1 > n THEN 0 ELSE n - 1 + 1
    BY <1>2, FS_Interval
  <2> QED BY <1>2, <2>1
<1>7. q \in Surjection(1..n, S)
  <2>1. Cardinality(1..n) = Cardinality(S) BY <1>6 DEF n
  <2> QED BY <1>5, <2>1, FS_Injection
<1>8. \A s \in S : \E k \in 1..n : q[k] = s BY <1>7 DEF Surjection
<1> QED BY <1>2, <1>3, <1>4, <1>8 DEF n, q

-----------------------------------------------------------------------------
(* The inductive invariant.                                                *)

\* A line that is no package is a dish; a component has its package, is
\* waiting when the package is, and leaves in its round.
Packages ==
    \A i \in DOMAIN lines :
        /\ lines[i].kind # Parent => lines[i].product \in Dishes
        /\ lines[i].parent # 0 =>
              /\ lines[i].kind = Component
              /\ lines[i].parent \in DOMAIN lines
              /\ lines[lines[i].parent].parent = 0
              /\ (lines[i].status = Captured) <=> (lines[lines[i].parent].status = Captured)
              /\ lines[i].round = lines[lines[i].parent].round

\* What went to no station had none; a line that waits without a station has a
\* dish that had none, and has none unless the catalogue changed.
Stationed ==
    \A i \in DOMAIN lines :
        lines[i].kind # Parent =>
            /\ lines[i].status = Printed => lines[i].snapshot = NoStation
            /\ lines[i].status = Captured /\ lines[i].snapshot = NoStation /\ i \notin unsettled
                  => primaries[lines[i].product] = {}

\* A line in an order was sent in the round of the order, is in no other, and
\* unless its station is unsettled the order is at the station of its snapshot.
OrdersKept ==
    \A o \in DOMAIN orders : \A i \in orders[o].lines :
        /\ i \in DOMAIN lines
        /\ lines[i].kind # Parent
        /\ lines[i].status \notin {Captured, Printed}
        /\ lines[i].round = orders[o].round
        /\ i \notin unsettled => orders[o].station = lines[i].snapshot
        /\ \A p \in DOMAIN orders : i \in orders[p].lines => p = o

IsOrdered(i) == \E o \in DOMAIN orders : i \in orders[o].lines

SentIsOrdered ==
    \A i \in DOMAIN lines : lines[i].status = SentToKitchen => IsOrdered(i)

\* A slip that calls a line off is the only one, for a line that was ordered
\* and is cancelled.
SlipsKept ==
    \A x \in slips :
        x.type = Cancellation =>
            /\ x.line \in DOMAIN lines
            /\ lines[x.line].status = Cancelled
            /\ IsOrdered(x.line)
            /\ \A y \in slips : y.type = Cancellation /\ y.line = x.line => y = x

CallsOff(x, i, o) ==
    /\ x.type = Cancellation /\ x.line = i
    /\ x.order = o /\ x.printer = PrinterOf[orders[o].station]

\* CancellationReachesTheCook, with its sets written out.
Reached ==
    \A i \in DOMAIN lines :
        i \notin unsettled /\ lines[i].status = Cancelled =>
            \A o \in DOMAIN orders :
                i \in orders[o].lines => \E x \in slips : CallsOff(x, i, o)

IInv ==
    /\ TypeOK /\ IsFiniteSet(batches)
    /\ Packages /\ Stationed /\ OrdersKept /\ SentIsOrdered /\ SlipsKept /\ Reached

-----------------------------------------------------------------------------
(* The properties follow.                                                  *)

LEMMA FiniteRows ==
  ASSUME NEW R, NEW s \in Seq(R)
  PROVE  DOMAIN s = 1..Len(s) /\ Len(s) \in Nat /\ IsFiniteSet(DOMAIN s)
<1>1. DOMAIN s = 1..Len(s) /\ Len(s) \in Nat OBVIOUS
<1>2. IsFiniteSet(1..Len(s)) BY <1>1, FS_Interval
<1> QED BY <1>1, <1>2

LEMMA InPlace ==
  ASSUME NEW R, NEW s \in Seq(R), NEW f, DOMAIN f = DOMAIN s,
         f = [i \in DOMAIN s |-> f[i]], \A i \in DOMAIN s : f[i] \in R
  PROVE  f \in Seq(R)
<1>1. DOMAIN s = 1..Len(s) /\ Len(s) \in Nat OBVIOUS
<1>2. f \in [1..Len(s) -> R] BY <1>1
<1> QED BY <1>1, <1>2

LEMMA RowOf == ASSUME NEW R, NEW s \in Seq(R), NEW i \in DOMAIN s PROVE s[i] \in R
  OBVIOUS

LEMMA InvariantsFollow ==
  ASSUME IInv
  PROVE  CookedOnce /\ RoundsAgree /\ CancellationReachesTheCook /\ CalledOffOnce
<1>1. CookedOnce
  <2> SUFFICES ASSUME NEW i \in DOMAIN lines
               PROVE  /\ Cardinality(OrdersOf(i)) <= 1
                      /\ lines[i].status = SentToKitchen => OrdersOf(i) # {}
                      /\ lines[i].status \in {Captured, Printed} => OrdersOf(i) = {}
    BY DEF CookedOnce
  <2>1. Single(OrdersOf(i)) BY DEF IInv, OrdersKept, OrdersOf, Single
  <2>2. Cardinality(OrdersOf(i)) <= 1 BY <2>1, SingleIsOne
  <2>3. lines[i].status = SentToKitchen => OrdersOf(i) # {}
    BY DEF IInv, SentIsOrdered, IsOrdered, OrdersOf
  <2>4. lines[i].status \in {Captured, Printed} => OrdersOf(i) = {}
    BY DEF IInv, OrdersKept, OrdersOf
  <2> QED BY <2>2, <2>3, <2>4
<1>2. RoundsAgree BY DEF IInv, Packages, OrdersKept, RoundsAgree
<1>3. CancellationReachesTheCook
  <2> SUFFICES ASSUME NEW i \in DOMAIN lines \ unsettled, lines[i].status = Cancelled,
                      NEW o \in OrdersOf(i)
               PROVE  \E x \in CancellationsOf(i) :
                          x.order = o /\ x.printer = PrinterOf[orders[o].station]
    BY DEF CancellationReachesTheCook
  <2>1. o \in DOMAIN orders /\ i \in orders[o].lines BY DEF OrdersOf
  <2>2. PICK x \in slips : CallsOff(x, i, o) BY <2>1 DEF IInv, Reached
  <2>3. x \in CancellationsOf(i) BY <2>2 DEF CallsOff, CancellationsOf
  <2> QED BY <2>2, <2>3 DEF CallsOff
<1>4. CalledOffOnce
  <2> SUFFICES ASSUME NEW i \in DOMAIN lines
               PROVE  /\ Cardinality(CancellationsOf(i)) <= 1
                      /\ CancellationsOf(i) # {} => lines[i].status = Cancelled /\ OrdersOf(i) # {}
    BY DEF CalledOffOnce
  <2>1. Single(CancellationsOf(i)) BY DEF IInv, SlipsKept, CancellationsOf, Single
  <2>2. Cardinality(CancellationsOf(i)) <= 1 BY <2>1, SingleIsOne
  <2>3. CancellationsOf(i) # {} => lines[i].status = Cancelled /\ OrdersOf(i) # {}
    BY DEF IInv, SlipsKept, IsOrdered, CancellationsOf, OrdersOf
  <2> QED BY <2>2, <2>3
<1> QED BY <1>1, <1>2, <1>3, <1>4

LEMMA InitIInv == ASSUME Init PROVE IInv
<1>1. /\ lines = <<>> /\ orders = <<>> /\ slips = {} /\ batches = {} /\ unsettled = {}
      /\ ticket = Open /\ changes = 0
      /\ primaries \in Assignments /\ openStations = Stations /\ openPrinters = Printers
  BY DEF Init
<1>2. TypeOK
  <2>1. lines \in Seq(LineRow) /\ orders \in Seq(OrderRow) BY <1>1
  <2>2. changes \in 0..MaxChanges BY <1>1, KitchenAssumption
  <2> QED BY <1>1, <2>1, <2>2 DEF TypeOK
<1>3. IsFiniteSet(batches) BY <1>1, FS_EmptySet
<1>4. DOMAIN lines = {} /\ DOMAIN orders = {} BY <1>1
<1> QED BY <1>1, <1>2, <1>3, <1>4
        DEF IInv, Packages, Stationed, OrdersKept, SentIsOrdered, SlipsKept, Reached

-----------------------------------------------------------------------------
(* Lines are captured.                                                     *)

LEMMA Joined ==
  ASSUME NEW R, NEW s \in Seq(R), NEW t \in Seq(R)
  PROVE  /\ s \o t \in Seq(R)
         /\ Len(t) \in Nat /\ Len(s) \in Nat /\ DOMAIN s = 1..Len(s) /\ DOMAIN t = 1..Len(t)
         /\ DOMAIN (s \o t) = 1..(Len(s) + Len(t))
         /\ \A i \in DOMAIN s : i \in DOMAIN (s \o t) /\ (s \o t)[i] = s[i]
         /\ \A k \in DOMAIN t :
               /\ Len(s) + k \in DOMAIN (s \o t) /\ Len(s) + k \notin DOMAIN s
               /\ (s \o t)[Len(s) + k] = t[k]
         /\ \A i \in DOMAIN (s \o t) : i \notin DOMAIN s =>
               \E k \in DOMAIN t : i = Len(s) + k
<1>1. /\ s \o t \in Seq(R)
      /\ Len(t) \in Nat /\ Len(s) \in Nat /\ DOMAIN s = 1..Len(s) /\ DOMAIN t = 1..Len(t)
      /\ DOMAIN (s \o t) = 1..(Len(s) + Len(t))
  OBVIOUS
<1>2. \A i \in DOMAIN s : i \in DOMAIN (s \o t) /\ (s \o t)[i] = s[i] BY <1>1
<1>3. \A k \in DOMAIN t : /\ Len(s) + k \in DOMAIN (s \o t) /\ Len(s) + k \notin DOMAIN s
                          /\ (s \o t)[Len(s) + k] = t[k]
  BY <1>1
<1>4. ASSUME NEW i \in DOMAIN (s \o t), i \notin DOMAIN s PROVE \E k \in DOMAIN t : i = Len(s) + k
  <2>1. i - Len(s) \in DOMAIN t /\ i = Len(s) + (i - Len(s)) BY <1>1, <1>4
  <2> QED BY <2>1
<1> QED BY <1>1, <1>2, <1>3, <1>4

\* What a line is when it is captured, as the k-th of a call.
IsNew(l, k) ==
    /\ l.status = Captured /\ l.round = 0
    /\ l.kind # Parent => /\ l.product \in Dishes
                          /\ l.snapshot = NoStation => primaries[l.product] = {}
    /\ l.parent # 0 => l.kind = Component /\ k # 1 /\ l.parent = Len(lines) + 1

AreNew(new) ==
    /\ new \in Seq(LineRow)
    /\ 1 \in DOMAIN new /\ new[1].parent = 0
    /\ \A k \in DOMAIN new : IsNew(new[k], k)

LEMMA CaptureIInv ==
  ASSUME IInv, NEW new, AreNew(new), Capture(new)
  PROVE  IInv'
<1>1. /\ lines \in Seq(LineRow) /\ new \in Seq(LineRow)
      /\ 1 \in DOMAIN new /\ new[1].parent = 0
      /\ \A k \in DOMAIN new : IsNew(new[k], k)
  BY DEF IInv, TypeOK, AreNew
<1>2. /\ lines' = lines \o new
      /\ UNCHANGED <<ticket, orders, slips, batches, changes, unsettled>>
      /\ UNCHANGED <<primaries, openStations, openPrinters>>
  BY DEF Capture, catalogue
<1>3. /\ lines' \in Seq(LineRow)
      /\ \A i \in DOMAIN lines : i \in DOMAIN lines' /\ lines'[i] = lines[i]
      /\ \A k \in DOMAIN new : /\ Len(lines) + k \in DOMAIN lines'
                               /\ Len(lines) + k \notin DOMAIN lines
                               /\ lines'[Len(lines) + k] = new[k]
      /\ \A i \in DOMAIN lines' : i \notin DOMAIN lines => \E k \in DOMAIN new : i = Len(lines) + k
  BY <1>1, <1>2, Joined
<1>4. TypeOK'
  BY <1>2, <1>3 DEF IInv, TypeOK
<1>13. Packages /\ Stationed /\ OrdersKept /\ SentIsOrdered /\ SlipsKept /\ Reached
  BY DEF IInv
<1>14. \A i \in DOMAIN lines : i \in DOMAIN lines' /\ lines'[i] = lines[i] BY <1>3
<1>15. /\ orders' = orders /\ slips' = slips /\ unsettled' = unsettled /\ primaries' = primaries
  BY <1>2
<1>5. Packages'
  <2> SUFFICES ASSUME NEW i \in DOMAIN lines'
               PROVE  /\ lines'[i].kind # Parent => lines'[i].product \in Dishes
                      /\ lines'[i].parent # 0 =>
                            /\ lines'[i].kind = Component
                            /\ lines'[i].parent \in DOMAIN lines'
                            /\ lines'[lines'[i].parent].parent = 0
                            /\ (lines'[i].status = Captured) <=> (lines'[lines'[i].parent].status = Captured)
                            /\ lines'[i].round = lines'[lines'[i].parent].round
    BY DEF Packages
  <2>1. CASE i \in DOMAIN lines
    <3>1. lines'[i] = lines[i] BY <1>14, <2>1
    <3>2. lines[i].kind # Parent => lines[i].product \in Dishes BY <1>13, <2>1 DEF Packages
    <3>3. ASSUME lines[i].parent # 0
          PROVE  /\ lines[i].kind = Component
                 /\ lines[i].parent \in DOMAIN lines
                 /\ lines[lines[i].parent].parent = 0
                 /\ (lines[i].status = Captured) <=> (lines[lines[i].parent].status = Captured)
                 /\ lines[i].round = lines[lines[i].parent].round
      BY <1>13, <2>1, <3>3 DEF Packages
    <3>4. lines[i].parent # 0 => /\ lines[i].parent \in DOMAIN lines'
                                /\ lines'[lines[i].parent] = lines[lines[i].parent]
      BY <1>14, <3>3
    <3> QED BY <3>1, <3>2, <3>3, <3>4
  <2>2. CASE i \notin DOMAIN lines
    <3>1. PICK k \in DOMAIN new : i = Len(lines) + k BY <1>3, <2>2
    <3>2. lines'[i] = new[k] /\ IsNew(new[k], k) BY <1>1, <1>3, <3>1
    <3>3. /\ Len(lines) + 1 \in DOMAIN lines' /\ lines'[Len(lines) + 1] = new[1]
          /\ IsNew(new[1], 1) /\ new[1].parent = 0
      BY <1>1, <1>3
    <3> QED BY <3>2, <3>3 DEF IsNew
  <2> QED BY <2>1, <2>2
<1>6. Stationed'
  <2> SUFFICES ASSUME NEW i \in DOMAIN lines', lines'[i].kind # Parent
               PROVE  /\ lines'[i].status = Printed => lines'[i].snapshot = NoStation
                      /\ lines'[i].status = Captured /\ lines'[i].snapshot = NoStation
                            /\ i \notin unsettled => primaries[lines'[i].product] = {}
    BY <1>2 DEF Stationed
  <2>1. CASE i \in DOMAIN lines BY <1>13, <1>14, <2>1 DEF Stationed
  <2>2. CASE i \notin DOMAIN lines
    <3>1. PICK k \in DOMAIN new : i = Len(lines) + k BY <1>3, <2>2
    <3>2. lines'[i] = new[k] /\ IsNew(new[k], k) BY <1>1, <1>3, <3>1
    <3> QED BY <3>2 DEF IsNew
  <2> QED BY <2>1, <2>2
<1>7. OrdersKept'
  <2> SUFFICES ASSUME NEW o \in DOMAIN orders', NEW i \in orders'[o].lines
               PROVE  /\ i \in DOMAIN lines'
                      /\ lines'[i].kind # Parent
                      /\ lines'[i].status \notin {Captured, Printed}
                      /\ lines'[i].round = orders'[o].round
                      /\ i \notin unsettled' => orders'[o].station = lines'[i].snapshot
                      /\ \A p \in DOMAIN orders' : i \in orders'[p].lines => p = o
    BY DEF OrdersKept
  <2>1. /\ i \in DOMAIN lines
        /\ lines[i].kind # Parent
        /\ lines[i].status \notin {Captured, Printed}
        /\ lines[i].round = orders[o].round
        /\ i \notin unsettled => orders[o].station = lines[i].snapshot
        /\ \A p \in DOMAIN orders : i \in orders[p].lines => p = o
    BY <1>13, <1>15 DEF OrdersKept
  <2>2. i \in DOMAIN lines' /\ lines'[i] = lines[i] BY <1>14, <2>1
  <2> QED BY <1>15, <2>1, <2>2
<1>8. ASSUME NEW i \in DOMAIN lines', i \notin DOMAIN lines PROVE lines'[i].status = Captured
  <2>1. PICK k \in DOMAIN new : i = Len(lines) + k BY <1>3, <1>8
  <2>2. lines'[i] = new[k] /\ IsNew(new[k], k) BY <1>1, <1>3, <2>1
  <2> QED BY <2>2 DEF IsNew
<1>9. SentIsOrdered'
  BY <1>8, <1>13, <1>14, <1>15 DEF SentIsOrdered, IsOrdered
<1>10. SlipsKept' BY <1>13, <1>14, <1>15 DEF SlipsKept, IsOrdered
<1>11. Reached'
  <2> SUFFICES ASSUME NEW i \in DOMAIN lines', i \notin unsettled', lines'[i].status = Cancelled,
                      NEW o \in DOMAIN orders', i \in orders'[o].lines
               PROVE  \E x \in slips' : CallsOff(x, i, o)'
    BY DEF Reached
  <2>1. i \in DOMAIN lines BY <1>8
  <2>2. lines[i].status = Cancelled BY <1>14, <2>1
  <2>3. PICK x \in slips : CallsOff(x, i, o) BY <1>13, <1>15, <2>1, <2>2 DEF Reached
  <2> QED BY <1>15, <2>3 DEF CallsOff
<1>12. IsFiniteSet(batches)' BY <1>2 DEF IInv
<1> QED BY <1>4, <1>5, <1>6, <1>7, <1>9, <1>10, <1>11, <1>12 DEF IInv

LEMMA PrimaryStationType ==
  ASSUME KitchenAssumption, TypeOK, NEW p \in Dishes
  PROVE  /\ PrimaryStation(p) \in Stations \cup {NoStation}
         /\ PrimaryStation(p) = NoStation => primaries[p] = {}
<1>1. primaries[p] \subseteq Stations /\ Stations \subseteq Nat \ {NoStation}
  BY DEF TypeOK, Assignments, KitchenAssumption
<1>2. CASE primaries[p] = {} BY <1>2 DEF PrimaryStation
<1>3. CASE primaries[p] # {}
  <2>1. primaries[p] \subseteq Nat BY <1>1
  <2>2. Min(primaries[p]) \in primaries[p] BY <1>3, <2>1, MinIsIn
  <2>3. PrimaryStation(p) = Min(primaries[p]) BY <1>3 DEF PrimaryStation
  <2> QED BY <1>1, <2>2, <2>3
<1> QED BY <1>2, <1>3

LEMMA AddProductIInv ==
  ASSUME KitchenAssumption, IInv, NEW p \in Dishes, AddProduct(p)
  PROVE  IInv'
<1> DEFINE l == NewLine(Simple, p, 0, PrimaryStation(p))
<1>1. /\ PrimaryStation(p) \in Stations \cup {NoStation}
      /\ PrimaryStation(p) = NoStation => primaries[p] = {}
  BY PrimaryStationType DEF IInv
<1>2. l \in LineRow /\ IsNew(l, 1) /\ l.parent = 0 BY <1>1 DEF NewLine, LineRow, IsNew
<1>3. Capture(<<l>>) BY DEF AddProduct
<1> HIDE DEF l
<1>4. AreNew(<<l>>)
  <2>1. <<l>> \in Seq(LineRow) /\ DOMAIN <<l>> = {1} /\ <<l>>[1] = l BY <1>2
  <2> QED BY <1>2, <2>1 DEF AreNew
<1> QED BY <1>3, <1>4, CaptureIInv

LEMMA AddPackageIInv ==
  ASSUME KitchenAssumption, IInv, AddPackage
  PROVE  IInv'
<1> DEFINE head == NewLine(Parent, Package, 0, NoStation)
           first == Len(lines) + 1
           rest == [k \in DOMAIN PackageItems |-> ComponentLine(PackageItems[k], first)]
<1>1. PackageItems \in Seq(PackageItem) /\ Len(PackageItems) \in Nat
      /\ DOMAIN PackageItems = 1..Len(PackageItems)
  BY DEF KitchenAssumption
<1>2. first \in Nat /\ first # 0
  <2>1. lines \in Seq(LineRow) BY DEF IInv, TypeOK
  <2>2. Len(lines) \in Nat BY <2>1
  <2> QED BY <2>2
<1>3. head \in LineRow /\ IsNew(head, 1) /\ head.parent = 0
  BY DEF NewLine, LineRow, IsNew
<1> HIDE DEF head, first
<1>4. ASSUME NEW item \in PackageItem, NEW k \in Nat \ {1}
      PROVE  ComponentLine(item, first) \in LineRow /\ IsNew(ComponentLine(item, first), k)
  <2> DEFINE st == IF item.override # NoStation THEN item.override ELSE PrimaryStation(item.product)
  <2>1. item.product \in Dishes /\ item.override \in Stations \cup {NoStation} BY DEF PackageItem
  <2>2. /\ PrimaryStation(item.product) \in Stations \cup {NoStation}
        /\ PrimaryStation(item.product) = NoStation => primaries[item.product] = {}
    BY <2>1, PrimaryStationType DEF IInv
  <2>3. st \in Stations \cup {NoStation} /\ (st = NoStation => primaries[item.product] = {})
    BY <2>1, <2>2
  <2>4. ComponentLine(item, first) = NewLine(Component, item.product, first, st)
    BY DEF ComponentLine
  <2> HIDE DEF st
  <2> DEFINE l == NewLine(Component, item.product, first, st)
  <2>5. /\ l.kind = Component /\ l.product = item.product /\ l.parent = first
        /\ l.snapshot = st /\ l.round = 0 /\ l.status = Captured
    BY DEF NewLine
  <2>6. l \in LineRow BY <1>2, <2>1, <2>3 DEF NewLine, LineRow
  <2> HIDE DEF l
  <2>7. IsNew(l, k) BY <1>4, <2>1, <2>3, <2>5 DEF IsNew, first
  <2> QED BY <2>4, <2>6, <2>7 DEF l
<1> HIDE DEF first
<1>5. rest \in Seq(LineRow) /\ DOMAIN rest = DOMAIN PackageItems
  <2>1. \A k \in DOMAIN PackageItems : PackageItems[k] \in PackageItem BY <1>1
  <2>2. \A k \in DOMAIN PackageItems : ComponentLine(PackageItems[k], first) \in LineRow
    BY <1>4, <2>1
  <2>3. rest \in [1..Len(PackageItems) -> LineRow] BY <1>1, <2>2
  <2> QED BY <1>1, <2>3
<1>6. \A k \in DOMAIN rest : IsNew(rest[k], k + 1)
  <2> SUFFICES ASSUME NEW k \in DOMAIN PackageItems
               PROVE  IsNew(ComponentLine(PackageItems[k], first), k + 1)
    BY <1>5
  <2>1. PackageItems[k] \in PackageItem /\ k + 1 \in Nat \ {1} BY <1>1
  <2> QED BY <1>4, <2>1
<1>7. Capture(<<head>> \o rest) BY DEF AddPackage, head, first
<1> HIDE DEF rest
<1>8. AreNew(<<head>> \o rest)
  <2>1. <<head>> \in Seq(LineRow) /\ Len(<<head>>) = 1 /\ DOMAIN <<head>> = {1} /\ <<head>>[1] = head
    BY <1>3
  <2> DEFINE one == <<head>>
             all == one \o rest
  <2> HIDE DEF one
  <2>2. one \in Seq(LineRow) /\ Len(one) = 1 /\ DOMAIN one = {1} /\ one[1] = head BY <2>1 DEF one
  <2>3. /\ all \in Seq(LineRow)
        /\ \A i \in DOMAIN one : i \in DOMAIN all /\ all[i] = one[i]
        /\ \A k \in DOMAIN rest : all[Len(one) + k] = rest[k]
        /\ \A i \in DOMAIN all : i \notin DOMAIN one => \E k \in DOMAIN rest : i = Len(one) + k
    <3>1. rest \in Seq(LineRow) BY <1>5
    <3>2. one \in Seq(LineRow) BY <2>2
    <3> HIDE DEF all
    <3>3. /\ one \o rest \in Seq(LineRow)
          /\ \A i \in DOMAIN one : i \in DOMAIN (one \o rest) /\ (one \o rest)[i] = one[i]
          /\ \A k \in DOMAIN rest : (one \o rest)[Len(one) + k] = rest[k]
          /\ \A i \in DOMAIN (one \o rest) : i \notin DOMAIN one =>
                \E k \in DOMAIN rest : i = Len(one) + k
      BY <3>1, <3>2, Joined
    <3> QED BY <3>3 DEF all
  <2> HIDE DEF all
  <2>4. 1 \in DOMAIN all /\ all[1] = head BY <2>2, <2>3
  <2>5. \A i \in DOMAIN all : IsNew(all[i], i)
    <3> SUFFICES ASSUME NEW i \in DOMAIN all PROVE IsNew(all[i], i)
      OBVIOUS
    <3>1. CASE i = 1 BY <1>3, <2>4, <3>1
    <3>2. CASE i # 1
      <4>1. PICK k \in DOMAIN rest : i = 1 + k BY <2>2, <2>3, <3>2
      <4>2. all[i] = rest[k] BY <2>2, <2>3, <4>1
      <4>3. 1 + k = k + 1 BY <1>1, <1>5
      <4> QED BY <1>6, <4>1, <4>2, <4>3
    <3> QED BY <3>1, <3>2
  <2>6. AreNew(all) BY <1>3, <2>3, <2>4, <2>5 DEF AreNew
  <2> QED BY <2>6 DEF all, one
<1> QED BY <1>7, <1>8, CaptureIInv

-----------------------------------------------------------------------------
(* A round is sent.                                                        *)

LEMMA ResolvedType ==
  ASSUME KitchenAssumption, TypeOK, NEW l \in LineRow, l.product \in Dishes
  PROVE  /\ Resolved(l) \in Stations \cup {NoStation}
         /\ l.snapshot \in openStations => Resolved(l) = l.snapshot
         /\ l.snapshot = NoStation /\ primaries[l.product] = {} => Resolved(l) = NoStation
<1> DEFINE current == primaries[l.product] \cap openStations
<1>1. /\ current \subseteq Stations /\ openStations \subseteq Stations
      /\ Stations \subseteq Nat \ {NoStation} /\ IsFiniteSet(Stations)
  BY DEF TypeOK, KitchenAssumption
<1>2. current # {} => Max(current) \in Stations
  <2> SUFFICES ASSUME current # {} PROVE Max(current) \in Stations
    OBVIOUS
  <2>1. current \subseteq Nat BY <1>1
  <2>2. IsFiniteSet(current) BY <1>1, FS_Subset
  <2> HIDE DEF current
  <2>3. Max(current) \in current BY <2>1, <2>2, MaxIsIn
  <2> QED BY <1>1, <2>3
<1>3. Resolved(l) = IF l.snapshot \in openStations THEN l.snapshot
                    ELSE IF current = {} THEN NoStation ELSE Max(current)
  BY DEF Resolved
<1>4. primaries[l.product] = {} => current = {} OBVIOUS
<1> HIDE DEF current
<1> QED BY <1>1, <1>2, <1>3, <1>4

Targets == {Resolved(lines[i]) : i \in Producible}

\* A round is numbered from 1, and goes to stations.
LEMMA RoundTypes ==
  ASSUME KitchenAssumption, IInv
  PROVE  /\ LastRound + 1 \in Nat \ {0}
         /\ \A i \in Producible : /\ i \in DOMAIN lines /\ lines[i].status = Captured
                                  /\ lines[i].kind # Parent /\ lines[i].product \in Dishes
                                  /\ Resolved(lines[i]) \in Stations
         /\ Targets \subseteq Stations /\ Targets \subseteq Nat /\ IsFiniteSet(Targets)
<1>1. LastRound + 1 \in Nat \ {0}
  <2>1. batches \subseteq Nat /\ IsFiniteSet(batches) BY DEF IInv, TypeOK, BatchRow
  <2>2. {0} \cup batches \subseteq Nat /\ {0} \cup batches # {} BY <2>1
  <2>3. IsFiniteSet({0} \cup batches)
    <3>1. IsFiniteSet(batches \cup {0}) BY <2>1, FS_AddElement
    <3>2. batches \cup {0} = {0} \cup batches OBVIOUS
    <3> QED BY <3>1, <3>2
  <2>4. LastRound \in Nat BY <2>2, <2>3, MaxIsIn DEF LastRound
  <2> QED BY <2>4
<1>2. ASSUME NEW i \in Producible
      PROVE  /\ i \in DOMAIN lines /\ lines[i].status = Captured
             /\ lines[i].kind # Parent /\ lines[i].product \in Dishes
             /\ Resolved(lines[i]) \in Stations
  <2>1. i \in DOMAIN lines /\ lines[i].status = Captured /\ lines[i].kind # Parent
        /\ Resolved(lines[i]) # NoStation
    BY DEF Producible, CapturedLines
  <2>2. lines[i].product \in Dishes BY <2>1 DEF IInv, Packages
  <2>3. lines[i] \in LineRow /\ TypeOK
    <3>1. TypeOK /\ lines \in Seq(LineRow) BY DEF IInv, TypeOK
    <3>2. i \in DOMAIN lines BY <2>1
    <3> QED BY <3>1, <3>2, RowOf
  <2>4. Resolved(lines[i]) \in Stations \cup {NoStation} BY <2>2, <2>3, ResolvedType
  <2> QED BY <2>1, <2>2, <2>4
<1>3. Targets \subseteq Stations BY <1>2 DEF Targets
<1>4. Stations \subseteq Nat /\ IsFiniteSet(Stations) BY DEF KitchenAssumption
<1>5. IsFiniteSet(Targets) BY <1>3, <1>4, FS_Subset
<1> QED BY <1>1, <1>2, <1>3, <1>4, <1>5

\* The order at s in round n, as what the rest of the argument reads of it.
IsOrderAt(order, s, n) ==
    /\ order.station = s /\ order.round = n
    /\ order.lines = {i \in Producible : Resolved(lines[i]) = s}

\* The k-th order of the rows after those there are, whatever was sent.
Sends(new, n) ==
    /\ new \in Seq(OrderRow)
    /\ \A k \in DOMAIN new : \E s \in Targets : IsOrderAt(new[k], s, n)
    /\ \A k, m \in DOMAIN new : new[k].station = new[m].station => k = m
    /\ \A s \in Targets : \E k \in DOMAIN new : IsOrderAt(new[k], s, n)

\* What a line becomes in round n.
SentIn(l, before, n, produced) ==
    /\ l.kind = before.kind /\ l.product = before.product /\ l.parent = before.parent
    /\ l.snapshot = before.snapshot /\ l.round = n
    /\ l.status = IF produced THEN SentToKitchen ELSE Printed

\* The orders of a round: one for each station, with its lines.
LEMMA RoundOrders ==
  ASSUME KitchenAssumption, IInv, SendRound
  PROVE  \E new : Sends(new, LastRound + 1) /\ orders' = orders \o new
<1> DEFINE route == StationsInOrder(Targets)
           n == LastRound + 1
           c == Cardinality(Targets)
           new == [k \in DOMAIN route |-> NewOrder(route[k], n)]
<1>1. /\ n \in Nat \ {0}
      /\ Targets \subseteq Stations /\ Targets \subseteq Nat /\ IsFiniteSet(Targets)
  BY RoundTypes
<1>2. /\ c \in Nat /\ route \in [1..c -> Targets]
      /\ \A a, b \in 1..c : route[a] = route[b] => a = b
      /\ \A s \in Targets : \E k \in 1..c : route[k] = s
  BY <1>1, RouteListsStations
<1>3. orders' = orders \o new BY DEF SendRound, Targets
<1> HIDE DEF n, route, c
<1>4. DOMAIN new = 1..c /\ \A k \in 1..c : new[k] = NewOrder(route[k], n) BY <1>2
<1>5. Producible \subseteq Nat
  <2>1. lines \in Seq(LineRow) BY DEF IInv, TypeOK
  <2>2. DOMAIN lines \subseteq Nat BY <2>1
  <2> QED BY <2>2 DEF Producible, CapturedLines
<1>6. ASSUME NEW s \in Targets
      PROVE  NewOrder(s, n) \in OrderRow /\ IsOrderAt(NewOrder(s, n), s, n)
  <2>1. {i \in Producible : Resolved(lines[i]) = s} \in SUBSET Nat BY <1>5
  <2>2. s \in Stations BY <1>1
  <2> QED BY <1>1, <2>1, <2>2 DEF NewOrder, OrderRow, IsOrderAt
<1>7. new \in Seq(OrderRow)
  <2>1. \A k \in 1..c : NewOrder(route[k], n) \in OrderRow BY <1>2, <1>6
  <2>2. new \in [1..c -> OrderRow] BY <1>2, <2>1
  <2> QED BY <1>2, <2>2
<1> HIDE DEF new
<1>8. \A k \in DOMAIN new : route[k] \in Targets /\ IsOrderAt(new[k], route[k], n)
  BY <1>2, <1>4, <1>6
<1>9. \A k, m \in DOMAIN new : new[k].station = new[m].station => k = m
  <2> SUFFICES ASSUME NEW k \in DOMAIN new, NEW m \in DOMAIN new, new[k].station = new[m].station
               PROVE  k = m
    OBVIOUS
  <2>1. route[k] = route[m] BY <1>8 DEF IsOrderAt
  <2> QED BY <1>2, <1>4, <2>1
<1>10. \A s \in Targets : \E k \in DOMAIN new : IsOrderAt(new[k], s, n)
  <2> SUFFICES ASSUME NEW s \in Targets PROVE \E k \in DOMAIN new : IsOrderAt(new[k], s, n)
    OBVIOUS
  <2>1. PICK k \in 1..c : route[k] = s BY <1>2
  <2> QED BY <1>4, <1>8, <2>1
<1>11. Sends(new, n) BY <1>7, <1>8, <1>9, <1>10 DEF Sends
<1> QED BY <1>3, <1>11 DEF n

\* The slips of a round are commands, on active printers.
LEMMA RoundSlips ==
  ASSUME KitchenAssumption, IInv, SendRound
  PROVE  /\ slips' \subseteq SlipRow /\ slips \subseteq slips'
         /\ \A x \in slips' : x.type = Cancellation => x \in slips
<1> DEFINE route == StationsInOrder(Targets)
<1>1. /\ Targets \subseteq Stations /\ Targets \subseteq Nat /\ IsFiniteSet(Targets)
  BY RoundTypes
<1>2. Cardinality(Targets) \in Nat /\ route \in [1..Cardinality(Targets) -> Targets]
  BY <1>1, RouteListsStations
<1>3. slips' = slips \cup {CommandSlip(Len(orders) + k, route[k]) : k \in DOMAIN route}
      /\ \A s \in Targets : CanPrint(s)
  BY DEF SendRound, Targets
<1> HIDE DEF route
<1>4. ASSUME NEW k \in DOMAIN route
      PROVE  /\ CommandSlip(Len(orders) + k, route[k]) \in SlipRow
             /\ CommandSlip(Len(orders) + k, route[k]).type = Command
  <2>1. k \in Nat /\ route[k] \in Targets BY <1>2
  <2>2. orders \in Seq(OrderRow) /\ openPrinters \subseteq Printers BY DEF IInv, TypeOK
  <2>3. Len(orders) + k \in Nat BY <2>1, <2>2
  <2>4. PrinterOf[route[k]] \in Printers BY <1>3, <2>1, <2>2 DEF CanPrint
  <2> QED BY <2>3, <2>4 DEF CommandSlip, SlipRow
<1>5. slips \subseteq SlipRow BY DEF IInv, TypeOK
<1>6. Command # Cancellation OBVIOUS
<1> QED BY <1>3, <1>4, <1>5, <1>6

\* The lines of a round: those that were waiting leave, the others stay.
LEMMA RoundLines ==
  ASSUME KitchenAssumption, IInv, SendRound
  PROVE  /\ lines' \in Seq(LineRow) /\ DOMAIN lines' = DOMAIN lines
         /\ \A i \in DOMAIN lines :
               /\ lines[i].status # Captured => lines'[i] = lines[i]
               /\ lines[i].status = Captured
                     => SentIn(lines'[i], lines[i], LastRound + 1, i \in Producible)
<1> DEFINE n == LastRound + 1
           after(i) == [lines[i] EXCEPT !.status = IF i \in Producible THEN SentToKitchen ELSE Printed,
                                        !.round = n]
<1>1. lines \in Seq(LineRow) BY DEF IInv, TypeOK
<1>2. n \in Nat \ {0} BY RoundTypes
<1>3. lines' = [i \in DOMAIN lines |-> IF i \in CapturedLines THEN after(i) ELSE lines[i]]
  BY DEF SendRound
<1> HIDE DEF n
<1>4. ASSUME NEW i \in DOMAIN lines
      PROVE  /\ after(i) \in LineRow
             /\ SentIn(after(i), lines[i], n, i \in Producible)
  <2>1. lines[i] \in LineRow BY <1>1
  <2> DEFINE st == IF i \in Producible THEN SentToKitchen ELSE Printed
  <2>2. st \in {SentToKitchen, Printed} OBVIOUS
  <2>3. after(i) = [lines[i] EXCEPT !.status = st, !.round = n] OBVIOUS
  <2>4. SentIn(after(i), lines[i], n, i \in Producible)
    BY <2>1 DEF SentIn, LineRow
  <2> HIDE DEF st
  <2>5. after(i) \in LineRow BY <1>2, <2>1, <2>2, <2>3 DEF LineRow
  <2> QED BY <2>4, <2>5
<1> HIDE DEF after
<1>5. DOMAIN lines' = DOMAIN lines BY <1>3
<1>6. \A i \in DOMAIN lines : lines'[i] \in LineRow BY <1>1, <1>3, <1>4
<1>7. lines' \in Seq(LineRow)
  <2>1. lines' = [i \in DOMAIN lines |-> lines'[i]] BY <1>3
  <2> QED BY <1>1, <1>5, <1>6, <2>1, InPlace
<1>8. ASSUME NEW i \in DOMAIN lines, lines[i].status # Captured PROVE lines'[i] = lines[i]
  BY <1>3, <1>8 DEF CapturedLines
<1>9. ASSUME NEW i \in DOMAIN lines, lines[i].status = Captured
      PROVE  SentIn(lines'[i], lines[i], n, i \in Producible)
  <2>1. lines'[i] = after(i) BY <1>3, <1>9 DEF CapturedLines
  <2> QED BY <1>4, <2>1
<1> QED BY <1>5, <1>7, <1>8, <1>9 DEF n

LEMMA SendRoundIInv ==
  ASSUME KitchenAssumption, IInv, SendRound
  PROVE  IInv'
<1> DEFINE n == LastRound + 1
<1>1. PICK new : Sends(new, n) /\ orders' = orders \o new BY RoundOrders
<1>2. /\ n \in Nat \ {0}
      /\ \A i \in Producible : /\ i \in DOMAIN lines /\ lines[i].status = Captured
                               /\ lines[i].kind # Parent /\ lines[i].product \in Dishes
                               /\ Resolved(lines[i]) \in Stations
  BY RoundTypes
<1>3. /\ slips' \subseteq SlipRow /\ slips \subseteq slips'
      /\ \A x \in slips' : x.type = Cancellation => x \in slips
  BY RoundSlips
<1>4. /\ lines' \in Seq(LineRow) /\ DOMAIN lines' = DOMAIN lines
      /\ \A i \in DOMAIN lines :
            /\ lines[i].status # Captured => lines'[i] = lines[i]
            /\ lines[i].status = Captured
                  => SentIn(lines'[i], lines[i], n, i \in Producible)
  BY RoundLines
<1>5. /\ \A i \in CapturedLines : lines[i].kind # Parent => Resolvable(lines[i])
      /\ batches' = batches \cup {n}
      /\ unsettled' = unsettled \cup
            {i \in Producible : lines[i].snapshot \notin openStations \cup {NoStation}}
      /\ UNCHANGED <<ticket, primaries, openStations, openPrinters, changes>>
  BY DEF SendRound, catalogue
<1>6. /\ TypeOK /\ Packages /\ Stationed /\ OrdersKept /\ SentIsOrdered /\ SlipsKept /\ Reached
      /\ IsFiniteSet(batches)
  BY DEF IInv
<1> HIDE DEF n
<1>7. /\ orders' \in Seq(OrderRow)
      /\ \A o \in DOMAIN orders : o \in DOMAIN orders' /\ orders'[o] = orders[o]
      /\ \A k \in DOMAIN new : /\ Len(orders) + k \in DOMAIN orders'
                               /\ orders'[Len(orders) + k] = new[k]
      /\ \A o \in DOMAIN orders' : o \notin DOMAIN orders =>
            \E k \in DOMAIN new : o = Len(orders) + k
  <2>1. orders \in Seq(OrderRow) BY <1>6 DEF TypeOK
  <2>2. new \in Seq(OrderRow) BY <1>1 DEF Sends
  <2> QED BY <1>1, <2>1, <2>2, Joined
\* A new order holds lines that were waiting, each at its station.
<1>8. ASSUME NEW o \in DOMAIN orders', o \notin DOMAIN orders
      PROVE  /\ orders'[o].round = n
             /\ \A i \in orders'[o].lines : i \in Producible /\ orders'[o].station = Resolved(lines[i])
  <2>1. PICK k \in DOMAIN new : o = Len(orders) + k BY <1>7, <1>8
  <2>2. orders'[o] = new[k] BY <1>7, <2>1
  <2>3. PICK s \in Targets : IsOrderAt(new[k], s, n) BY <1>1 DEF Sends
  <2> QED BY <2>2, <2>3 DEF IsOrderAt
\* Lines that were waiting were in no order.
<1>9. \A o \in DOMAIN orders : \A i \in orders[o].lines :
         i \in DOMAIN lines /\ lines[i].status # Captured /\ i \notin Producible
  <2>1. \A o \in DOMAIN orders : \A i \in orders[o].lines :
           i \in DOMAIN lines /\ lines[i].status # Captured
    BY <1>6 DEF OrdersKept
  <2> QED BY <1>2, <2>1
<1>10. TypeOK'
  <2>1. batches' \subseteq BatchRow BY <1>2, <1>5, <1>6 DEF TypeOK, BatchRow
  <2>2. unsettled' \subseteq DOMAIN lines' BY <1>2, <1>4, <1>5, <1>6 DEF TypeOK
  <2> QED BY <1>3, <1>4, <1>5, <1>6, <1>7, <2>1, <2>2 DEF TypeOK
<1>11. IsFiniteSet(batches)' BY <1>5, <1>6, FS_AddElement
<1>12. ASSUME NEW i \in DOMAIN lines
       PROVE  /\ lines'[i].kind = lines[i].kind /\ lines'[i].product = lines[i].product
              /\ lines'[i].parent = lines[i].parent /\ lines'[i].snapshot = lines[i].snapshot
              /\ lines'[i].status # Captured
  <2>1. CASE lines[i].status # Captured BY <1>4, <2>1
  <2>2. CASE lines[i].status = Captured BY <1>4, <2>2 DEF SentIn
  <2> QED BY <2>1, <2>2
<1>13. Packages'
  <2> SUFFICES ASSUME NEW i \in DOMAIN lines'
               PROVE  /\ lines'[i].kind # Parent => lines'[i].product \in Dishes
                      /\ lines'[i].parent # 0 =>
                            /\ lines'[i].kind = Component
                            /\ lines'[i].parent \in DOMAIN lines'
                            /\ lines'[lines'[i].parent].parent = 0
                            /\ (lines'[i].status = Captured) <=> (lines'[lines'[i].parent].status = Captured)
                            /\ lines'[i].round = lines'[lines'[i].parent].round
    BY DEF Packages
  <2>1. i \in DOMAIN lines BY <1>4
  <2>2. lines[i].kind # Parent => lines[i].product \in Dishes BY <1>6, <2>1 DEF Packages
  <2>3. ASSUME lines[i].parent # 0
        PROVE  /\ lines[i].kind = Component
               /\ lines[i].parent \in DOMAIN lines
               /\ lines[lines[i].parent].parent = 0
               /\ (lines[i].status = Captured) <=> (lines[lines[i].parent].status = Captured)
               /\ lines[i].round = lines[lines[i].parent].round
    BY <1>6, <2>1, <2>3 DEF Packages
  <2>4. ASSUME lines[i].parent # 0
        PROVE  lines'[i].round = lines'[lines[i].parent].round
    <3>1. lines[i].parent \in DOMAIN lines BY <2>3, <2>4
    <3>2. CASE lines[i].status = Captured
      <4>1. lines[lines[i].parent].status = Captured BY <2>3, <2>4, <3>2
      <4>2. lines'[i].round = n BY <1>4, <2>1, <3>2 DEF SentIn
      <4>3. lines'[lines[i].parent].round = n BY <1>4, <3>1, <4>1 DEF SentIn
      <4> QED BY <4>2, <4>3
    <3>3. CASE lines[i].status # Captured
      <4>1. lines[lines[i].parent].status # Captured BY <2>3, <2>4, <3>3
      <4>2. lines'[i] = lines[i] BY <1>4, <2>1, <3>3
      <4>3. lines'[lines[i].parent] = lines[lines[i].parent] BY <1>4, <3>1, <4>1
      <4> QED BY <2>3, <2>4, <4>2, <4>3
    <3> QED BY <3>2, <3>3
  <2>5. lines'[i].kind = lines[i].kind /\ lines'[i].product = lines[i].product
        /\ lines'[i].parent = lines[i].parent /\ lines'[i].status # Captured
    BY <1>12, <2>1
  <2>6. ASSUME lines[i].parent # 0
        PROVE  /\ lines[i].parent \in DOMAIN lines' /\ lines'[lines[i].parent].parent = 0
               /\ lines'[lines[i].parent].status # Captured
    BY <1>4, <1>12, <2>3, <2>6
  <2> QED BY <2>2, <2>3, <2>4, <2>5, <2>6
<1>14. Stationed'
  <2> SUFFICES ASSUME NEW i \in DOMAIN lines', lines'[i].kind # Parent
               PROVE  /\ lines'[i].status = Printed => lines'[i].snapshot = NoStation
                      /\ lines'[i].status # Captured
    BY DEF Stationed
  <2>1. i \in DOMAIN lines /\ lines[i].kind # Parent /\ lines'[i].snapshot = lines[i].snapshot
        /\ lines'[i].status # Captured
    BY <1>4, <1>12
  <2>2. ASSUME lines'[i].status = Printed PROVE lines[i].snapshot = NoStation
    <3>1. CASE lines[i].status # Captured
      <4>1. lines[i].status = Printed BY <1>4, <2>1, <2>2, <3>1
      <4> QED BY <1>6, <2>1, <4>1 DEF Stationed
    <3>2. CASE lines[i].status = Captured
      <4>1. i \notin Producible BY <1>4, <2>1, <2>2, <3>2 DEF SentIn
      <4>2. i \in CapturedLines BY <2>1, <3>2 DEF CapturedLines
      <4>3. Resolved(lines[i]) = NoStation BY <2>1, <4>1, <4>2 DEF Producible
      <4> QED BY <1>5, <2>1, <4>2, <4>3 DEF Resolvable
    <3> QED BY <3>1, <3>2
  <2> QED BY <2>1, <2>2
<1>15. OrdersKept'
  <2> SUFFICES ASSUME NEW o \in DOMAIN orders', NEW i \in orders'[o].lines
               PROVE  /\ i \in DOMAIN lines'
                      /\ lines'[i].kind # Parent
                      /\ lines'[i].status \notin {Captured, Printed}
                      /\ lines'[i].round = orders'[o].round
                      /\ i \notin unsettled' => orders'[o].station = lines'[i].snapshot
                      /\ \A p \in DOMAIN orders' : i \in orders'[p].lines => p = o
    BY DEF OrdersKept
  <2>1. CASE o \in DOMAIN orders
    <3>1. orders'[o] = orders[o] /\ i \in orders[o].lines BY <1>7, <2>1
    <3>2. i \in DOMAIN lines /\ lines[i].status # Captured /\ i \notin Producible BY <1>9, <2>1, <3>1
    <3>3. i \in DOMAIN lines' /\ lines'[i] = lines[i] BY <1>4, <3>2
    <3>4. /\ lines[i].kind # Parent
          /\ lines[i].status \notin {Captured, Printed}
          /\ lines[i].round = orders[o].round
          /\ i \notin unsettled => orders[o].station = lines[i].snapshot
          /\ \A p \in DOMAIN orders : i \in orders[p].lines => p = o
      BY <1>6, <2>1, <3>1 DEF OrdersKept
    <3>5. i \notin unsettled' => i \notin unsettled BY <1>5
    <3>6. \A p \in DOMAIN orders' : i \in orders'[p].lines => p = o
      BY <1>7, <1>8, <3>2, <3>4
    <3> QED BY <3>1, <3>3, <3>4, <3>5, <3>6
  <2>2. CASE o \notin DOMAIN orders
    <3>1. orders'[o].round = n /\ i \in Producible /\ orders'[o].station = Resolved(lines[i])
      BY <1>8, <2>2
    <3>2. /\ i \in DOMAIN lines /\ lines[i].status = Captured
          /\ lines[i].kind # Parent /\ lines[i].product \in Dishes
          /\ Resolved(lines[i]) \in Stations
      BY <1>2, <3>1
    <3>3. /\ lines'[i].kind # Parent /\ lines'[i].snapshot = lines[i].snapshot
          /\ lines'[i].round = n /\ lines'[i].status = SentToKitchen
      <4>1. SentIn(lines'[i], lines[i], n, i \in Producible) BY <1>4, <3>2
      <4> QED BY <3>1, <3>2, <4>1 DEF SentIn
    <3>4. ASSUME i \notin unsettled' PROVE Resolved(lines[i]) = lines[i].snapshot
      <4>1. i \notin unsettled /\ lines[i].snapshot \in openStations \cup {NoStation}
        BY <1>5, <3>1, <3>4
      <4>2. lines[i] \in LineRow
        <5>1. lines \in Seq(LineRow) BY <1>6 DEF TypeOK
        <5>2. i \in DOMAIN lines BY <3>2
        <5> QED BY <5>1, <5>2, RowOf
      <4>3. /\ lines[i].snapshot \in openStations => Resolved(lines[i]) = lines[i].snapshot
            /\ lines[i].snapshot = NoStation /\ primaries[lines[i].product] = {}
                  => Resolved(lines[i]) = NoStation
        BY <1>6, <3>2, <4>2, ResolvedType
      <4>4. CASE lines[i].snapshot = NoStation
        <5>1. primaries[lines[i].product] = {} BY <1>6, <3>2, <4>1, <4>4 DEF Stationed
        <5>2. NoStation \notin Stations BY DEF KitchenAssumption
        <5> QED BY <3>2, <4>3, <4>4, <5>1, <5>2
      <4> QED BY <4>1, <4>3, <4>4
    <3>5. ASSUME NEW p \in DOMAIN orders', i \in orders'[p].lines PROVE p = o
      <4>1. p \notin DOMAIN orders BY <1>7, <1>9, <3>1, <3>5
      <4>2. orders'[p].station = Resolved(lines[i]) BY <1>8, <3>5, <4>1
      <4>3. PICK k \in DOMAIN new : o = Len(orders) + k BY <1>7, <2>2
      <4>4. PICK m \in DOMAIN new : p = Len(orders) + m BY <1>7, <4>1
      <4>5. new[k].station = new[m].station BY <1>7, <3>1, <4>2, <4>3, <4>4
      <4>6. k = m BY <1>1, <4>5 DEF Sends
      <4> QED BY <4>3, <4>4, <4>6
    <3> QED BY <1>4, <3>1, <3>2, <3>3, <3>4, <3>5
  <2> QED BY <2>1, <2>2
<1>16. ASSUME NEW i, IsOrdered(i) PROVE IsOrdered(i)'
  <2>1. PICK o \in DOMAIN orders : i \in orders[o].lines BY <1>16 DEF IsOrdered
  <2>2. o \in DOMAIN orders' /\ i \in orders'[o].lines BY <1>7, <2>1
  <2> QED BY <2>2 DEF IsOrdered
<1>17. SentIsOrdered'
  <2> SUFFICES ASSUME NEW i \in DOMAIN lines', lines'[i].status = SentToKitchen
               PROVE  IsOrdered(i)'
    BY DEF SentIsOrdered
  <2>1. i \in DOMAIN lines BY <1>4
  <2>2. CASE lines[i].status # Captured
    <3>1. lines[i].status = SentToKitchen BY <1>4, <2>1, <2>2
    <3>2. IsOrdered(i) BY <1>6, <2>1, <3>1 DEF SentIsOrdered
    <3> QED BY <1>16, <3>2
  <2>3. CASE lines[i].status = Captured
    <3>1. i \in Producible BY <1>4, <2>1, <2>3 DEF SentIn
    <3>2. Resolved(lines[i]) \in Targets BY <3>1 DEF Targets
    <3>3. PICK k \in DOMAIN new : IsOrderAt(new[k], Resolved(lines[i]), n)
      BY <1>1, <3>2 DEF Sends
    <3>4. i \in new[k].lines BY <3>1, <3>3 DEF IsOrderAt
    <3>5. Len(orders) + k \in DOMAIN orders' /\ i \in orders'[Len(orders) + k].lines
      BY <1>7, <3>4
    <3> QED BY <3>5 DEF IsOrdered
  <2> QED BY <2>2, <2>3
<1>18. SlipsKept'
  <2> SUFFICES ASSUME NEW x \in slips', x.type = Cancellation
               PROVE  /\ x.line \in DOMAIN lines'
                      /\ lines'[x.line].status = Cancelled
                      /\ IsOrdered(x.line)'
                      /\ \A y \in slips' : y.type = Cancellation /\ y.line = x.line => y = x
    BY DEF SlipsKept
  <2>1. x \in slips BY <1>3
  <2>2. /\ x.line \in DOMAIN lines
        /\ lines[x.line].status = Cancelled
        /\ IsOrdered(x.line)
        /\ \A y \in slips : y.type = Cancellation /\ y.line = x.line => y = x
    BY <1>6, <2>1 DEF SlipsKept
  <2>3. lines'[x.line] = lines[x.line] BY <1>4, <2>2
  <2> QED BY <1>3, <1>4, <1>16, <2>2, <2>3
<1>19. Reached'
  <2> SUFFICES ASSUME NEW i \in DOMAIN lines', i \notin unsettled', lines'[i].status = Cancelled,
                      NEW o \in DOMAIN orders', i \in orders'[o].lines
               PROVE  \E x \in slips' : CallsOff(x, i, o)'
    BY DEF Reached
  <2>1. i \in DOMAIN lines /\ i \notin unsettled BY <1>4, <1>5
  <2>2. lines[i].status = Cancelled
    <3>1. lines[i].status # Captured BY <1>4, <2>1 DEF SentIn
    <3> QED BY <1>4, <2>1, <3>1
  <2>3. o \in DOMAIN orders BY <1>2, <1>8, <2>2
  <2>4. orders'[o] = orders[o] BY <1>7, <2>3
  <2>5. PICK x \in slips : CallsOff(x, i, o) BY <1>6, <2>1, <2>2, <2>3, <2>4 DEF Reached
  <2> QED BY <1>3, <2>4, <2>5 DEF CallsOff
<1> QED BY <1>10, <1>11, <1>13, <1>14, <1>15, <1>17, <1>18, <1>19 DEF IInv

-----------------------------------------------------------------------------
(* Lines are cancelled.                                                    *)

\* The slip of a line names its order, if it has one.
LEMMA LatestOrder ==
  ASSUME IInv, NEW i
  PROVE  /\ Max({0} \cup OrdersOf(i)) \in Nat
         /\ \A o \in DOMAIN orders : i \in orders[o].lines => Max({0} \cup OrdersOf(i)) = o
<1> DEFINE S == {0} \cup OrdersOf(i)
<1>1. /\ DOMAIN orders = 1..Len(orders) /\ Len(orders) \in Nat /\ IsFiniteSet(DOMAIN orders)
  <2>1. orders \in Seq(OrderRow) BY DEF IInv, TypeOK
  <2> QED BY <2>1, FiniteRows
<1>2. OrdersOf(i) \subseteq DOMAIN orders BY DEF OrdersOf
<1>3. IsFiniteSet(OrdersOf(i)) BY <1>1, <1>2, FS_Subset
<1>4. IsFiniteSet(S)
  <2>1. IsFiniteSet(OrdersOf(i) \cup {0}) BY <1>3, FS_AddElement
  <2>2. OrdersOf(i) \cup {0} = S OBVIOUS
  <2> QED BY <2>1, <2>2
<1>5. S \subseteq Nat /\ S # {} BY <1>1, <1>2
<1> HIDE DEF S
<1>6. Max(S) \in S /\ \A x \in S : x <= Max(S) BY <1>4, <1>5, MaxIsIn
<1>7. ASSUME NEW o \in DOMAIN orders, i \in orders[o].lines PROVE Max(S) = o
  <2>1. \A p \in OrdersOf(i) : p = o BY <1>7 DEF IInv, OrdersKept, OrdersOf
  <2>2. o \in OrdersOf(i) BY <1>7 DEF OrdersOf
  <2>3. o \in S /\ \A x \in S : x = 0 \/ x = o BY <2>1, <2>2 DEF S
  <2>4. o \in Nat /\ o >= 1 BY <1>1, <1>7
  <2>5. Max(S) = 0 \/ Max(S) = o BY <1>6, <2>3
  <2>6. o <= Max(S) BY <1>6, <2>3
  <2> QED BY <2>4, <2>5, <2>6
<1> QED BY <1>5, <1>6, <1>7 DEF S

\* A call that cancels the lines in S cancels packages whole, leaving out
\* what was cancelled before.
Whole(S) ==
    \A i \in DOMAIN lines :
        lines[i].parent # 0 =>
            /\ i \in S => lines[i].parent \in S \/ lines[lines[i].parent].status = Cancelled
            /\ lines[i].parent \in S => i \in S \/ lines[i].status = Cancelled

CancelKeys == {"CANCEL_LINE", "CANCEL_TICKET"}

\* A line that is announced has an order, at the station of its snapshot
\* unless that is unsettled.
LEMMA AnnouncedIsOrdered ==
  ASSUME IInv, NEW S \in SUBSET DOMAIN lines, NEW i \in Announced(S)
  PROVE  /\ i \in DOMAIN lines /\ i \in S
         /\ lines[i].status = SentToKitchen /\ lines[i].snapshot # NoStation
         /\ IsOrdered(i)
<1>1. i \in S /\ i \in DOMAIN lines /\ lines[i].kind # Parent
      /\ lines[i].status \in SentLineStatuses /\ lines[i].snapshot # NoStation
  BY DEF Announced
<1>2. lines[i].status # Printed BY <1>1 DEF IInv, Stationed
<1>3. lines[i].status = SentToKitchen BY <1>1, <1>2 DEF SentLineStatuses
<1>4. IsOrdered(i) BY <1>1, <1>3 DEF IInv, SentIsOrdered
<1> QED BY <1>1, <1>3, <1>4

\* What a slip that calls off the line i says of it.
Names(x, i) ==
    /\ x.type = Cancellation /\ x.line = i
    /\ x.printer = PrinterOf[lines[i].snapshot]
    /\ \A o \in DOMAIN orders : i \in orders[o].lines => x.order = o

LEMMA CancelSlips ==
  ASSUME KitchenAssumption, IInv, NEW S \in SUBSET DOMAIN lines, NEW why \in CancelKeys,
         CancelLines(S, why)
  PROVE  /\ slips' \subseteq SlipRow
         /\ slips' = slips \cup {CancellationSlip(i, why) : i \in Announced(S)}
         /\ \A i \in Announced(S) : Names(CancellationSlip(i, why), i)
<1>1. /\ \A i \in Announced(S) : CanPrint(lines[i].snapshot)
      /\ slips' = slips \cup {CancellationSlip(i, why) : i \in Announced(S)}
  BY DEF CancelLines
<1>2. /\ slips \subseteq SlipRow /\ openPrinters \subseteq Printers BY DEF IInv, TypeOK
<1>3. ASSUME NEW i \in Announced(S)
      PROVE  CancellationSlip(i, why) \in SlipRow /\ Names(CancellationSlip(i, why), i)
  <2> DEFINE latest == Max({0} \cup OrdersOf(i))
             printer == PrinterOf[lines[i].snapshot]
  <2>1. latest \in Nat /\ \A o \in DOMAIN orders : i \in orders[o].lines => latest = o
    BY LatestOrder
  <2>2. printer \in Printers BY <1>1, <1>2 DEF CanPrint
  <2>3. i \in Nat
    <3>1. i \in DOMAIN lines BY DEF Announced
    <3>2. DOMAIN lines = 1..Len(lines) /\ Len(lines) \in Nat
      <4>1. lines \in Seq(LineRow) BY DEF IInv, TypeOK
      <4> QED BY <4>1, FiniteRows
    <3> QED BY <3>1, <3>2
  <2>4. CancellationSlip(i, why) = [type |-> Cancellation, printer |-> printer,
                                    order |-> latest, line |-> i, key |-> why]
    BY DEF CancellationSlip
  <2> DEFINE x == CancellationSlip(i, why)
  <2>6. x.type = Cancellation /\ x.line = i /\ x.printer = printer /\ x.order = latest
    BY DEF CancellationSlip
  <2> HIDE DEF latest, printer, x
  <2>5. CancellationSlip(i, why) \in SlipRow
    <3>1. latest \in Nat /\ why \in {"CANCEL_LINE", "CANCEL_TICKET"} BY <2>1 DEF CancelKeys
    <3>2. [type |-> Cancellation, printer |-> printer, order |-> latest, line |-> i, key |-> why]
            \in SlipRow
      BY <2>2, <2>3, <3>1 DEF SlipRow
    <3> QED BY <2>4, <3>2
  <2>7. Names(x, i) BY <2>1, <2>6 DEF Names, printer
  <2> QED BY <2>5, <2>7 DEF x
<1> QED BY <1>1, <1>2, <1>3

LEMMA CancelIInv ==
  ASSUME KitchenAssumption, IInv, NEW S \in SUBSET DOMAIN lines, Whole(S),
         NEW why \in CancelKeys, CancelLines(S, why),
         ticket' \in {Open, InPayment, Paid, Cancelled},
         UNCHANGED <<orders, batches, catalogue, changes, unsettled>>
  PROVE  IInv'
<1>1. /\ slips' \subseteq SlipRow
      /\ slips' = slips \cup {CancellationSlip(i, why) : i \in Announced(S)}
      /\ \A i \in Announced(S) : Names(CancellationSlip(i, why), i)
  BY CancelSlips
<1>2. /\ orders' = orders /\ batches' = batches /\ changes' = changes /\ unsettled' = unsettled
      /\ primaries' = primaries /\ openStations' = openStations /\ openPrinters' = openPrinters
  BY DEF catalogue
<1>3. /\ TypeOK /\ Packages /\ Stationed /\ OrdersKept /\ SentIsOrdered /\ SlipsKept /\ Reached
      /\ IsFiniteSet(batches)
  BY DEF IInv
<1>4. /\ lines' \in Seq(LineRow) /\ DOMAIN lines' = DOMAIN lines
      /\ \A i \in DOMAIN lines :
            /\ lines'[i].kind = lines[i].kind /\ lines'[i].product = lines[i].product
            /\ lines'[i].parent = lines[i].parent /\ lines'[i].snapshot = lines[i].snapshot
            /\ lines'[i].round = lines[i].round
            /\ lines'[i].status = IF i \in S THEN Cancelled ELSE lines[i].status
  <2>1. lines \in Seq(LineRow) BY <1>3 DEF TypeOK
  <2>2. lines' = [i \in DOMAIN lines |->
                    IF i \in S THEN [lines[i] EXCEPT !.status = Cancelled] ELSE lines[i]]
    BY DEF CancelLines
  <2>3. ASSUME NEW i \in DOMAIN lines
        PROVE  /\ lines'[i] \in LineRow
               /\ lines'[i].kind = lines[i].kind /\ lines'[i].product = lines[i].product
               /\ lines'[i].parent = lines[i].parent /\ lines'[i].snapshot = lines[i].snapshot
               /\ lines'[i].round = lines[i].round
               /\ lines'[i].status = IF i \in S THEN Cancelled ELSE lines[i].status
    <3>1. lines[i] \in LineRow BY <2>1, RowOf
    <3>2. CASE i \in S
      <4>1. lines'[i] = [lines[i] EXCEPT !.status = Cancelled] BY <2>2, <3>2
      <4> QED BY <3>1, <3>2, <4>1 DEF LineRow
    <3>3. CASE i \notin S BY <2>2, <3>1, <3>3
    <3> QED BY <3>2, <3>3
  <2>5. DOMAIN lines' = DOMAIN lines BY <2>2
  <2>6. lines' \in Seq(LineRow)
    <3>1. lines' = [i \in DOMAIN lines |-> lines'[i]] BY <2>2
    <3>2. \A i \in DOMAIN lines : lines'[i] \in LineRow BY <2>3
    <3> QED BY <2>1, <2>5, <3>1, <3>2, InPlace
  <2> QED BY <2>3, <2>5, <2>6
<1>5. TypeOK'
  <2>1. unsettled' \subseteq DOMAIN lines' BY <1>2, <1>3, <1>4 DEF TypeOK
  <2> QED BY <1>1, <1>2, <1>3, <1>4, <2>1 DEF TypeOK
<1>6. Packages'
  <2> SUFFICES ASSUME NEW i \in DOMAIN lines'
               PROVE  /\ lines'[i].kind # Parent => lines'[i].product \in Dishes
                      /\ lines'[i].parent # 0 =>
                            /\ lines'[i].kind = Component
                            /\ lines'[i].parent \in DOMAIN lines'
                            /\ lines'[lines'[i].parent].parent = 0
                            /\ (lines'[i].status = Captured) <=> (lines'[lines'[i].parent].status = Captured)
                            /\ lines'[i].round = lines'[lines'[i].parent].round
    BY DEF Packages
  <2>1. i \in DOMAIN lines BY <1>4
  <2>2. lines[i].kind # Parent => lines[i].product \in Dishes BY <1>3, <2>1 DEF Packages
  <2>3. ASSUME lines[i].parent # 0
        PROVE  /\ lines[i].kind = Component
               /\ lines[i].parent \in DOMAIN lines
               /\ lines[lines[i].parent].parent = 0
               /\ (lines[i].status = Captured) <=> (lines[lines[i].parent].status = Captured)
               /\ lines[i].round = lines[lines[i].parent].round
    BY <1>3, <2>1, <2>3 DEF Packages
  <2>4. ASSUME lines[i].parent # 0
        PROVE  (lines'[i].status = Captured) <=> (lines'[lines[i].parent].status = Captured)
    <3> DEFINE p == lines[i].parent
    <3>1. p \in DOMAIN lines /\ ((lines[i].status = Captured) <=> (lines[p].status = Captured))
      BY <2>3, <2>4
    <3>2. /\ i \in S => p \in S \/ lines[p].status = Cancelled
          /\ p \in S => i \in S \/ lines[i].status = Cancelled
      BY <2>1, <2>4 DEF Whole
    <3> HIDE DEF p
    <3>3. lines'[i].status = (IF i \in S THEN Cancelled ELSE lines[i].status)
          /\ lines'[p].status = (IF p \in S THEN Cancelled ELSE lines[p].status)
      BY <1>4, <2>1, <3>1
    <3>4. (lines'[i].status = Captured) <=> (lines'[p].status = Captured)
      BY <3>1, <3>2, <3>3
    <3> QED BY <3>4 DEF p
  <2>5. lines'[i].kind = lines[i].kind /\ lines'[i].product = lines[i].product
        /\ lines'[i].parent = lines[i].parent /\ lines'[i].round = lines[i].round
    BY <1>4, <2>1
  <2>6. ASSUME lines[i].parent # 0
        PROVE  /\ lines[i].parent \in DOMAIN lines' /\ lines'[lines[i].parent].parent = 0
               /\ lines'[i].round = lines'[lines[i].parent].round
    BY <1>4, <2>3, <2>5, <2>6
  <2> QED BY <2>2, <2>3, <2>4, <2>5, <2>6
<1>7. ASSUME NEW i \in DOMAIN lines, lines'[i].status # Cancelled
      PROVE  i \notin S /\ lines'[i].status = lines[i].status
  BY <1>4, <1>7
<1>8. Stationed'
  <2> SUFFICES ASSUME NEW i \in DOMAIN lines', lines'[i].kind # Parent
               PROVE  /\ lines'[i].status = Printed => lines'[i].snapshot = NoStation
                      /\ lines'[i].status = Captured /\ lines'[i].snapshot = NoStation
                            /\ i \notin unsettled => primaries[lines'[i].product] = {}
    BY <1>2 DEF Stationed
  <2>1. i \in DOMAIN lines /\ lines[i].kind # Parent BY <1>4
  <2>2. /\ lines[i].status = Printed => lines[i].snapshot = NoStation
        /\ lines[i].status = Captured /\ lines[i].snapshot = NoStation
              /\ i \notin unsettled => primaries[lines[i].product] = {}
    BY <1>3, <2>1 DEF Stationed
  <2>3. lines'[i].snapshot = lines[i].snapshot /\ lines'[i].product = lines[i].product
    BY <1>4, <2>1
  <2> QED BY <1>7, <2>1, <2>2, <2>3
<1>9. OrdersKept'
  <2> SUFFICES ASSUME NEW o \in DOMAIN orders', NEW i \in orders'[o].lines
               PROVE  /\ i \in DOMAIN lines'
                      /\ lines'[i].kind # Parent
                      /\ lines'[i].status \notin {Captured, Printed}
                      /\ lines'[i].round = orders'[o].round
                      /\ i \notin unsettled' => orders'[o].station = lines'[i].snapshot
                      /\ \A p \in DOMAIN orders' : i \in orders'[p].lines => p = o
    BY DEF OrdersKept
  <2>1. /\ i \in DOMAIN lines
        /\ lines[i].kind # Parent
        /\ lines[i].status \notin {Captured, Printed}
        /\ lines[i].round = orders[o].round
        /\ i \notin unsettled => orders[o].station = lines[i].snapshot
        /\ \A p \in DOMAIN orders : i \in orders[p].lines => p = o
    BY <1>2, <1>3 DEF OrdersKept
  <2>2. i \in DOMAIN lines' /\ lines'[i].kind # Parent /\ lines'[i].round = lines[i].round
        /\ lines'[i].snapshot = lines[i].snapshot
        /\ lines'[i].status \notin {Captured, Printed}
    BY <1>4, <2>1
  <2> QED BY <1>2, <2>1, <2>2
<1>10. \A i : IsOrdered(i) => IsOrdered(i)' BY <1>2 DEF IsOrdered
<1>11. SentIsOrdered'
  <2> SUFFICES ASSUME NEW i \in DOMAIN lines', lines'[i].status = SentToKitchen
               PROVE  IsOrdered(i)'
    BY DEF SentIsOrdered
  <2>1. i \in DOMAIN lines BY <1>4
  <2>2. lines[i].status = SentToKitchen BY <1>7, <2>1
  <2> QED BY <1>3, <1>10, <2>1, <2>2 DEF SentIsOrdered
<1>12. ASSUME NEW i \in Announced(S)
       PROVE  /\ i \in DOMAIN lines /\ i \in S
              /\ lines[i].status = SentToKitchen /\ lines[i].snapshot # NoStation
              /\ IsOrdered(i)
  BY AnnouncedIsOrdered
\* No line that is announced was called off before.
<1>13. ASSUME NEW x \in slips, x.type = Cancellation PROVE x.line \notin Announced(S)
  <2>1. x.line \in DOMAIN lines /\ lines[x.line].status = Cancelled BY <1>3, <1>13 DEF SlipsKept
  <2> QED BY <1>12, <2>1
<1>14. ASSUME NEW x \in slips', x \notin slips
       PROVE  /\ x.line \in Announced(S) /\ x = CancellationSlip(x.line, why)
  <2>1. PICK i \in Announced(S) : x = CancellationSlip(i, why) BY <1>1, <1>14
  <2>2. x.line = i BY <1>1, <2>1 DEF Names
  <2> QED BY <2>1, <2>2
<1>15. SlipsKept'
  <2> SUFFICES ASSUME NEW x \in slips', x.type = Cancellation
               PROVE  /\ x.line \in DOMAIN lines'
                      /\ lines'[x.line].status = Cancelled
                      /\ IsOrdered(x.line)'
                      /\ \A y \in slips' : y.type = Cancellation /\ y.line = x.line => y = x
    BY DEF SlipsKept
  <2>1. CASE x \in slips
    <3>1. /\ x.line \in DOMAIN lines
          /\ lines[x.line].status = Cancelled
          /\ IsOrdered(x.line)
          /\ \A y \in slips : y.type = Cancellation /\ y.line = x.line => y = x
      BY <1>3, <2>1 DEF SlipsKept
    <3>2. \A y \in slips' : y.type = Cancellation /\ y.line = x.line => y \in slips
      BY <1>13, <1>14, <2>1
    <3>3. x.line \in DOMAIN lines' /\ lines'[x.line].status = Cancelled BY <1>4, <3>1
    <3> QED BY <1>10, <3>1, <3>2, <3>3
  <2>2. CASE x \notin slips
    <3>1. x.line \in Announced(S) /\ x = CancellationSlip(x.line, why) BY <1>14, <2>2
    <3>2. x.line \in DOMAIN lines /\ x.line \in S /\ IsOrdered(x.line) BY <1>12, <3>1
    <3>3. x.line \in DOMAIN lines' /\ lines'[x.line].status = Cancelled BY <1>4, <3>2
    <3>4. ASSUME NEW y \in slips', y.type = Cancellation, y.line = x.line PROVE y = x
      <4>1. y \notin slips BY <1>13, <3>1, <3>4
      <4>2. y = CancellationSlip(y.line, why) BY <1>14, <3>4, <4>1
      <4> QED BY <3>1, <3>4, <4>2
    <3> QED BY <1>10, <3>2, <3>3, <3>4
  <2> QED BY <2>1, <2>2
<1>16. Reached'
  <2> SUFFICES ASSUME NEW i \in DOMAIN lines', i \notin unsettled', lines'[i].status = Cancelled,
                      NEW o \in DOMAIN orders', i \in orders'[o].lines
               PROVE  \E x \in slips' : CallsOff(x, i, o)'
    BY DEF Reached
  <2>1. i \in DOMAIN lines /\ i \notin unsettled /\ o \in DOMAIN orders /\ i \in orders[o].lines
    BY <1>2, <1>4
  <2>2. CASE lines[i].status = Cancelled
    <3>1. PICK x \in slips : CallsOff(x, i, o) BY <1>3, <2>1, <2>2 DEF Reached
    <3> QED BY <1>1, <1>2, <3>1 DEF CallsOff
  <2>3. CASE lines[i].status # Cancelled
    <3>1. i \in S BY <1>4, <2>1, <2>3
    <3>2. /\ lines[i].kind # Parent /\ lines[i].status \notin {Captured, Printed}
          /\ orders[o].station = lines[i].snapshot
      BY <1>3, <2>1 DEF OrdersKept
    <3>3. lines[i].status = SentToKitchen
      <4>1. lines[i] \in LineRow
        <5>1. lines \in Seq(LineRow) BY <1>3 DEF TypeOK
        <5> QED BY <2>1, <5>1, RowOf
      <4>2. lines[i].status \in {Captured, SentToKitchen, Printed, Cancelled}
        BY <4>1 DEF LineRow
      <4> QED BY <2>3, <3>2, <4>2
    <3>4. lines[i].snapshot # NoStation
      <4>1. orders[o] \in OrderRow
        <5>1. orders \in Seq(OrderRow) BY <1>3 DEF TypeOK
        <5> QED BY <2>1, <5>1, RowOf
      <4>2. orders[o].station \in Stations BY <4>1 DEF OrderRow
      <4>3. NoStation \notin Stations BY DEF KitchenAssumption
      <4> QED BY <3>2, <4>2, <4>3
    <3>5. i \in Announced(S) BY <3>1, <3>2, <3>3, <3>4 DEF Announced, SentLineStatuses
    <3> DEFINE x == CancellationSlip(i, why)
    <3>6. x \in slips' /\ Names(x, i) BY <1>1, <3>5
    <3> HIDE DEF x
    <3>9. x.type = Cancellation /\ x.line = i /\ x.order = o
          /\ x.printer = PrinterOf[lines[i].snapshot]
      BY <2>1, <3>6 DEF Names
    <3>7. x.printer = PrinterOf[orders'[o].station] BY <1>2, <3>2, <3>9
    <3>8. \E y \in slips' : /\ y.type = Cancellation /\ y.line = i
                            /\ y.order = o /\ y.printer = PrinterOf[orders'[o].station]
      BY <3>6, <3>7, <3>9
    <3> QED BY <3>8 DEF CallsOff
  <2> QED BY <2>2, <2>3
<1>17. IsFiniteSet(batches)' BY <1>2, <1>3
<1> QED BY <1>5, <1>6, <1>8, <1>9, <1>11, <1>15, <1>16, <1>17 DEF IInv

LEMMA CancelLineIInv ==
  ASSUME KitchenAssumption, IInv, NEW i \in DOMAIN lines, CancelLine(i)
  PROVE  IInv'
<1>1. CancelTargets(i) \in SUBSET DOMAIN lines BY DEF CancelTargets
<1>2. Whole(CancelTargets(i))
  <2> SUFFICES ASSUME NEW j \in DOMAIN lines, lines[j].parent # 0
               PROVE  /\ j \in CancelTargets(i) => \/ lines[j].parent \in CancelTargets(i)
                                                   \/ lines[lines[j].parent].status = Cancelled
                      /\ lines[j].parent \in CancelTargets(i) => \/ j \in CancelTargets(i)
                                                                 \/ lines[j].status = Cancelled
    BY DEF Whole
  <2>1. /\ lines[j].kind = Component /\ lines[j].parent \in DOMAIN lines
        /\ lines[lines[j].parent].parent = 0
    BY DEF IInv, Packages
  <2>2. ASSUME j \in CancelTargets(i)
        PROVE  lines[j].parent \in CancelTargets(i) \/ lines[lines[j].parent].status = Cancelled
    <3>1. j = i \/ lines[j].parent = i BY <2>2 DEF CancelTargets
    <3>2. CASE j = i BY <2>1, <3>2 DEF CancelLine
    <3>3. CASE lines[j].parent = i BY <3>3 DEF CancelTargets
    <3> QED BY <3>1, <3>2, <3>3
  <2>3. ASSUME lines[j].parent \in CancelTargets(i)
        PROVE  j \in CancelTargets(i) \/ lines[j].status = Cancelled
    <3>1. lines[j].parent = i \/ lines[lines[j].parent].parent = i BY <2>3 DEF CancelTargets
    <3>2. i # 0
      <4>1. lines \in Seq(LineRow) BY DEF IInv, TypeOK
      <4>2. DOMAIN lines = 1..Len(lines) /\ Len(lines) \in Nat BY <4>1, FiniteRows
      <4> QED BY <4>2
    <3>3. lines[j].parent = i BY <2>1, <3>1, <3>2
    <3> QED BY <3>3 DEF CancelTargets
  <2> QED BY <2>2, <2>3
<1>3. CancelLines(CancelTargets(i), "CANCEL_LINE")
      /\ UNCHANGED <<ticket, orders, batches, catalogue, changes, unsettled>>
  BY DEF CancelLine
<1>4. ticket' \in {Open, InPayment, Paid, Cancelled} BY <1>3 DEF IInv, TypeOK
<1>5. "CANCEL_LINE" \in CancelKeys BY DEF CancelKeys
<1> QED BY <1>1, <1>2, <1>3, <1>4, <1>5, CancelIInv

LEMMA CancelTicketIInv ==
  ASSUME KitchenAssumption, IInv, CancelTicket
  PROVE  IInv'
<1>1. DOMAIN lines \in SUBSET DOMAIN lines OBVIOUS
<1>2. Whole(DOMAIN lines) BY DEF Whole, IInv, Packages
<1>3. CancelLines(DOMAIN lines, "CANCEL_TICKET") /\ ticket' = Cancelled
      /\ UNCHANGED <<orders, batches, catalogue, changes, unsettled>>
  BY DEF CancelTicket
<1>4. ticket' \in {Open, InPayment, Paid, Cancelled} BY <1>3
<1>5. "CANCEL_TICKET" \in CancelKeys BY DEF CancelKeys
<1> QED BY <1>1, <1>2, <1>3, <1>4, <1>5, CancelIInv

-----------------------------------------------------------------------------
(* The other calls keep the lines, and what an order or a slip says.       *)

SameOrders ==
    /\ DOMAIN orders' = DOMAIN orders
    /\ \A o \in DOMAIN orders :
          /\ orders'[o].lines = orders[o].lines /\ orders'[o].round = orders[o].round
          /\ orders'[o].station = orders[o].station

SameCancellations ==
    /\ slips \subseteq slips'
    /\ \A x \in slips' : x.type = Cancellation => x \in slips

LEMMA LinesKeptIInv ==
  ASSUME IInv, TypeOK', Stationed', UNCHANGED <<lines, batches>>, unsettled \subseteq unsettled',
         SameOrders, SameCancellations
  PROVE  IInv'
<1>1. /\ TypeOK /\ Packages /\ Stationed /\ OrdersKept /\ SentIsOrdered /\ SlipsKept /\ Reached
      /\ IsFiniteSet(batches)
  BY DEF IInv
<1>2. Packages' BY <1>1 DEF Packages
<1>3. \A i : IsOrdered(i) <=> IsOrdered(i)' BY DEF SameOrders, IsOrdered
<1>4. OrdersKept'
  <2> SUFFICES ASSUME NEW o \in DOMAIN orders', NEW i \in orders'[o].lines
               PROVE  /\ i \in DOMAIN lines'
                      /\ lines'[i].kind # Parent
                      /\ lines'[i].status \notin {Captured, Printed}
                      /\ lines'[i].round = orders'[o].round
                      /\ i \notin unsettled' => orders'[o].station = lines'[i].snapshot
                      /\ \A p \in DOMAIN orders' : i \in orders'[p].lines => p = o
    BY DEF OrdersKept
  <2>1. o \in DOMAIN orders /\ i \in orders[o].lines BY DEF SameOrders
  <2>2. /\ i \in DOMAIN lines
        /\ lines[i].kind # Parent
        /\ lines[i].status \notin {Captured, Printed}
        /\ lines[i].round = orders[o].round
        /\ i \notin unsettled => orders[o].station = lines[i].snapshot
        /\ \A p \in DOMAIN orders : i \in orders[p].lines => p = o
    BY <1>1, <2>1 DEF OrdersKept
  <2> QED BY <2>1, <2>2 DEF SameOrders
<1>5. SentIsOrdered' BY <1>1, <1>3 DEF SentIsOrdered
<1>6. SlipsKept'
  <2> SUFFICES ASSUME NEW x \in slips', x.type = Cancellation
               PROVE  /\ x.line \in DOMAIN lines'
                      /\ lines'[x.line].status = Cancelled
                      /\ IsOrdered(x.line)'
                      /\ \A y \in slips' : y.type = Cancellation /\ y.line = x.line => y = x
    BY DEF SlipsKept
  <2>1. x \in slips BY DEF SameCancellations
  <2> QED BY <1>1, <1>3, <2>1 DEF SlipsKept, SameCancellations
<1>7. Reached'
  <2> SUFFICES ASSUME NEW i \in DOMAIN lines', i \notin unsettled', lines'[i].status = Cancelled,
                      NEW o \in DOMAIN orders', i \in orders'[o].lines
               PROVE  \E x \in slips' : CallsOff(x, i, o)'
    BY DEF Reached
  <2>1. i \in DOMAIN lines /\ i \notin unsettled /\ lines[i].status = Cancelled
        /\ o \in DOMAIN orders /\ i \in orders[o].lines /\ orders'[o].station = orders[o].station
    BY DEF SameOrders
  <2>2. PICK x \in slips : CallsOff(x, i, o) BY <1>1, <2>1 DEF Reached
  <2> QED BY <2>1, <2>2 DEF CallsOff, SameCancellations
<1>8. IsFiniteSet(batches)' BY <1>1
<1> QED BY <1>2, <1>4, <1>5, <1>6, <1>7, <1>8 DEF IInv

LEMMA NoteLineIInv ==
  ASSUME KitchenAssumption, IInv, NEW i \in DOMAIN lines, NoteLine(i)
  PROVE  IInv'
<1> DEFINE o == Max(OrdersOf(i))
           printer == PrinterOf[orders[o].station]
           x == [type |-> Modification, printer |-> printer, order |-> o, line |-> i,
                 key |-> "MODIFICACION"]
<1>1. /\ OrdersOf(i) # {} /\ CanPrint(orders[o].station)
      /\ changes < MaxChanges /\ changes' = changes + 1
      /\ slips' = slips \cup {x}
      /\ UNCHANGED <<ticket, lines, orders, batches, catalogue, unsettled>>
  BY DEF NoteLine
<1>2. /\ TypeOK /\ Stationed /\ openPrinters \subseteq Printers /\ slips \subseteq SlipRow
      /\ lines \in Seq(LineRow) /\ orders \in Seq(OrderRow)
  BY DEF IInv, TypeOK
<1>3. o \in Nat
  <2>1. DOMAIN orders = 1..Len(orders) /\ Len(orders) \in Nat /\ IsFiniteSet(DOMAIN orders)
    BY <1>2, FiniteRows
  <2>2. OrdersOf(i) \subseteq DOMAIN orders BY DEF OrdersOf
  <2>3. IsFiniteSet(OrdersOf(i)) BY <2>1, <2>2, FS_Subset
  <2>4. OrdersOf(i) \subseteq Nat BY <2>1, <2>2
  <2>5. o \in OrdersOf(i) BY <1>1, <2>3, <2>4, MaxIsIn
  <2> QED BY <2>4, <2>5
<1>4. i \in Nat
  <2>1. DOMAIN lines = 1..Len(lines) /\ Len(lines) \in Nat BY <1>2, FiniteRows
  <2> QED BY <2>1
<1>5. printer \in Printers BY <1>1, <1>2 DEF CanPrint
<1> HIDE DEF o, printer
<1>6. x \in SlipRow BY <1>3, <1>4, <1>5 DEF SlipRow
<1>7. x.type # Cancellation OBVIOUS
<1> HIDE DEF x
<1>8. TypeOK'
  <2>1. slips' \subseteq SlipRow BY <1>1, <1>2, <1>6
  <2>2. changes' \in 0..MaxChanges
    <3>1. changes \in 0..MaxChanges /\ MaxChanges \in Nat
      BY <1>2 DEF TypeOK, KitchenAssumption
    <3> QED BY <1>1, <3>1
  <2> QED BY <1>1, <1>2, <2>1, <2>2 DEF TypeOK, catalogue
<1>9. Stationed' BY <1>1, <1>2 DEF Stationed, catalogue
<1>10. SameOrders BY <1>1 DEF SameOrders
<1>11. SameCancellations BY <1>1, <1>7 DEF SameCancellations
<1> QED BY <1>1, <1>8, <1>9, <1>10, <1>11, LinesKeptIInv

LEMMA TicketIInv ==
  ASSUME IInv, ticket' \in {Open, InPayment, Paid, Cancelled},
         UNCHANGED <<lines, orders, slips, batches, catalogue, changes, unsettled>>
  PROVE  IInv'
<1>1. TypeOK' BY DEF IInv, TypeOK, catalogue
<1>2. Stationed' BY DEF IInv, Stationed, catalogue
<1>3. SameOrders BY DEF SameOrders
<1>4. SameCancellations BY DEF SameCancellations
<1> QED BY <1>1, <1>2, <1>3, <1>4, LinesKeptIInv

OrderStatuses == {Queued, Received, InPreparation, Completed, Delivered}

LEMMA TransitionIInv ==
  ASSUME IInv, NEW o \in DOMAIN orders, NEW from, NEW to \in OrderStatuses,
         Transition(o, from, to)
  PROVE  IInv'
<1>1. /\ orders' = [orders EXCEPT ![o].status = to]
      /\ UNCHANGED <<ticket, lines, slips, batches, changes, unsettled>>
      /\ UNCHANGED <<primaries, openStations, openPrinters>>
  BY DEF Transition, catalogue
<1>2. orders \in Seq(OrderRow) /\ TypeOK /\ Stationed BY DEF IInv, TypeOK
<1>3. ASSUME NEW p \in DOMAIN orders
      PROVE  /\ orders'[p] \in OrderRow
             /\ orders'[p].lines = orders[p].lines /\ orders'[p].round = orders[p].round
             /\ orders'[p].station = orders[p].station
  <2>1. orders[p] \in OrderRow BY <1>2, RowOf
  <2>2. orders'[p] \in {orders[p], [orders[p] EXCEPT !.status = to]} BY <1>1
  <2> QED BY <2>1, <2>2 DEF OrderRow, OrderStatuses
<1>4. DOMAIN orders' = DOMAIN orders /\ orders' = [p \in DOMAIN orders |-> orders'[p]] BY <1>1
<1>5. orders' \in Seq(OrderRow) BY <1>2, <1>3, <1>4, InPlace
<1>6. TypeOK' BY <1>1, <1>2, <1>5 DEF TypeOK
<1>7. Stationed' BY <1>1, <1>2 DEF Stationed
<1>8. SameOrders BY <1>3, <1>4 DEF SameOrders
<1>9. SameCancellations BY <1>1 DEF SameCancellations
<1> QED BY <1>1, <1>6, <1>7, <1>8, <1>9, LinesKeptIInv

LEMMA CatalogueIInv ==
  ASSUME KitchenAssumption, IInv, CatalogueChanges, Stationed',
         primaries' \in Assignments, openStations' \subseteq Stations, openPrinters' \subseteq Printers,
         unsettled \subseteq unsettled', unsettled' \subseteq DOMAIN lines
  PROVE  IInv'
<1>1. /\ changes < MaxChanges /\ changes' = changes + 1
      /\ UNCHANGED <<ticket, lines, orders, slips, batches>>
  BY DEF CatalogueChanges
<1>2. changes' \in 0..MaxChanges
  <2>1. changes \in 0..MaxChanges /\ MaxChanges \in Nat BY DEF IInv, TypeOK, KitchenAssumption
  <2> QED BY <1>1, <2>1
<1>3. TypeOK
  BY DEF IInv
<1>4. TypeOK' BY <1>1, <1>2, <1>3 DEF TypeOK
<1>5. SameOrders BY <1>1 DEF SameOrders
<1>6. SameCancellations BY <1>1 DEF SameCancellations
<1> QED BY <1>1, <1>4, <1>5, <1>6, LinesKeptIInv

LEMMA AssignProductIInv ==
  ASSUME KitchenAssumption, IInv, NEW p \in Dishes, NEW S \in SUBSET Stations, AssignProduct(p, S)
  PROVE  IInv'
<1>1. /\ CatalogueChanges /\ lines' = lines
      /\ primaries' = [primaries EXCEPT ![p] = S]
      /\ unsettled' = unsettled \cup {i \in CapturedLines : lines[i].snapshot = NoStation}
      /\ UNCHANGED <<openStations, openPrinters>>
  BY DEF AssignProduct, CatalogueChanges
<1>2. /\ TypeOK /\ Stationed
      /\ primaries \in Assignments /\ openStations \subseteq Stations
      /\ openPrinters \subseteq Printers /\ unsettled \subseteq DOMAIN lines
  BY DEF IInv, TypeOK
<1>3. primaries' \in Assignments BY <1>1, <1>2 DEF Assignments
<1>4. unsettled \subseteq unsettled' /\ unsettled' \subseteq DOMAIN lines
  BY <1>1, <1>2 DEF CapturedLines
<1>5. Stationed'
  <2> SUFFICES ASSUME NEW i \in DOMAIN lines', lines'[i].kind # Parent
               PROVE  /\ lines'[i].status = Printed => lines'[i].snapshot = NoStation
                      /\ lines'[i].status = Captured /\ lines'[i].snapshot = NoStation
                            => i \in unsettled'
    BY DEF Stationed
  <2>1. i \in DOMAIN lines /\ lines'[i] = lines[i] BY <1>1
  <2>2. lines[i].status = Printed => lines[i].snapshot = NoStation BY <1>2, <2>1 DEF Stationed
  <2>3. lines[i].status = Captured /\ lines[i].snapshot = NoStation => i \in unsettled'
    BY <1>1, <2>1 DEF CapturedLines
  <2> QED BY <2>1, <2>2, <2>3
<1> QED BY <1>1, <1>2, <1>3, <1>4, <1>5, CatalogueIInv

LEMMA ToggleIInv ==
  ASSUME KitchenAssumption, IInv,
         \/ \E s \in Stations : ToggleStation(s)
         \/ \E k \in Printers : TogglePrinter(k)
  PROVE  IInv'
<1>1. /\ TypeOK /\ Stationed
      /\ primaries \in Assignments /\ openStations \subseteq Stations
      /\ openPrinters \subseteq Printers /\ unsettled \subseteq DOMAIN lines
  BY DEF IInv, TypeOK
<1>2. /\ CatalogueChanges /\ lines' = lines
      /\ UNCHANGED <<primaries, unsettled>>
  BY DEF ToggleStation, TogglePrinter, CatalogueChanges
<1>3. openStations' \subseteq Stations /\ openPrinters' \subseteq Printers
  BY <1>1 DEF ToggleStation, TogglePrinter, Toggled
<1>4. Stationed' BY <1>1, <1>2 DEF Stationed
<1>5. primaries' \in Assignments /\ unsettled \subseteq unsettled' /\ unsettled' \subseteq DOMAIN lines
  BY <1>1, <1>2
<1> QED BY <1>2, <1>3, <1>4, <1>5, CatalogueIInv

-----------------------------------------------------------------------------
(* Theorems.                                                               *)

LEMMA NextIInv ==
  ASSUME KitchenAssumption, IInv, [Next]_vars
  PROVE  IInv'
<1>1. CASE UNCHANGED vars
  <2>1. /\ UNCHANGED <<lines, orders, slips, batches, catalogue, changes, unsettled>>
        /\ ticket' = ticket
    BY <1>1 DEF vars
  <2>2. ticket' \in {Open, InPayment, Paid, Cancelled} BY <2>1 DEF IInv, TypeOK
  <2> QED BY <2>1, <2>2, TicketIInv
<1>2. CASE \E p \in Dishes : AddProduct(p) BY <1>2, AddProductIInv
<1>3. CASE AddPackage BY <1>3, AddPackageIInv
<1>4. CASE SendRound BY <1>4, SendRoundIInv
<1>5. ASSUME NEW i \in DOMAIN lines, CancelLine(i) \/ NoteLine(i) PROVE IInv'
  BY <1>5, CancelLineIInv, NoteLineIInv
<1>6. CASE CancelTicket BY <1>6, CancelTicketIInv
<1>7. CASE StartPayment
  <2>1. /\ ticket' = InPayment
        /\ UNCHANGED <<lines, orders, slips, batches, catalogue, changes, unsettled>>
    BY <1>7 DEF StartPayment
  <2>2. ticket' \in {Open, InPayment, Paid, Cancelled} BY <2>1
  <2> QED BY <2>1, <2>2, TicketIInv
<1>8. CASE Settle
  <2>1. /\ ticket' = Paid
        /\ UNCHANGED <<lines, orders, slips, batches, catalogue, changes, unsettled>>
    BY <1>8 DEF Settle
  <2>2. ticket' \in {Open, InPayment, Paid, Cancelled} BY <2>1
  <2> QED BY <2>1, <2>2, TicketIInv
<1>9. ASSUME NEW o \in DOMAIN orders,
             ReceiveOrder(o) \/ StartOrder(o) \/ CompleteOrder(o) \/ DeliverOrder(o)
      PROVE  IInv'
  <2>1. {Received, InPreparation, Completed, Delivered} \subseteq OrderStatuses BY DEF OrderStatuses
  <2>2. PICK from, to \in OrderStatuses : Transition(o, from, to)
    BY <1>9 DEF OrderStatuses, ReceiveOrder, StartOrder, CompleteOrder, DeliverOrder
  <2> QED BY <2>2, TransitionIInv
<1>10. CASE \E p \in Dishes, S \in SUBSET Stations : AssignProduct(p, S)
  BY <1>10, AssignProductIInv
<1>11. CASE \/ \E s \in Stations : ToggleStation(s)
            \/ \E k \in Printers : TogglePrinter(k)
  BY <1>11, ToggleIInv
<1> QED BY <1>1, <1>2, <1>3, <1>4, <1>5, <1>6, <1>7, <1>8, <1>9, <1>10, <1>11 DEF Next

THEOREM Invariance == Spec => []IInv
<1>1. Init => IInv BY InitIInv
<1>2. IInv /\ [Next]_vars => IInv' BY NextIInv, KitchenAssumption
<1> QED BY <1>1, <1>2, PTL DEF Spec

\* Rows keep their types (send_round, cancel_ticket_line, modify_ticket_line).
THEOREM TypeCorrect == Spec => []TypeOK
<1>1. IInv => TypeOK BY DEF IInv
<1> QED BY <1>1, Invariance, PTL

\* No dish is ordered from two stations or in two rounds, and a line waits in
\* the kitchen exactly when a station has it (send_round).
THEOREM DishesAreCookedOnce == Spec => []CookedOnce
<1>1. IInv => CookedOnce BY InvariantsFollow
<1> QED BY <1>1, Invariance, PTL

\* A package leaves in one round, and an order holds lines of its own round
\* only (send_round).
THEOREM RoundsAlwaysAgree == Spec => []RoundsAgree
<1>1. IInv => RoundsAgree BY InvariantsFollow
<1> QED BY <1>1, Invariance, PTL

\* A cancelled dish is called off on the printer of the station that cooks it,
\* unless the catalogue gave its line another station between its capture and
\* its round (create_cancellation_print_job against _resolve_station).
THEOREM CancellationsReachTheCook == Spec => []CancellationReachesTheCook
<1>1. IInv => CancellationReachesTheCook BY InvariantsFollow
<1> QED BY <1>1, Invariance, PTL

\* A line is called off once at most, and only after a station was told to
\* cook it (cancel_ticket_line, cancel_ticket).
THEOREM LinesAreCalledOffOnce == Spec => []CalledOffOnce
<1>1. IInv => CalledOffOnce BY InvariantsFollow
<1> QED BY <1>1, Invariance, PTL

=============================================================================
