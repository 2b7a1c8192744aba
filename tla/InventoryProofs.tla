-------------------------- MODULE InventoryProofs --------------------------
(***************************************************************************)
(* Proofs about the stock ledger, for any items, recipes, tickets, units,  *)
(* deliveries and calls.                                                   *)
(*                                                                         *)
(* A call makes its movements on a copy of the tables and is then          *)
(* committed, or taken back after any of them.  So what must hold of the   *)
(* tables is first shown of every point of a transaction (Sound), by       *)
(* induction over the movements a call has made (ApplyWorks); committing   *)
(* brings it to the tables (TablesInv), and rolling back leaves only the   *)
(* messages that were sent.  On top of it, each commit makes the ledger    *)
(* Longer by the rows of that call alone: receipts stay whole              *)
(* (ReceiptsInv) and the sums over the ledger grow by what the call        *)
(* entered (LedgerInv).                                                    *)
(*                                                                         *)
(* What a recipe expands to is a recursive function of sets of items.  By  *)
(* induction over the items that are left, it has a value (ExpansionType)  *)
(* and, where yields divide, comes to the content of what is sold          *)
(* (ExpansionBalances), which gives ConsumedAsSold its last hypothesis     *)
(* (ExpansionIsContent).                                                   *)
(***************************************************************************)
EXTENDS Inventory, SumTheorems

\* The names of the rows' fields are told apart, no more is known of them.
LEMMA NamesDiffer ==
  /\ Low # Right /\ Out # Right /\ OpenAlert # Resolved /\ Sent # Failed
  /\ InPayment # Paid
  /\ Purchase # SaleConsumption /\ AdjustmentIn # SaleConsumption
  /\ AdjustmentOut # SaleConsumption /\ Waste # SaleConsumption
  /\ Purchase # AdjustmentOut /\ Purchase # Waste
  /\ Manual # ReceiptLine /\ TicketLine # ReceiptLine /\ VariantOption # ReceiptLine
  /\ TicketLine # Manual /\ VariantOption # Manual
BY DEF Low, Right, Out, OpenAlert, Resolved, Sent, Failed, InPayment, Paid, Purchase, AdjustmentIn,
       AdjustmentOut, Waste, SaleConsumption, Manual, ReceiptLine, TicketLine, VariantOption

-----------------------------------------------------------------------------
(* Sums and sequences.                                                     *)

LEMMA TotalIsSum == ASSUME NEW f PROVE Total(f) = SumFunctionOnSet(f, DOMAIN f)
  BY DEF Total, SumFunction, SumFunctionOnSet, FoldFunction

\* A sum over a longer sequence.
LEMMA TotalOfMore ==
  ASSUME NEW n \in Nat, NEW f, NEW g, DOMAIN f = 1..n, DOMAIN g = 1..(n + 1),
         \A k \in 1..n : f[k] = g[k], \A k \in 1..(n + 1) : g[k] \in Int
  PROVE  Total(g) = Total(f) + g[n + 1] /\ Total(f) \in Int /\ Total(g) \in Int
<1>1. IsFiniteSet(1..n) /\ IsFiniteSet(1..(n + 1)) BY FS_Interval
<1>2. n + 1 \in 1..(n + 1) /\ (1..(n + 1)) \ {n + 1} = 1..n OBVIOUS
<1>3. SumFunctionOnSet(g, 1..(n + 1)) = g[n + 1] + SumFunctionOnSet(g, 1..n)
  <2>1. SumFunctionOnSet(g, 1..(n + 1)) = g[n + 1] + SumFunctionOnSet(g, (1..(n + 1)) \ {n + 1})
    BY <1>1, <1>2, SumWithout
  <2> QED BY <1>2, <2>1
<1>4. SumFunctionOnSet(f, 1..n) = SumFunctionOnSet(g, 1..n) BY <1>1, SumsAreEqual
<1>5. \A k \in 1..n : f[k] \in Int OBVIOUS
<1>6. SumFunctionOnSet(f, 1..n) \in Int BY <1>1, <1>5, SumIsInt
<1>7. Total(f) = SumFunctionOnSet(f, 1..n) /\ Total(g) = SumFunctionOnSet(g, 1..(n + 1)) BY TotalIsSum
<1>8. g[n + 1] \in Int BY <1>2
<1> QED BY <1>3, <1>4, <1>6, <1>7, <1>8

LEMMA TotalOfSame ==
  ASSUME NEW n \in Nat, NEW f, NEW g, DOMAIN f = 1..n, DOMAIN g = 1..n, \A k \in 1..n : f[k] = g[k]
  PROVE  Total(f) = Total(g)
  BY FS_Interval, SumsAreEqual, TotalIsSum

LEMMA TotalIsInt ==
  ASSUME NEW S, IsFiniteSet(S), NEW f, DOMAIN f = S, \A x \in S : f[x] \in Int
  PROVE  Total(f) \in Int
  BY SumIsInt, TotalIsSum

LEMMA TotalOfCopy ==
  ASSUME NEW n \in Nat, NEW f, DOMAIN f = 1..n
  PROVE  Total([k \in 1..n |-> f[k]]) = Total(f)
<1> DEFINE g == [k \in 1..n |-> f[k]]
<1>1. DOMAIN g = 1..n /\ \A k \in 1..n : g[k] = f[k] OBVIOUS
<1> HIDE DEF g
<1>2. Total(g) = Total(f) BY <1>1, TotalOfSame
<1> QED BY <1>2 DEF g

\* The sum of a sequence and of one that continues it.
LEMMA TotalOfBoth ==
  ASSUME NEW n \in Nat, NEW m \in Nat, NEW f, NEW h, NEW g,
         DOMAIN f = 1..n, DOMAIN h = 1..m, DOMAIN g = 1..(n + m),
         \A k \in 1..n : f[k] = g[k], \A k \in 1..m : h[k] = g[n + k],
         \A k \in 1..(n + m) : g[k] \in Int
  PROVE  Total(g) = Total(f) + Total(h)
<1> DEFINE G(j) == [k \in 1..(n + j) |-> g[k]]
           H(j) == [k \in 1..j |-> h[k]]
           Bad == {j \in Nat : j <= m /\ Total(G(j)) # Total(f) + Total(H(j))}
<1>1. Bad = {}
  <2> SUFFICES ASSUME Bad # {} PROVE FALSE OBVIOUS
  <2>1. PICK j \in Bad : \A i \in Bad : j <= i BY LeastNatural
  <2>2. j \in Nat /\ j <= m /\ Total(G(j)) # Total(f) + Total(H(j)) OBVIOUS
  <2>3. Total(f) \in Int
    <3>1. \A k \in 1..n : f[k] \in Int OBVIOUS
    <3> QED BY <3>1, FS_Interval, TotalIsInt
  <2>4. CASE j = 0
    <3> DEFINE gj == G(j)
               hj == H(j)
    <3>1. DOMAIN gj = 1..n /\ (\A k \in 1..n : gj[k] = f[k]) /\ DOMAIN hj = {} BY <2>4
    <3>2. Total(gj) # Total(f) + Total(hj) BY <2>2
    <3> HIDE DEF gj, hj
    <3>3. Total(f) = Total(gj)
      <4>1. DOMAIN gj = 1..n /\ \A k \in 1..n : f[k] = gj[k] BY <3>1
      <4> HIDE DEF Bad, G, H
      <4> QED BY <4>1, TotalOfSame
    <3>4. Total(hj) = 0 BY <3>1, TotalIsSum, SumOfNone
    <3> QED BY <2>3, <3>2, <3>3, <3>4
  <2>5. CASE j # 0
    <3>1. j - 1 \in Nat /\ j - 1 \notin Bad
      <4> HIDE DEF Bad
      <4> QED BY <2>1, <2>2, <2>5
    <3> DEFINE i == j - 1
               gi == G(i)
               hi == H(i)
               gj == G(j)
               hj == H(j)
               x == g[n + j]
    <3>2. Total(gi) = Total(f) + Total(hi) BY <2>2, <3>1
    <3>3. Total(gj) # Total(f) + Total(hj) BY <2>2
    <3>4. i \in Nat /\ n + i \in Nat /\ j = i + 1 /\ n + j = (n + i) + 1 BY <2>2, <3>1
    <3>5. DOMAIN gi = 1..(n + i) /\ DOMAIN gj = 1..(n + j) /\ DOMAIN hi = 1..i /\ DOMAIN hj = 1..j
      OBVIOUS
    <3>6. /\ \A k \in 1..(n + i) : gi[k] = gj[k]
          /\ \A k \in 1..(n + j) : gj[k] \in Int
          /\ \A k \in 1..i : hi[k] = hj[k]
          /\ \A k \in 1..j : hj[k] \in Int
      BY <2>2
    <3>7. gj[n + j] = x /\ hj[j] = x /\ x \in Int BY <2>2, <2>5
    <3> HIDE DEF i, gi, hi, gj, hj, x
    <3>8. Total(gj) = Total(gi) + x
      <4> DEFINE a == n + i
      <4>1. a \in Nat /\ n + j = a + 1 BY <3>4
      <4>2. /\ DOMAIN gi = 1..a /\ DOMAIN gj = 1..(a + 1) /\ gj[a + 1] = x
            /\ (\A k \in 1..a : gi[k] = gj[k]) /\ \A k \in 1..(a + 1) : gj[k] \in Int
        BY <3>5, <3>6, <3>7, <4>1
      <4> HIDE DEF a
      <4> QED BY <4>1, <4>2, TotalOfMore
    <3>9. Total(hj) = Total(hi) + x /\ Total(hi) \in Int
      <4>1. /\ DOMAIN hi = 1..i /\ DOMAIN hj = 1..(i + 1) /\ hj[i + 1] = x
            /\ (\A k \in 1..i : hi[k] = hj[k]) /\ \A k \in 1..(i + 1) : hj[k] \in Int
        BY <3>4, <3>5, <3>6, <3>7
      <4>2. i \in Nat BY <3>4
      <4> HIDE DEF Bad, G, H
      <4>3. Total(hj) = Total(hi) + x BY <4>1, <4>2, TotalOfMore
      <4>4. \A k \in 1..i : hi[k] \in Int BY <4>1, <4>2
      <4>5. Total(hi) \in Int BY <4>1, <4>2, <4>4, FS_Interval, TotalIsInt
      <4> QED BY <4>3, <4>5
    <3> QED BY <2>3, <3>2, <3>3, <3>7, <3>8, <3>9
  <2> QED BY <2>4, <2>5
<1>2. Total(G(m)) = Total(f) + Total(H(m))
  <2> HIDE DEF G, H
  <2> QED BY <1>1
<1>3. Total(G(m)) = Total(g) BY TotalOfCopy
<1>4. Total(H(m)) = Total(h) BY TotalOfCopy
<1> QED BY <1>2, <1>3, <1>4
-----------------------------------------------------------------------------
(* What a sale needs: the recursions have a value, and of what kind.       *)

LEMMA SeqFacts ==
  ASSUME NEW S, NEW s \in Seq(S)
  PROVE  Len(s) \in Nat /\ DOMAIN s = 1..Len(s) /\ \A k \in 1..Len(s) : s[k] \in S
OBVIOUS

LEMMA SeqMade ==
  ASSUME NEW S, NEW n \in Nat, NEW f, f = [k \in 1..n |-> f[k]], \A k \in 1..n : f[k] \in S
  PROVE  f \in Seq(S) /\ Len(f) = n
OBVIOUS

\* One unfolding of the concatenation of seqs.
Joined(seqs, g, i) == IF i = 1 THEN seqs[i] ELSE g[i - 1] \o seqs[i]

LEMMA JoinedIsDefined ==
  ASSUME NEW seqs, NEW n \in Nat
  PROVE  \E g : g = [i \in 1..n |-> Joined(seqs, g, i)]
<1> DEFINE Good(m) == \E g : DOMAIN g = 1..n /\ g = [i \in 1..n |-> g[i]]
                                /\ \A i \in 1..n : i <= m => g[i] = Joined(seqs, g, i)
           Bad == {m \in Nat : ~Good(m)}
<1>1. Good(0)
  <2> DEFINE g == [i \in 1..n |-> 0]
  <2>1. DOMAIN g = 1..n /\ g = [i \in 1..n |-> g[i]] OBVIOUS
  <2>2. \A i \in 1..n : i <= 0 => g[i] = Joined(seqs, g, i) OBVIOUS
  <2> QED BY <2>1, <2>2
<1>2. ASSUME NEW m \in Nat, m > 0, Good(m - 1) PROVE Good(m)
  <2>1. PICK h : DOMAIN h = 1..n /\ \A i \in 1..n : i <= m - 1 => h[i] = Joined(seqs, h, i)
    BY <1>2
  <2> DEFINE g == [i \in 1..n |-> IF i = m THEN Joined(seqs, h, i) ELSE h[i]]
  <2>2. ASSUME NEW i \in 1..n, i <= m PROVE g[i] = Joined(seqs, g, i)
    <3>1. Joined(seqs, g, i) = Joined(seqs, h, i)
      <4>1. i # 1 => i - 1 \in 1..n /\ i - 1 # m BY <2>2
      <4>2. i # 1 => g[i - 1] = h[i - 1] BY <4>1
      <4> HIDE DEF g
      <4> QED BY <4>2 DEF Joined
    <3>2. g[i] = Joined(seqs, h, i) BY <2>1, <2>2
    <3> QED BY <3>1, <3>2
  <2>3. DOMAIN g = 1..n /\ g = [i \in 1..n |-> g[i]] OBVIOUS
  <2> HIDE DEF g
  <2> QED BY <2>2, <2>3
<1>3. Bad = {}
  <2> SUFFICES ASSUME Bad # {} PROVE FALSE OBVIOUS
  <2>1. PICK m \in Bad : \A k \in Bad : m <= k BY LeastNatural
  <2>2. m \in Nat /\ ~Good(m) OBVIOUS
  <2> HIDE DEF Good
  <2>3. m # 0 BY <2>2, <1>1
  <2>4. m - 1 \in Nat /\ m - 1 \notin Bad
    <3> HIDE DEF Bad
    <3> QED BY <2>1, <2>2, <2>3
  <2>5. Good(m - 1) BY <2>4
  <2> QED BY <2>2, <2>3, <2>5, <1>2
<1>4. Good(n) BY <1>3
<1>5. PICK g : DOMAIN g = 1..n /\ g = [i \in 1..n |-> g[i]] /\ \A i \in 1..n : i <= n => g[i] = Joined(seqs, g, i)
  BY <1>4
<1>6. \A i \in 1..n : g[i] = Joined(seqs, g, i) BY <1>5
<1>7. g = [i \in 1..n |-> Joined(seqs, g, i)] BY <1>5, <1>6
<1> QED BY <1>7

\* The concatenation of sequences over S, one after another.
LEMMA FlattenUnfolds ==
  ASSUME NEW S, NEW seqs \in Seq(Seq(S)), Len(seqs) # 0
  PROVE  \E g : /\ FlattenSeq(seqs) = g[Len(seqs)]
                /\ \A i \in 1..Len(seqs) : g[i] \in Seq(S) /\ g[i] = Joined(seqs, g, i)
<1> DEFINE n == Len(seqs)
           it == CHOOSE g : g = [i \in 1..n |-> Joined(seqs, g, i)]
<1>1. n \in Nat \ {0} /\ \A i \in 1..n : seqs[i] \in Seq(S) OBVIOUS
<1>2. it = [i \in 1..n |-> Joined(seqs, it, i)]
  <2> HIDE DEF n
  <2> QED BY <1>1, JoinedIsDefined
<1>3. FlattenSeq(seqs) = it[n] BY DEF FlattenSeq, Joined
<1> HIDE DEF it, n
<1> DEFINE Bad == {i \in 1..n : it[i] \notin Seq(S)}
<1>4. Bad = {}
  <2> SUFFICES ASSUME Bad # {} PROVE FALSE OBVIOUS
  <2>1. Bad \subseteq Nat BY <1>1
  <2>2. PICK i \in Bad : \A k \in Bad : i <= k BY <2>1, LeastNatural
  <2>3. i \in 1..n /\ it[i] \notin Seq(S) BY <2>2
  <2>4. it[i] = Joined(seqs, it, i) BY <1>2, <2>3
  <2>5. i # 1 BY <1>1, <2>3, <2>4 DEF Joined
  <2>6. i - 1 \in 1..n /\ i - 1 \notin Bad
    <3> HIDE DEF Bad
    <3> QED BY <1>1, <2>2, <2>3, <2>5
  <2>7. it[i - 1] \in Seq(S) BY <2>6
  <2>8. it[i] = it[i - 1] \o seqs[i] BY <2>4, <2>5 DEF Joined
  <2> QED BY <1>1, <2>3, <2>7, <2>8
<1>5. \A i \in 1..n : it[i] = Joined(seqs, it, i) BY <1>2
<1> QED BY <1>3, <1>4, <1>5 DEF n

LEMMA FlattenIsSeq ==
  ASSUME NEW S, NEW seqs \in Seq(Seq(S))
  PROVE  FlattenSeq(seqs) \in Seq(S)
<1>1. CASE Len(seqs) = 0
  <2>1. FlattenSeq(seqs) = <<>> BY <1>1 DEF FlattenSeq
  <2> QED BY <2>1
<1>2. CASE Len(seqs) # 0
  <2>1. Len(seqs) \in 1..Len(seqs) BY <1>2
  <2> QED BY <1>2, <2>1, FlattenUnfolds
<1> QED BY <1>1, <1>2

\* One unfolding of the expansion of needs.
Unfold(g, path) ==
    [need \in Need |->
        LET prep == Preparation[need.item]
        IN  IF prep = NoPreparation THEN <<need>>
            ELSE IF need.item \in path \/ prep.yield <= 0 \/ prep.recipe = <<>> THEN <<Broken>>
            ELSE FlattenSeq([k \in DOMAIN prep.recipe |->
                     g[path \cup {need.item}]
                       [[item |-> prep.recipe[k].item,
                         quantity |-> (need.quantity * prep.recipe[k].quantity) \div prep.yield]]])]

IsExpansion(g) == g = [path \in SUBSET Items |-> Unfold(g, path)]

\* What a preparation is made of, for a need of it.
Ingredient(need, k) ==
    [item |-> Preparation[need.item].recipe[k].item,
     quantity |-> (need.quantity * Preparation[need.item].recipe[k].quantity)
                     \div Preparation[need.item].yield]

Remaining(path) == Cardinality(Items \ path)

LEMMA RemainingFalls ==
  ASSUME NEW path \in SUBSET Items
  PROVE  /\ Remaining(path) \in Nat
         /\ \A i \in Items \ path : Remaining(path \cup {i}) = Remaining(path) - 1
<1>1. IsFiniteSet(Items \ path) BY InventoryAssumption, FS_Difference
<1>2. ASSUME NEW i \in Items \ path PROVE Remaining(path \cup {i}) = Remaining(path) - 1
  <2>1. Items \ (path \cup {i}) = (Items \ path) \ {i} OBVIOUS
  <2>2. Cardinality((Items \ path) \ {i}) = Cardinality(Items \ path) - 1 BY <1>1, FS_RemoveElement
  <2> QED BY <2>1, <2>2 DEF Remaining
<1> QED BY <1>1, <1>2, FS_CardinalityType DEF Remaining

LEMMA IngredientsAreNeeds ==
  ASSUME NEW need \in Need, Preparation[need.item] # NoPreparation,
         Preparation[need.item].yield > 0,
         NEW k \in DOMAIN Preparation[need.item].recipe
  PROVE  Ingredient(need, k) \in Need
<1> DEFINE prep == Preparation[need.item]
<1>1. need.item \in Items /\ need.quantity \in Nat BY DEF Need
<1>2. prep \in PreparationRows BY <1>1, InventoryAssumption
<1>3. prep.yield \in Int /\ prep.recipe \in Seq(Need) BY <1>2 DEF PreparationRows
<1>4. prep.recipe[k] \in Need BY <1>3
<1>5. prep.recipe[k].item \in Items /\ prep.recipe[k].quantity \in Nat BY <1>4 DEF Need
<1> HIDE DEF prep
<1> DEFINE a == need.quantity
           b == prep.recipe[k].quantity
           y == prep.yield
<1>6. a \in Nat /\ b \in Nat /\ y \in Int /\ y > 0 BY <1>1, <1>3, <1>5 DEF prep
<1>7. (a * b) \div y \in Nat
  <2> HIDE DEF a, b, y
  <2> DEFINE c == a * b
  <2>1. c \in Nat BY <1>6
  <2> HIDE DEF c
  <2>2. c \div y \in Nat BY <1>6, <2>1
  <2> QED BY <2>2 DEF c
<1>8. Ingredient(need, k) = [item |-> prep.recipe[k].item, quantity |-> (a * b) \div y]
  BY DEF Ingredient, prep
<1> QED BY <1>5, <1>7, <1>8 DEF Need

\* Only what it says of longer paths matters for the unfolding at one.
LEMMA UnfoldDependsOnMore ==
  ASSUME NEW path \in SUBSET Items, NEW g, NEW h,
         \A p \in SUBSET Items : Remaining(p) < Remaining(path) => g[p] = h[p]
  PROVE  Unfold(g, path) = Unfold(h, path)
<1> DEFINE Leaf(n) == \/ Preparation[n.item] = NoPreparation \/ n.item \in path
                      \/ Preparation[n.item].yield <= 0 \/ Preparation[n.item].recipe = <<>>
<1>1. ASSUME NEW need \in Need, ~Leaf(need) PROVE g[path \cup {need.item}] = h[path \cup {need.item}]
  <2>1. need.item \in Items \ path BY <1>1 DEF Need
  <2>2. Remaining(path \cup {need.item}) < Remaining(path) /\ path \cup {need.item} \in SUBSET Items
    BY <2>1, RemainingFalls
  <2> QED BY <2>2
<1>2. ASSUME NEW need \in Need PROVE Unfold(g, path)[need] = Unfold(h, path)[need]
  BY <1>1, <1>2 DEF Unfold
<1>3. DOMAIN Unfold(g, path) = Need /\ DOMAIN Unfold(h, path) = Need BY DEF Unfold
<1>4. /\ Unfold(g, path) = [n \in Need |-> Unfold(g, path)[n]]
      /\ Unfold(h, path) = [n \in Need |-> Unfold(h, path)[n]]
  BY DEF Unfold
<1>5. [n \in Need |-> Unfold(g, path)[n]] = [n \in Need |-> Unfold(h, path)[n]] BY <1>2
<1> QED BY <1>4, <1>5

LEMMA ExpansionIsDefined == \E g : IsExpansion(g)
<1> DEFINE Good(m) == \E g : /\ DOMAIN g = SUBSET Items /\ g = [p \in SUBSET Items |-> g[p]]
                             /\ \A p \in SUBSET Items : Remaining(p) < m => g[p] = Unfold(g, p)
           Bad == {m \in Nat : ~Good(m)}
<1>1. Good(0)
  <2> DEFINE g == [p \in SUBSET Items |-> <<>>]
  <2>1. DOMAIN g = SUBSET Items /\ g = [p \in SUBSET Items |-> g[p]] OBVIOUS
  <2>2. \A p \in SUBSET Items : ~(Remaining(p) < 0) BY RemainingFalls
  <2> QED BY <2>1, <2>2
<1>2. ASSUME NEW m \in Nat, m > 0, Good(m - 1) PROVE Good(m)
  <2>1. PICK h : /\ DOMAIN h = SUBSET Items
                 /\ \A p \in SUBSET Items : Remaining(p) < m - 1 => h[p] = Unfold(h, p)
    BY <1>2
  <2> DEFINE g == [p \in SUBSET Items |-> IF Remaining(p) = m - 1 THEN Unfold(h, p) ELSE h[p]]
  <2>2. ASSUME NEW p \in SUBSET Items, Remaining(p) < m PROVE g[p] = Unfold(g, p)
    <3>1. Remaining(p) \in Nat BY RemainingFalls
    <3>2. \A q \in SUBSET Items : Remaining(q) < Remaining(p) => g[q] = h[q]
      <4>1. \A q \in SUBSET Items : Remaining(q) \in Nat BY RemainingFalls
      <4>2. \A q \in SUBSET Items : Remaining(q) < Remaining(p) => Remaining(q) # m - 1 BY <2>2, <3>1, <4>1
      <4> QED BY <4>2
    <3>3. Unfold(g, p) = Unfold(h, p)
      <4> HIDE DEF g
      <4> QED BY <3>2, UnfoldDependsOnMore
    <3>4. g[p] = Unfold(h, p)
      <4>1. CASE Remaining(p) = m - 1 BY <4>1
      <4>2. CASE Remaining(p) # m - 1
        <5>1. Remaining(p) < m - 1 BY <2>2, <3>1, <4>2
        <5>2. h[p] = Unfold(h, p) BY <2>1, <5>1
        <5>3. g[p] = h[p] BY <4>2
        <5> QED BY <5>2, <5>3
      <4> QED BY <4>1, <4>2
    <3> QED BY <3>3, <3>4
  <2>3. DOMAIN g = SUBSET Items /\ g = [p \in SUBSET Items |-> g[p]] OBVIOUS
  <2> HIDE DEF g
  <2> QED BY <2>2, <2>3
<1>3. Bad = {}
  <2> SUFFICES ASSUME Bad # {} PROVE FALSE OBVIOUS
  <2>1. PICK m \in Bad : \A k \in Bad : m <= k BY LeastNatural
  <2>2. m \in Nat /\ ~Good(m) OBVIOUS
  <2> HIDE DEF Good
  <2>3. m # 0 BY <2>2, <1>1
  <2>4. m - 1 \in Nat /\ m - 1 \notin Bad
    <3> HIDE DEF Bad
    <3> QED BY <2>1, <2>2, <2>3
  <2>5. Good(m - 1) BY <2>4
  <2> QED BY <2>2, <2>3, <2>5, <1>2
<1> DEFINE top == Cardinality(Items) + 1
<1>4. Cardinality(Items) \in Nat BY InventoryAssumption, FS_CardinalityType
<1>5. \A p \in SUBSET Items : Remaining(p) < top
  <2> TAKE p \in SUBSET Items
  <2>1. Remaining(p) <= Cardinality(Items) /\ Remaining(p) \in Nat
    BY InventoryAssumption, FS_Subset, RemainingFalls DEF Remaining
  <2> QED BY <1>4, <2>1
<1>6. Good(top)
  <2>1. top \in Nat BY <1>4
  <2> HIDE DEF Good, top
  <2> QED BY <1>3, <2>1
<1>7. PICK g : g = [p \in SUBSET Items |-> g[p]] /\ \A p \in SUBSET Items : Remaining(p) < top => g[p] = Unfold(g, p)
  BY <1>6
<1>8. \A p \in SUBSET Items : g[p] = Unfold(g, p) BY <1>5, <1>7
<1> QED BY <1>7, <1>8 DEF IsExpansion

LEMMA ExpansionUnfolds == IsExpansion(Expansion)
<1> DEFINE it == CHOOSE g : IsExpansion(g)
<1>1. IsExpansion(it) BY ExpansionIsDefined
<1>2. it = Expansion BY DEF IsExpansion, Expansion, Unfold
<1> QED BY <1>1, <1>2

\* What a need expands to.
LEMMA ExpansionType ==
  ASSUME NEW path \in SUBSET Items, NEW need \in Need
  PROVE  Expansion[path][need] \in Seq(Need \cup {Broken})
<1> DEFINE Fits(p) == \A n \in Need : Expansion[p][n] \in Seq(Need \cup {Broken})
           Bad == {r \in Nat : \E p \in SUBSET Items : Remaining(p) = r /\ ~Fits(p)}
<1>1. Bad = {}
  <2> SUFFICES ASSUME Bad # {} PROVE FALSE OBVIOUS
  <2>1. PICK r \in Bad : \A k \in Bad : r <= k BY LeastNatural
  <2>2. PICK p \in SUBSET Items : Remaining(p) = r /\ ~Fits(p) BY <2>1
  <2>3. ASSUME NEW n \in Need PROVE Expansion[p][n] \in Seq(Need \cup {Broken})
    <3> DEFINE prep == Preparation[n.item]
    <3>0. Expansion[p] = Unfold(Expansion, p) BY ExpansionUnfolds DEF IsExpansion
    <3>1. n.item \in Items BY DEF Need
    <3>2. CASE prep = NoPreparation
      <4>1. Expansion[p][n] = <<n>> BY <3>0, <3>2 DEF Unfold
      <4> QED BY <4>1
    <3>3. CASE prep # NoPreparation /\ (n.item \in p \/ prep.yield <= 0 \/ prep.recipe = <<>>)
      <4>1. Expansion[p][n] = <<Broken>> BY <3>0, <3>3 DEF Unfold
      <4> QED BY <4>1
    <3>4. CASE ~(prep = NoPreparation \/ n.item \in p \/ prep.yield <= 0 \/ prep.recipe = <<>>)
      <4>1. prep \in PreparationRows BY <3>1, <3>4, InventoryAssumption
      <4>2. prep.yield \in Int /\ prep.yield > 0 /\ prep.recipe \in Seq(Need)
        BY <3>4, <4>1 DEF PreparationRows
      <4>3. \A k \in DOMAIN prep.recipe : Ingredient(n, k) \in Need
        BY <3>4, <4>2, IngredientsAreNeeds
      <4> DEFINE q == p \cup {n.item}
      <4>4. Remaining(q) = r - 1 /\ Remaining(q) \in Nat /\ q \in SUBSET Items
        BY <2>2, <3>1, <3>4, RemainingFalls
      <4>5. Fits(q)
        <5>1. r \in Nat /\ ~(r <= Remaining(q)) BY <4>4
        <5>2. Remaining(q) \notin Bad
          <6> HIDE DEF Bad, q
          <6> QED BY <2>1, <5>1
        <5> HIDE DEF Fits, q
        <5> QED BY <4>4, <5>2
      <4> DEFINE parts == [k \in DOMAIN prep.recipe |-> Expansion[q][Ingredient(n, k)]]
      <4>6. Expansion[p][n] = FlattenSeq(parts) BY <3>0, <3>4 DEF Unfold, Ingredient
      <4>7. parts \in Seq(Seq(Need \cup {Broken}))
        <5>1. \A k \in DOMAIN prep.recipe : Expansion[q][Ingredient(n, k)] \in Seq(Need \cup {Broken})
          <6> HIDE DEF q, prep
          <6> QED BY <4>3, <4>5
        <5>2. DOMAIN prep.recipe = 1..Len(prep.recipe) /\ Len(prep.recipe) \in Nat BY <4>2
        <5> HIDE DEF q, prep
        <5> QED BY <5>1, <5>2
      <4> HIDE DEF parts
      <4> QED BY <4>6, <4>7, FlattenIsSeq
    <3> QED BY <3>2, <3>3, <3>4
  <2> QED BY <2>2, <2>3
<1>2. Fits(path)
  <2> HIDE DEF Fits
  <2> QED BY <1>1, RemainingFalls
<1> QED BY <1>2
\* The movements of a ticket, and how a movement looks before it is made.
SaleRows(t) ==
    [item : Items, quantity : Nat, type : {SaleConsumption},
     source : {TicketLine, VariantOption}, of : {t}]

MoveRows ==
    [item : Items, quantity : Int, type : DOMAIN Sign,
     source : {TicketLine, VariantOption, ReceiptLine, Manual}, of : Nat]

LEMMA ScaledAreNeeds ==
  ASSUME NEW recipe \in Seq(RecipeRows), NEW n \in Nat
  PROVE  Scaled(recipe, n) \in Seq(Need)
<1>1. Len(recipe) \in Nat /\ DOMAIN recipe = 1..Len(recipe) OBVIOUS
<1>2. ASSUME NEW k \in DOMAIN recipe PROVE [recipe[k] EXCEPT !.quantity = @ * n] \in Need
  <2>1. recipe[k] \in RecipeRows OBVIOUS
  <2> DEFINE q == recipe[k].quantity
  <2>2. q \in Nat BY <2>1 DEF RecipeRows
  <2>3. q * n \in Nat BY <2>2
  <2>4. [recipe[k] EXCEPT !.quantity = @ * n] = [item |-> recipe[k].item, quantity |-> q * n]
    BY <2>1 DEF RecipeRows
  <2> QED BY <2>1, <2>3, <2>4 DEF RecipeRows, Need
<1> QED BY <1>1, <1>2 DEF Scaled

LEMMA ExpandedAllType ==
  ASSUME NEW needs \in Seq(Need)
  PROVE  ExpandedAll(needs) \in Seq(Need \cup {Broken})
<1> DEFINE parts == [k \in DOMAIN needs |-> Expanded(needs[k])]
<1>1. Len(needs) \in Nat /\ DOMAIN needs = 1..Len(needs) OBVIOUS
<1>2. \A k \in DOMAIN needs : Expanded(needs[k]) \in Seq(Need \cup {Broken})
  BY ExpansionType DEF Expanded
<1>3. parts \in Seq(Seq(Need \cup {Broken})) BY <1>1, <1>2
<1> QED BY <1>3, FlattenIsSeq DEF ExpandedAll

LEMMA ConsumptionType ==
  ASSUME NEW t \in Tickets, NEW needs \in Seq(Need \cup {Broken}), NEW source \in {TicketLine, VariantOption}
  PROVE  Consumption(t, needs, source) \in Seq(SaleRows(t) \cup {Broken})
<1> DEFINE Row(n) == IF n = Broken THEN Broken
                     ELSE [item |-> n.item, quantity |-> n.quantity,
                           type |-> SaleConsumption, source |-> source, of |-> t]
           rows == Consumption(t, needs, source)
<1>1. /\ Len(needs) \in Nat /\ DOMAIN needs = 1..Len(needs)
      /\ \A k \in 1..Len(needs) : needs[k] \in Need \cup {Broken}
  BY SeqFacts
<1>2. ASSUME NEW n \in Need PROVE [item |-> n.item, quantity |-> n.quantity,
                           type |-> SaleConsumption, source |-> source, of |-> t] \in SaleRows(t)
  BY DEF Need, SaleRows
<1>3. \A n \in Need \cup {Broken} : Row(n) \in SaleRows(t) \cup {Broken} BY <1>2
<1>4. rows = [k \in DOMAIN needs |-> Row(needs[k])] BY DEF Consumption
<1> HIDE DEF Row, rows
<1>5. rows = [k \in 1..Len(needs) |-> rows[k]] /\ \A k \in 1..Len(needs) : rows[k] \in SaleRows(t) \cup {Broken}
  BY <1>1, <1>3, <1>4
<1>6. rows \in Seq(SaleRows(t) \cup {Broken}) BY <1>1, <1>5, SeqMade
<1> QED BY <1>6 DEF rows

LEMMA SelectionNeedsType ==
  ASSUME NEW line \in LineRows, NEW s \in SelectionRows
  PROVE  SelectionNeeds(line, s) \in Seq(Need)
<1> DEFINE p == OptionProduct[s.option]
           n == line.quantity * s.quantity
           f == IF s.option \in PlainOptions THEN 1 ELSE Multiplier[p]
<1>1. line.quantity \in Nat /\ s.quantity \in Nat /\ s.option \in DOMAIN OptionRecipe
  BY DEF LineRows, SelectionRows
<1>2. n \in Nat BY <1>1
<1>3. OptionRecipe[s.option] \in Seq(RecipeRows)
  BY <1>1, InventoryAssumption DEF OptionRows, RecipeRows
<1>4. p = NoProduct \/ p \in DOMAIN Recipe BY <1>1, InventoryAssumption
<1>5. p # NoProduct => Recipe[p] \in Seq(RecipeRows) /\ n * f \in Nat
  <2> SUFFICES ASSUME p # NoProduct PROVE Recipe[p] \in Seq(RecipeRows) /\ n * f \in Nat OBVIOUS
  <2>1. f \in Nat BY <1>4, InventoryAssumption
  <2> HIDE DEF n, f
  <2> QED BY <1>2, <1>4, <2>1, InventoryAssumption
<1> HIDE DEF n, p, f
<1>6. Scaled(OptionRecipe[s.option], n) \in Seq(Need) BY <1>2, <1>3, ScaledAreNeeds
<1>7. p # NoProduct => Scaled(Recipe[p], n * f) \in Seq(Need) BY <1>5, ScaledAreNeeds
<1>8. (IF p = NoProduct THEN <<>> ELSE Scaled(Recipe[p], n * f)) \in Seq(Need) BY <1>7
<1>9. SelectionNeeds(line, s)
        = (IF p = NoProduct THEN <<>> ELSE Scaled(Recipe[p], n * f)) \o Scaled(OptionRecipe[s.option], n)
  BY DEF SelectionNeeds, n, p, f
<1> QED BY <1>6, <1>8, <1>9

LEMMA LineMovementsType ==
  ASSUME NEW t \in Tickets, NEW line \in LineRows
  PROVE  LineMovements(t, line) \in Seq(SaleRows(t) \cup {Broken})
<1> DEFINE own == Consumption(t, ExpandedAll(Scaled(Recipe[line.product],
                                   line.quantity * Multiplier[line.product])), TicketLine)
           parts == [k \in DOMAIN line.selections |-> SelectionNeeds(line, line.selections[k])]
           chosen == Consumption(t, ExpandedAll(FlattenSeq(parts)), VariantOption)
<1>1. line.product \in DOMAIN Recipe /\ line.quantity \in Nat /\ line.selections \in Seq(SelectionRows)
  BY DEF LineRows
<1>2. own \in Seq(SaleRows(t) \cup {Broken})
  <2>1. Multiplier[line.product] \in Nat /\ Recipe[line.product] \in Seq(RecipeRows)
    BY <1>1, InventoryAssumption
  <2>2. line.quantity * Multiplier[line.product] \in Nat BY <1>1, <2>1
  <2>3. Scaled(Recipe[line.product], line.quantity * Multiplier[line.product]) \in Seq(Need)
    BY <2>1, <2>2, ScaledAreNeeds
  <2> QED BY <2>3, ExpandedAllType, ConsumptionType
<1>3. chosen \in Seq(SaleRows(t) \cup {Broken})
  <2>1. Len(line.selections) \in Nat /\ DOMAIN line.selections = 1..Len(line.selections) BY <1>1
  <2>2. \A k \in DOMAIN line.selections : SelectionNeeds(line, line.selections[k]) \in Seq(Need)
    BY <1>1, SelectionNeedsType
  <2>3. parts \in Seq(Seq(Need)) BY <2>1, <2>2
  <2>4. FlattenSeq(parts) \in Seq(Need) BY <2>3, FlattenIsSeq
  <2> HIDE DEF parts
  <2> QED BY <2>4, ExpandedAllType, ConsumptionType
<1>4. LineMovements(t, line) = IF ~line.consumable THEN <<>> ELSE own \o chosen
  BY DEF LineMovements
<1> HIDE DEF own, chosen
<1> QED BY <1>2, <1>3, <1>4

\* A ticket asks for movements of its own.
LEMMA RequirementType ==
  ASSUME NEW t \in Tickets
  PROVE  Requirement[t] \in Seq(SaleRows(t) \cup {Broken}) /\ Requirement[t] \in Seq(MoveRows \cup {Broken})
<1> DEFINE parts == [k \in DOMAIN Lines[t] |-> LineMovements(t, Lines[t][k])]
<1>1. Lines[t] \in Seq(LineRows) BY InventoryAssumption
<1>2. Len(Lines[t]) \in Nat /\ DOMAIN Lines[t] = 1..Len(Lines[t]) BY <1>1
<1>3. \A k \in DOMAIN Lines[t] : LineMovements(t, Lines[t][k]) \in Seq(SaleRows(t) \cup {Broken})
  BY <1>1, LineMovementsType
<1>4. parts \in Seq(Seq(SaleRows(t) \cup {Broken})) BY <1>2, <1>3
<1>5. Requirement[t] = FlattenSeq(parts) BY DEF Requirement
<1>6. Requirement[t] \in Seq(SaleRows(t) \cup {Broken})
  <2> HIDE DEF parts
  <2> QED BY <1>4, <1>5, FlattenIsSeq
<1>7. SaleRows(t) \subseteq MoveRows
  <2>1. t \in Nat BY InventoryAssumption
  <2>2. SaleConsumption \in DOMAIN Sign BY DEF Sign
  <2> SUFFICES ASSUME NEW m \in SaleRows(t) PROVE m \in MoveRows OBVIOUS
  <2>3. /\ m = [item |-> m.item, quantity |-> m.quantity, type |-> m.type, source |-> m.source, of |-> m.of]
        /\ m.item \in Items /\ m.quantity \in Nat /\ m.type = SaleConsumption
        /\ m.source \in {TicketLine, VariantOption} /\ m.of = t
    BY DEF SaleRows
  <2>8. m.quantity \in Nat BY <2>3, Zenon
  <2>4. m.quantity \in Int BY <2>8
  <2>7. m.of \in Nat BY <2>1, <2>3, Zenon
  <2>5. m.type \in DOMAIN Sign BY <2>2, <2>3, Zenon
  <2>6. m.source \in {TicketLine, VariantOption, ReceiptLine, Manual} BY <2>3
  <2> QED BY <2>3, <2>4, <2>5, <2>6, <2>7 DEF MoveRows
<1>8. \A k \in 1..Len(Requirement[t]) : Requirement[t][k] \in MoveRows \cup {Broken}
  BY <1>6, <1>7, SeqFacts
<1>9. Requirement[t] = [k \in 1..Len(Requirement[t]) |-> Requirement[t][k]] /\ Len(Requirement[t]) \in Nat
  BY <1>6
<1> QED BY <1>6, <1>8, <1>9, SeqMade
-----------------------------------------------------------------------------
(* A transaction makes its movements one after another.                    *)

LEMMA MaxOfSome ==
  ASSUME NEW n \in Nat, NEW S \in SUBSET (1..n), S # {}
  PROVE  Max(S) \in S /\ \A k \in S : k <= Max(S)
<1> DEFINE T == {k \in Nat : n - k \in S}
<1>1. PICK x \in S : TRUE OBVIOUS
<1>2. n - x \in T BY <1>1
<1>3. PICK t \in T : \A k \in T : t <= k BY <1>2, LeastNatural
<1>4. n - t \in S BY <1>3
<1>5. ASSUME NEW k \in S PROVE k <= n - t
  <2>1. n - k \in T BY <1>5
  <2> QED BY <1>3, <2>1
<1>6. \E m \in S : \A k \in S : k <= m BY <1>4, <1>5
<1>7. Max(S) = CHOOSE m \in S : \A k \in S : m >= k BY DEF Max
<1>8. \E m \in S : \A k \in S : m >= k BY <1>6
<1>9. Max(S) \in S /\ \A k \in S : Max(S) >= k BY <1>7, <1>8, Zenon
<1>10. \A k \in S : k \in Nat OBVIOUS
<1> QED BY <1>9, <1>10

\* One unfolding of the fold of Apply.
Applied(movements, g, s) ==
    IF s = {} THEN Begun ELSE Move(g[s \ {Max(s)}], movements[Max(s)])

LEMMA AppliedIsDefined ==
  ASSUME NEW movements, NEW n \in Nat
  PROVE  \E g : g = [s \in SUBSET (1..n) |-> Applied(movements, g, s)]
<1> DEFINE S == 1..n
           Good(m) == \E g : /\ DOMAIN g = SUBSET S /\ g = [s \in SUBSET S |-> g[s]]
                             /\ \A s \in SUBSET S : Cardinality(s) <= m => g[s] = Applied(movements, g, s)
           Bad == {m \in Nat : ~Good(m)}
<1>0. IsFiniteSet(S) /\ Cardinality(S) = n BY FS_Interval
<1>1. \A s \in SUBSET S : /\ Cardinality(s) \in Nat /\ Cardinality(s) <= n
                          /\ Cardinality(s) = 0 <=> s = {}
                          /\ s # {} => Max(s) \in s /\ Cardinality(s \ {Max(s)}) = Cardinality(s) - 1
  <2> TAKE s \in SUBSET S
  <2>1. IsFiniteSet(s) /\ Cardinality(s) <= n BY <1>0, FS_Subset
  <2>2. Cardinality(s) \in Nat BY <2>1, FS_CardinalityType
  <2>3. Cardinality(s) = 0 <=> s = {} BY <2>1, FS_EmptySet
  <2>4. s # {} => Max(s) \in s BY MaxOfSome
  <2>5. s # {} => Cardinality(s \ {Max(s)}) = Cardinality(s) - 1 BY <2>1, <2>4, FS_RemoveElement
  <2> QED BY <2>1, <2>2, <2>3, <2>4, <2>5
<1>2. Good(0)
  <2> DEFINE g == [s \in SUBSET S |-> Begun]
  <2>1. ASSUME NEW s \in SUBSET S, Cardinality(s) <= 0 PROVE g[s] = Applied(movements, g, s)
    <3>0. Cardinality(s) \in Nat BY <1>1
    <3>01. Cardinality(s) = 0 BY <2>1, <3>0
    <3>1. s = {} BY <1>1, <3>01, Zenon
    <3>2. Applied(movements, g, s) = Begun BY <3>1 DEF Applied
    <3>3. g[s] = Begun OBVIOUS
    <3> QED BY <3>2, <3>3
  <2>2. DOMAIN g = SUBSET S /\ g = [s \in SUBSET S |-> g[s]] OBVIOUS
  <2> HIDE DEF g
  <2> QED BY <2>1, <2>2
<1>3. ASSUME NEW m \in Nat, m > 0, Good(m - 1) PROVE Good(m)
  <2>1. PICK h : /\ DOMAIN h = SUBSET S
                 /\ \A s \in SUBSET S : Cardinality(s) <= m - 1 => h[s] = Applied(movements, h, s)
    BY <1>3
  <2> DEFINE g == [s \in SUBSET S |-> IF Cardinality(s) = m THEN Applied(movements, h, s) ELSE h[s]]
  <2>2. ASSUME NEW s \in SUBSET S, Cardinality(s) <= m PROVE g[s] = Applied(movements, g, s)
    <3>1. Applied(movements, g, s) = Applied(movements, h, s)
      <4>1. CASE s = {} BY <4>1 DEF Applied
      <4>2. CASE s # {}
        <5>0. Cardinality(s) \in Nat /\ Cardinality(s \ {Max(s)}) = Cardinality(s) - 1
          BY <4>2, <1>1
        <5>1. Cardinality(s \ {Max(s)}) # m
          <6> DEFINE a == Cardinality(s)
                     b == Cardinality(s \ {Max(s)})
          <6>1. a \in Nat /\ a <= m /\ b = a - 1 BY <5>0, <2>2
          <6> HIDE DEF a, b
          <6>2. b # m BY <6>1
          <6> QED BY <6>2 DEF b
        <5>3. s \ {Max(s)} \in SUBSET S OBVIOUS
        <5>2. g[s \ {Max(s)}] = h[s \ {Max(s)}] BY <5>1, <5>3
        <5> HIDE DEF g
        <5> QED BY <5>2, <4>2 DEF Applied
      <4> QED BY <4>1, <4>2
    <3>2. g[s] = Applied(movements, h, s)
      <4>0. Cardinality(s) \in Nat BY <1>1
      <4>1. CASE Cardinality(s) = m BY <4>1
      <4>2. CASE Cardinality(s) # m
        <5>1. h[s] = Applied(movements, h, s) BY <2>1, <2>2, <4>0, <4>2
        <5>2. g[s] = h[s] BY <4>2
        <5> QED BY <5>1, <5>2
      <4> QED BY <4>1, <4>2
    <3> QED BY <3>1, <3>2
  <2>3. DOMAIN g = SUBSET S /\ g = [s \in SUBSET S |-> g[s]] OBVIOUS
  <2> HIDE DEF g
  <2> QED BY <2>2, <2>3
<1>4. Bad = {}
  <2> SUFFICES ASSUME Bad # {} PROVE FALSE OBVIOUS
  <2>1. PICK m \in Bad : \A k \in Bad : m <= k BY LeastNatural
  <2>0. m \in Nat /\ ~Good(m) OBVIOUS
  <2> HIDE DEF Good
  <2>2. m # 0 BY <2>0, <1>2
  <2>3. m - 1 \in Nat /\ m - 1 \notin Bad
    <3> HIDE DEF Bad
    <3> QED BY <2>0, <2>1, <2>2
  <2>4. Good(m - 1) BY <2>3
  <2> QED BY <2>0, <2>2, <2>4, <1>3
<1>5. Good(n) BY <1>4
<1>6. PICK g : /\ g = [s \in SUBSET S |-> g[s]]
               /\ \A s \in SUBSET S : Cardinality(s) <= n => g[s] = Applied(movements, g, s)
  BY <1>5
<1>7. \A s \in SUBSET S : g[s] = Applied(movements, g, s) BY <1>1, <1>6
<1>8. g = [s \in SUBSET S |-> Applied(movements, g, s)] BY <1>6, <1>7
<1> QED BY <1>8

\* The tables after each of the movements.
IsRun(movements, h) ==
    /\ h[0] = Begun
    /\ \A j \in 1..Len(movements) : h[j] = Move(h[j - 1], movements[j])
    /\ h[Len(movements)] = Apply(movements)

LEMMA ApplyRuns ==
  ASSUME NEW X, NEW movements \in Seq(X)
  PROVE  \E h : IsRun(movements, h)
<1> DEFINE n == Len(movements)
           it == CHOOSE g : g = [s \in SUBSET (1..n) |-> Applied(movements, g, s)]
           h == [j \in 0..n |-> it[1..j]]
<1>1. n \in Nat /\ DOMAIN movements = 1..n OBVIOUS
<1>2. it = [s \in SUBSET (1..n) |-> Applied(movements, it, s)]
  <2> HIDE DEF n
  <2> QED BY <1>1, AppliedIsDefined
<1>3. Apply(movements) = it[1..n] BY <1>1 DEF Apply, FoldLeft, MapThenFoldSet, Applied
<1> HIDE DEF it, n
<1>4. h[0] = Begun
  <2>1. h[0] = it[{}] BY <1>1
  <2>2. it[{}] = Applied(movements, it, {}) BY <1>2
  <2> QED BY <2>1, <2>2 DEF Applied
<1>5. ASSUME NEW j \in 1..n PROVE h[j] = Move(h[j - 1], movements[j])
  <2>1. 1..j \in SUBSET (1..n) /\ 1..j # {} /\ j \in 1..j BY <1>1
  <2>2. Max(1..j) = j
    <3>1. 1..j \in SUBSET (1..j) /\ j \in Nat /\ 1..j # {} BY <2>1, <1>1
    <3>2. Max(1..j) \in 1..j /\ \A k \in 1..j : k <= Max(1..j) BY <3>1, MaxOfSome
    <3>3. j <= Max(1..j) BY <2>1, <3>2
    <3> QED BY <3>1, <3>2, <3>3
  <2>3. it[1..j] = Applied(movements, it, 1..j) BY <1>2, <2>1
  <2>4. (1..j) \ {j} = 1..(j - 1) BY <1>1
  <2>5. it[1..j] = Move(it[1..(j - 1)], movements[j]) BY <2>1, <2>2, <2>3, <2>4 DEF Applied
  <2>6. h[j] = it[1..j] /\ h[j - 1] = it[1..(j - 1)] BY <1>1
  <2> QED BY <2>5, <2>6
<1>6. h[n] = it[1..n] BY <1>1
<1> HIDE DEF h
<1>7. IsRun(movements, h) BY <1>3, <1>4, <1>5, <1>6 DEF IsRun, n
<1> QED BY <1>7
-----------------------------------------------------------------------------
(* Alerts and their messages.                                              *)

OpenIn(alerts, i) == {a \in DOMAIN alerts : alerts[a].item = i /\ alerts[a].status = OpenAlert}

SentIn(alerts, sms, i) ==
    {k \in DOMAIN sms : sms[k].status = Sent /\ alerts[sms[k].alert].item = i}

\* The message of an alert is the one in its place.
Told(alerts, sms) == Len(sms) = Len(alerts) /\ \A k \in 1..Len(sms) : sms[k].alert = k

Extends(t, s, x) == t = Append(s, x)

LEMMA SeqExtended ==
  ASSUME NEW S, NEW s \in Seq(S), NEW x \in S, NEW t, Extends(t, s, x)
  PROVE  /\ t \in Seq(S) /\ Len(s) \in Nat /\ Len(t) = Len(s) + 1
         /\ DOMAIN s = 1..Len(s) /\ DOMAIN t = 1..(Len(s) + 1)
         /\ t[Len(s) + 1] = x /\ \A k \in 1..Len(s) : t[k] = s[k]
BY DEF Extends

LEMMA SeqChanged ==
  ASSUME NEW S, NEW s \in Seq(S), NEW x \in S, NEW a \in DOMAIN s, NEW t, t = [s EXCEPT ![a] = x]
  PROVE  /\ t \in Seq(S) /\ Len(t) = Len(s) /\ DOMAIN t = DOMAIN s
         /\ t[a] = x /\ \A k \in DOMAIN s : k # a => t[k] = s[k]
OBVIOUS

LEMMA SentIsFinite ==
  ASSUME NEW alerts, NEW sms \in Seq(SmsRow), NEW i
  PROVE  IsFiniteSet(SentIn(alerts, sms, i)) /\ Cardinality(SentIn(alerts, sms, i)) \in Nat
<1>1. Len(sms) \in Nat /\ DOMAIN sms = 1..Len(sms) OBVIOUS
<1>2. IsFiniteSet(1..Len(sms)) BY <1>1, FS_Interval
<1>3. SentIn(alerts, sms, i) \subseteq 1..Len(sms) BY <1>1 DEF SentIn
<1>4. IsFiniteSet(SentIn(alerts, sms, i)) BY <1>2, <1>3, FS_Subset
<1> QED BY <1>4, FS_CardinalityType

\* A new alert, and its message.
LEMMA AlertOpened ==
  ASSUME NEW alerts \in Seq(AlertRow), NEW row \in AlertRow, row.status = OpenAlert,
         NEW opened, Extends(opened, alerts, row)
  PROVE  /\ OpenIn(opened, row.item) = OpenIn(alerts, row.item) \cup {Len(alerts) + 1}
         /\ \A j : j # row.item => OpenIn(opened, j) = OpenIn(alerts, j)
<1> DEFINE n == Len(alerts)
<1>1. /\ n \in Nat /\ DOMAIN alerts = 1..n /\ DOMAIN opened = 1..(n + 1)
      /\ opened[n + 1] = row /\ \A k \in 1..n : opened[k] = alerts[k]
  BY SeqExtended
<1> HIDE DEF n
<1>2. 1..(n + 1) = (1..n) \cup {n + 1} BY <1>1
<1>3. OpenIn(opened, row.item) = OpenIn(alerts, row.item) \cup {n + 1} BY <1>1, <1>2 DEF OpenIn
<1>4. \A j : j # row.item => OpenIn(opened, j) = OpenIn(alerts, j) BY <1>1, <1>2 DEF OpenIn
<1> QED BY <1>3, <1>4 DEF n

LEMMA AlertChanged ==
  ASSUME NEW alerts \in Seq(AlertRow), NEW a \in DOMAIN alerts, NEW row \in AlertRow,
         row.item = alerts[a].item, NEW changed, changed = [alerts EXCEPT ![a] = row]
  PROVE  /\ \A b : b # a => (b \in OpenIn(changed, row.item) <=> b \in OpenIn(alerts, row.item))
         /\ a \in OpenIn(changed, row.item) <=> row.status = OpenAlert
         /\ \A j : j # row.item => OpenIn(changed, j) = OpenIn(alerts, j)
<1>1. /\ DOMAIN changed = DOMAIN alerts /\ changed[a] = row
      /\ \A k \in DOMAIN alerts : k # a => changed[k] = alerts[k]
  BY SeqChanged
<1> QED BY <1>1 DEF OpenIn

LEMMA MessageSent ==
  ASSUME NEW alerts \in Seq(AlertRow), NEW sms \in Seq(SmsRow), Told(alerts, sms),
         NEW row \in AlertRow, NEW opened, Extends(opened, alerts, row),
         NEW new \in SmsRow, new.alert = Len(alerts) + 1, NEW told, Extends(told, sms, new)
  PROVE  /\ told \in Seq(SmsRow) /\ Told(opened, told)
         /\ \A j : j # row.item => SentIn(opened, told, j) = SentIn(alerts, sms, j)
         /\ Cardinality(SentIn(opened, told, row.item))
              = Cardinality(SentIn(alerts, sms, row.item)) + (IF new.status = Sent THEN 1 ELSE 0)
<1> DEFINE n == Len(alerts)
<1>1. /\ n \in Nat /\ DOMAIN alerts = 1..n /\ DOMAIN opened = 1..(n + 1) /\ Len(opened) = n + 1
      /\ opened[n + 1] = row /\ \A k \in 1..n : opened[k] = alerts[k]
  BY SeqExtended
<1>2. Len(sms) = n /\ \A k \in 1..n : sms[k].alert = k BY DEF Told
<1>4. new.alert = n + 1 OBVIOUS
<1> HIDE DEF n
<1>6. /\ told \in Seq(SmsRow) /\ Len(told) = n + 1
      /\ DOMAIN sms = 1..n /\ DOMAIN told = 1..(n + 1)
      /\ told[n + 1] = new /\ \A k \in 1..n : told[k] = sms[k]
  BY <1>2, SeqExtended
<1>7. 1..(n + 1) = (1..n) \cup {n + 1} /\ n + 1 \notin 1..n BY <1>1
<1>8. \A k \in 1..(n + 1) : told[k].alert = k BY <1>2, <1>4, <1>6, <1>7
<1>9. Told(opened, told) BY <1>1, <1>6, <1>8 DEF Told
<1>10. ASSUME NEW j, NEW k \in 1..n PROVE k \in SentIn(opened, told, j) <=> k \in SentIn(alerts, sms, j)
  <2>1. told[k].alert = k /\ sms[k].alert = k /\ told[k] = sms[k] /\ opened[k] = alerts[k]
    BY <1>1, <1>2, <1>6
  <2>2. k \in DOMAIN told /\ k \in DOMAIN sms BY <1>6, <1>7
  <2> QED BY <2>1, <2>2 DEF SentIn
<1>11. \A j : n + 1 \in SentIn(opened, told, j) <=> new.status = Sent /\ row.item = j
  BY <1>1, <1>4, <1>6, <1>7 DEF SentIn
<1>12. \A j : SentIn(opened, told, j) \subseteq 1..(n + 1) /\ SentIn(alerts, sms, j) \subseteq 1..n
  BY <1>6 DEF SentIn
<1>13. ASSUME NEW j, j # row.item PROVE SentIn(opened, told, j) = SentIn(alerts, sms, j)
  <2> DEFINE was == SentIn(alerts, sms, j)
             is == SentIn(opened, told, j)
  <2>1. \A k \in 1..n : k \in is <=> k \in was BY <1>10
  <2>2. n + 1 \notin is BY <1>11, <1>13
  <2>3. is \subseteq (1..n) \cup {n + 1} /\ was \subseteq 1..n BY <1>7, <1>12
  <2> HIDE DEF was, is
  <2>4. is = was BY <2>1, <2>2, <2>3
  <2> QED BY <2>4 DEF was, is
<1>14. Cardinality(SentIn(opened, told, row.item))
         = Cardinality(SentIn(alerts, sms, row.item)) + (IF new.status = Sent THEN 1 ELSE 0)
  <2> DEFINE was == SentIn(alerts, sms, row.item)
             is == SentIn(opened, told, row.item)
  <2>1. IsFiniteSet(was) /\ Cardinality(was) \in Nat BY SentIsFinite
  <2>3. n + 1 \notin was BY <1>7, <1>12
  <2>6. \A k \in 1..n : k \in is <=> k \in was BY <1>10
  <2>7. n + 1 \in is <=> new.status = Sent BY <1>11
  <2>8. is \subseteq (1..n) \cup {n + 1} /\ was \subseteq 1..n BY <1>7, <1>12
  <2> HIDE DEF was, is
  <2>4. CASE new.status = Sent
    <3>1. Cardinality(was \cup {n + 1}) = Cardinality(was) + 1 BY <2>1, <2>3, FS_AddElement
    <3>2. is = was \cup {n + 1} BY <2>4, <2>6, <2>7, <2>8
    <3> QED BY <3>1, <3>2, <2>4 DEF was, is
  <2>5. CASE new.status # Sent
    <3>1. is = was BY <2>5, <2>6, <2>7, <2>8
    <3>2. Cardinality(is) = Cardinality(was) + 0 BY <3>1, <2>1
    <3> QED BY <3>2, <2>5 DEF was, is
  <2> QED BY <2>4, <2>5
<1> QED BY <1>6, <1>9, <1>13, <1>14
-----------------------------------------------------------------------------
(* The tables inside a transaction, and what evaluating an alert does.     *)

Tx(moves, alerts, sms, texts, ok) ==
    [moves |-> moves, alerts |-> alerts, sms |-> sms, texts |-> texts, ok |-> ok]

IsTransaction(d) ==
    /\ d = Tx(d.moves, d.alerts, d.sms, d.texts, d.ok)
    /\ d.moves \in Seq(MovementRow)
    /\ d.alerts \in Seq(AlertRow)
    /\ d.sms \in Seq(SmsRow)
    /\ d.texts \in [Items -> Nat]

\* e is what evaluating the alert of i leaves of d.
Evaluated(d, e, i) ==
    /\ IsTransaction(e) /\ Told(e.alerts, e.sms) /\ e.moves = d.moves /\ e.ok = d.ok
    /\ \A j \in Items : Cardinality(SentIn(e.alerts, e.sms, j)) + d.texts[j]
                          = Cardinality(SentIn(d.alerts, d.sms, j)) + e.texts[j]
    /\ \A j \in Items : j # i => /\ OpenIn(e.alerts, j) = OpenIn(d.alerts, j)
                                 /\ \A a \in OpenIn(d.alerts, j) : e.alerts[a] = d.alerts[a]
    /\ \A a, b \in OpenIn(e.alerts, i) : a = b
    /\ OpenIn(e.alerts, i) # {} <=> Stock(d, i) <= minimum[i]
    /\ \A a \in OpenIn(e.alerts, i) : e.alerts[a].quantity = Stock(d, i)

LEMMA StockIsInt ==
  ASSUME NEW d, d.moves \in Seq(MovementRow), NEW i
  PROVE  Stock(d, i) \in Int
<1> DEFINE f == [k \in DOMAIN d.moves |-> IF d.moves[k].item = i THEN d.moves[k].signed ELSE 0]
<1>1. Len(d.moves) \in Nat /\ DOMAIN d.moves = 1..Len(d.moves) OBVIOUS
<1>2. IsFiniteSet(DOMAIN d.moves) BY <1>1, FS_Interval
<1>3. ASSUME NEW k \in DOMAIN d.moves PROVE f[k] \in Int
  <2> DEFINE x == d.moves[k].signed
  <2>1. d.moves[k] \in MovementRow OBVIOUS
  <2>2. x \in Int BY <2>1 DEF MovementRow
  <2>3. f[k] = IF d.moves[k].item = i THEN x ELSE 0 OBVIOUS
  <2> HIDE DEF x, f
  <2> QED BY <2>2, <2>3
<1>4. DOMAIN f = DOMAIN d.moves OBVIOUS
<1>5. Stock(d, i) = Total(f) BY DEF Stock
<1> HIDE DEF f
<1> QED BY <1>2, <1>3, <1>4, <1>5, TotalIsInt

LEMMA StatusOfStock ==
  ASSUME NEW current \in Int, NEW min \in Nat
  PROVE  /\ StockStatus(current, min) = Right => ~(current <= min)
         /\ StockStatus(current, min) # Right => current <= min /\ StockStatus(current, min) \in {Low, Out}
BY NamesDiffer DEF StockStatus

\* Records of a transaction with a field changed.
LEMMA FieldsOfTx ==
  ASSUME NEW moves, NEW alerts, NEW sms, NEW texts, NEW ok, NEW d, d = Tx(moves, alerts, sms, texts, ok)
  PROVE  /\ d.moves = moves /\ d.alerts = alerts /\ d.sms = sms /\ d.texts = texts /\ d.ok = ok
         /\ d = Tx(d.moves, d.alerts, d.sms, d.texts, d.ok)
BY DEF Tx

WithAlerts(d, x) == [d EXCEPT !.alerts = x]
WithAlert(d, i, x) == [d EXCEPT !.alerts[i] = x]
WithMoves(d, x) == [d EXCEPT !.moves = x]
WithOk(d, x) == [d EXCEPT !.ok = x]
Counted(texts, i, x) == [texts EXCEPT ![i] = x]
WithMessage(d, x, i, y) == [d EXCEPT !.sms = x, !.texts[i] = y]

LEMMA AlertsField ==
  ASSUME NEW moves, NEW alerts, NEW sms, NEW texts, NEW ok, NEW x
  PROVE  WithAlerts(Tx(moves, alerts, sms, texts, ok), x) = Tx(moves, x, sms, texts, ok)
BY DEF Tx, WithAlerts

LEMMA AlertField ==
  ASSUME NEW moves, NEW alerts, NEW sms, NEW texts, NEW ok, NEW i, NEW x
  PROVE  WithAlert(Tx(moves, alerts, sms, texts, ok), i, x)
           = Tx(moves, [alerts EXCEPT ![i] = x], sms, texts, ok)
BY DEF Tx, WithAlert

LEMMA MovesField ==
  ASSUME NEW moves, NEW alerts, NEW sms, NEW texts, NEW ok, NEW x
  PROVE  WithMoves(Tx(moves, alerts, sms, texts, ok), x) = Tx(x, alerts, sms, texts, ok)
BY DEF Tx, WithMoves

LEMMA OkField ==
  ASSUME NEW moves, NEW alerts, NEW sms, NEW texts, NEW ok, NEW x
  PROVE  WithOk(Tx(moves, alerts, sms, texts, ok), x) = Tx(moves, alerts, sms, texts, x)
BY DEF Tx, WithOk

LEMMA MessageField ==
  ASSUME NEW moves, NEW alerts, NEW sms, NEW texts, NEW ok, NEW x, NEW i, NEW y
  PROVE  WithMessage(Tx(moves, alerts, sms, texts, ok), x, i, y)
           = Tx(moves, alerts, x, Counted(texts, i, y), ok)
<1> DEFINE z == [texts EXCEPT ![i] = y]
           d == Tx(moves, alerts, sms, texts, ok)
           d1 == [d EXCEPT !.sms = x]
<1>1. [d EXCEPT !.sms = x, !.texts[i] = y] = [d EXCEPT !.sms = x, !.texts = z] BY DEF Tx
<1>2. ASSUME NEW u PROVE [d EXCEPT !.sms = x, !.texts = u] = [d1 EXCEPT !.texts = u] BY DEF Tx
<1>3. d1 = Tx(moves, alerts, x, texts, ok) BY DEF Tx
<1>4. ASSUME NEW u PROVE [d1 EXCEPT !.texts = u] = Tx(moves, alerts, x, u, ok)
  <2> HIDE DEF d1
  <2> QED BY <1>3 DEF Tx
<1>8. WithMessage(d, x, i, y) = [d EXCEPT !.sms = x, !.texts[i] = y] BY DEF WithMessage
<1> HIDE DEF z, d1, d
<1>5. [d EXCEPT !.sms = x, !.texts = z] = [d1 EXCEPT !.texts = z] BY <1>2
<1>6. [d1 EXCEPT !.texts = z] = Tx(moves, alerts, x, z, ok) BY <1>4
<1>7. WithMessage(d, x, i, y) = Tx(moves, alerts, x, z, ok) BY <1>1, <1>5, <1>6, <1>8, Zenon
<1> QED BY <1>7 DEF z, d, Counted

\* A new alert with its message.
AlertMade(alerts, sms, opened, told, row, new, i, n) ==
    /\ opened \in Seq(AlertRow) /\ told \in Seq(SmsRow) /\ Told(opened, told)
    /\ n \in Nat /\ DOMAIN alerts = 1..n /\ DOMAIN sms = 1..n
    /\ opened[n + 1] = row /\ \A k \in 1..n : opened[k] = alerts[k] /\ sms[k].alert = k
    /\ OpenIn(opened, i) = OpenIn(alerts, i) \cup {n + 1}
    /\ \A j : j # i => OpenIn(opened, j) = OpenIn(alerts, j)
    /\ \A j : j # i => SentIn(opened, told, j) = SentIn(alerts, sms, j)
    /\ Cardinality(SentIn(opened, told, i))
         = Cardinality(SentIn(alerts, sms, i)) + (IF new.status = Sent THEN 1 ELSE 0)

LEMMA AlertAndMessage ==
  ASSUME NEW alerts \in Seq(AlertRow), NEW sms \in Seq(SmsRow), Told(alerts, sms),
         NEW row \in AlertRow, row.status = OpenAlert, NEW i, row.item = i,
         NEW n, n = Len(alerts), NEW opened, Extends(opened, alerts, row),
         NEW new \in SmsRow, new.alert = n + 1, NEW told, Extends(told, sms, new)
  PROVE  AlertMade(alerts, sms, opened, told, row, new, i, n)
<1>1. /\ OpenIn(opened, i) = OpenIn(alerts, i) \cup {n + 1}
      /\ \A j : j # i => OpenIn(opened, j) = OpenIn(alerts, j)
  <2>1. OpenIn(opened, row.item) = OpenIn(alerts, row.item) \cup {Len(alerts) + 1} BY AlertOpened
  <2>5. ASSUME NEW j, j # row.item PROVE OpenIn(opened, j) = OpenIn(alerts, j) BY <2>5, AlertOpened
  <2>2. row.item = i OBVIOUS
  <2>3. OpenIn(opened, i) = OpenIn(alerts, i) \cup {Len(alerts) + 1} BY <2>1, <2>2, Zenon
  <2>4. \A j : j # i => OpenIn(opened, j) = OpenIn(alerts, j) BY <2>5, <2>2, Zenon
  <2> QED BY <2>3, <2>4
<1>2. /\ told \in Seq(SmsRow) /\ Told(opened, told)
      /\ \A j : j # i => SentIn(opened, told, j) = SentIn(alerts, sms, j)
      /\ Cardinality(SentIn(opened, told, i))
           = Cardinality(SentIn(alerts, sms, i)) + (IF new.status = Sent THEN 1 ELSE 0)
  BY MessageSent
<1>3. /\ opened \in Seq(AlertRow) /\ n \in Nat /\ DOMAIN alerts = 1..n
      /\ opened[n + 1] = row /\ \A k \in 1..n : opened[k] = alerts[k]
  BY SeqExtended
<1>4. DOMAIN sms = 1..n /\ \A k \in 1..n : sms[k].alert = k BY DEF Told
<1> QED BY <1>1, <1>2, <1>3, <1>4 DEF AlertMade

\* The item's messages and texts grow alike.
LEMMA CountsGrowAlike ==
  ASSUME NEW was \in Nat, NEW more \in Nat, NEW t0 \in Nat, NEW is, NEW t1, is = was + more, t1 = t0 + more
  PROVE  is + t0 = was + t1
OBVIOUS

LEMMA AlertRaised ==
  ASSUME NEW moves \in Seq(MovementRow), NEW alerts \in Seq(AlertRow), NEW sms \in Seq(SmsRow),
         NEW texts \in [Items -> Nat], NEW ok, NEW d, d = Tx(moves, alerts, sms, texts, ok),
         Told(alerts, sms), NEW i \in Items, minimum \in [Items -> Nat],
         OpenIn(alerts, i) = {}, NEW current \in Int, current = Stock(d, i), current <= minimum[i],
         NEW found \in {Low, Out}
  PROVE  Evaluated(d, OpenNew(d, i, current, found), i)
<1> DEFINE n == Len(alerts)
           row == [item |-> i, status |-> OpenAlert, type |-> found,
                   quantity |-> current, threshold |-> minimum[i]]
           st == IF gatewayUp THEN Sent ELSE Failed
           opened == Append(alerts, row)
           new == [alert |-> n + 1, status |-> st]
           told == Append(sms, new)
           more == IF gatewayUp THEN texts[i] + 1 ELSE texts[i]
           counted == Counted(texts, i, more)
           d1 == [d EXCEPT !.alerts = Append(@, row)]
           e == OpenNew(d, i, current, found)
<1>1. d.moves = moves /\ d.alerts = alerts /\ d.sms = sms /\ d.texts = texts /\ d.ok = ok
  BY FieldsOfTx
<1>2. row \in AlertRow BY DEF AlertRow
<1>3. row.item = i /\ row.status = OpenAlert /\ row.quantity = current OBVIOUS
<1>4. st \in {Sent, Failed} /\ (st = Sent <=> gatewayUp) BY NamesDiffer
<1>5. more = texts[i] + (IF st = Sent THEN 1 ELSE 0) BY <1>4
<1>6. e = SendSms(d1, n + 1) BY <1>1 DEF OpenNew
<1>7. /\ counted \in [Items -> Nat] /\ counted[i] = more /\ texts[i] \in Nat
      /\ \A j \in Items : j # i => counted[j] = texts[j]
  BY DEF Counted
<1> HIDE DEF row, st, more, counted
<1>8. d1 = Tx(moves, opened, sms, texts, ok)
  <2>1. d1 = WithAlerts(d, opened) BY <1>1 DEF WithAlerts
  <2> HIDE DEF d1, opened
  <2> QED BY <2>1, AlertsField
<1>9. d1.alerts = opened /\ d1.sms = sms /\ d1.texts = texts BY <1>8, FieldsOfTx
<1>31. AlertMade(alerts, sms, opened, told, row, new, i, n)
  <2>1. Extends(opened, alerts, row) /\ Extends(told, sms, new) /\ n = Len(alerts) BY DEF Extends
  <2>2. n \in Nat OBVIOUS
  <2>3. new \in SmsRow /\ new.alert = n + 1 /\ new.status = st
    <3> HIDE DEF n
    <3> QED BY <2>2, <1>4 DEF SmsRow
  <2> HIDE DEF n, d1, e, opened, told, new
  <2> QED BY <2>1, <2>3, <1>2, <1>3, AlertAndMessage
<1>32. new.status = st OBVIOUS
<1>10. /\ opened \in Seq(AlertRow) /\ told \in Seq(SmsRow) /\ Told(opened, told)
       /\ n \in Nat /\ DOMAIN alerts = 1..n /\ DOMAIN sms = 1..n
       /\ opened[n + 1] = row /\ \A k \in 1..n : opened[k] = alerts[k] /\ sms[k].alert = k
       /\ OpenIn(opened, i) = OpenIn(alerts, i) \cup {n + 1}
       /\ \A j : j # i => OpenIn(opened, j) = OpenIn(alerts, j)
       /\ \A j : j # i => SentIn(opened, told, j) = SentIn(alerts, sms, j)
       /\ Cardinality(SentIn(opened, told, i))
            = Cardinality(SentIn(alerts, sms, i)) + (IF st = Sent THEN 1 ELSE 0)
  <2> HIDE DEF n, d1, e, opened, told, new
  <2> QED BY <1>31, <1>32 DEF AlertMade
<1>11. e = Tx(moves, opened, told, counted, ok)
  <2>1. ~ \E k \in DOMAIN d1.sms : d1.sms[k].alert = n + 1
    <3>1. \A k \in 1..n : k # n + 1 BY <1>10
    <3> HIDE DEF n, d1
    <3> QED BY <3>1, <1>9, <1>10
  <2>2. d1.alerts[n + 1].item = i BY <1>3, <1>9, <1>10
  <2>3. SendSms(d1, n + 1) =
          [d1 EXCEPT !.sms = Append(@, [alert |-> n + 1, status |-> IF gatewayUp THEN Sent ELSE Failed]),
                     !.texts[i] = IF gatewayUp THEN @ + 1 ELSE @]
    <3> HIDE DEF n, d1, opened, told, new
    <3> QED BY <2>1, <2>2 DEF SendSms
  <2>4. SendSms(d1, n + 1) = WithMessage(d1, told, i, more)
    <3> HIDE DEF n, d1, opened
    <3> QED BY <1>9, <2>3 DEF st, more, WithMessage
  <2>5. WithMessage(d1, told, i, more) = Tx(moves, opened, told, counted, ok)
    <3> HIDE DEF n, d1, opened, told, new
    <3> QED BY <1>8, MessageField DEF counted
  <2> HIDE DEF d1, opened, told, new, n, e
  <2> QED BY <1>6, <2>4, <2>5
<1> HIDE DEF opened, told, new, n, d1, e
<1>12. /\ e.alerts = opened /\ e.sms = told /\ e.texts = counted /\ e.moves = moves /\ e.ok = ok
       /\ e = Tx(e.moves, e.alerts, e.sms, e.texts, e.ok)
  BY <1>11, FieldsOfTx
<1>13. ASSUME NEW j \in Items
       PROVE  Cardinality(SentIn(e.alerts, e.sms, j)) + d.texts[j]
                = Cardinality(SentIn(d.alerts, d.sms, j)) + e.texts[j]
  <2> DEFINE was == Cardinality(SentIn(alerts, sms, j))
             is == Cardinality(SentIn(opened, told, j))
  <2>1. was \in Nat /\ texts[j] \in Nat BY SentIsFinite
  <2>2. is + texts[j] = was + counted[j]
    <3>1. CASE j = i
      <4> DEFINE one == IF st = Sent THEN 1 ELSE 0
      <4>1. is = was + one BY <1>10, <3>1
      <4>2. counted[j] = texts[j] + one BY <1>5, <1>7, <3>1
      <4>3. one \in Nat OBVIOUS
      <4> HIDE DEF one, was, is
      <4> QED BY <2>1, <4>1, <4>2, <4>3, CountsGrowAlike
    <3>2. CASE j # i
      <4>1. is = was BY <1>10, <3>2
      <4>2. counted[j] = texts[j] BY <1>7, <3>2
      <4> QED BY <4>1, <4>2
    <3> QED BY <3>1, <3>2
  <2> QED BY <1>1, <1>12, <2>2
<1>14. ASSUME NEW j \in Items, j # i
       PROVE  OpenIn(e.alerts, j) = OpenIn(d.alerts, j) /\ \A a \in OpenIn(d.alerts, j) : e.alerts[a] = d.alerts[a]
  <2>1. OpenIn(opened, j) = OpenIn(alerts, j) BY <1>10, <1>14
  <2>2. \A a \in OpenIn(alerts, j) : a \in 1..n BY <1>10 DEF OpenIn
  <2> QED BY <2>1, <2>2, <1>1, <1>10, <1>12
<1>15. OpenIn(e.alerts, i) = {n + 1} BY <1>10, <1>12
<1>16. e.alerts[n + 1].quantity = current BY <1>3, <1>10, <1>12
<1>17. \A a, b \in OpenIn(e.alerts, i) : a = b BY <1>15
<1>18. OpenIn(e.alerts, i) # {} <=> Stock(d, i) <= minimum[i] BY <1>15
<1>19. \A a \in OpenIn(e.alerts, i) : e.alerts[a].quantity = Stock(d, i) BY <1>15, <1>16
<1>20. IsTransaction(e) BY <1>7, <1>10, <1>12 DEF IsTransaction
<1>21. Told(e.alerts, e.sms) /\ e.moves = d.moves /\ e.ok = d.ok BY <1>1, <1>10, <1>12
<1>22. Evaluated(d, e, i) BY <1>13, <1>14, <1>17, <1>18, <1>19, <1>20, <1>21 DEF Evaluated
<1> QED BY <1>22 DEF e

\* An alert that a movement updates or resolves.
LEMMA UpdatedRow ==
  ASSUME NEW alert \in AlertRow, alert.status = OpenAlert, minimum \in [Items -> Nat],
         NEW current \in Int, NEW found, found # Right => found \in {Low, Out}
  PROVE  /\ Updated(alert, current, found) \in AlertRow
         /\ Updated(alert, current, found).item = alert.item
         /\ Updated(alert, current, found).quantity = current
         /\ Updated(alert, current, found).status = OpenAlert <=> found # Right
<1> DEFINE row == Updated(alert, current, found)
<1>1. alert.item \in Items /\ alert.type \in {Low, Out} /\ alert.threshold \in Nat BY DEF AlertRow
<1>2. alert = [item |-> alert.item, status |-> alert.status, type |-> alert.type,
               quantity |-> alert.quantity, threshold |-> alert.threshold]
  BY DEF AlertRow
<1>3. CASE found = Right
  <2>1. row = [item |-> alert.item, status |-> Resolved, type |-> alert.type,
               quantity |-> current, threshold |-> alert.threshold]
    <3>1. row = [alert EXCEPT !.quantity = current, !.status = Resolved] BY <1>3 DEF Updated
    <3> HIDE DEF row
    <3> QED BY <1>2, <3>1
  <2>2. row \in AlertRow BY <1>1, <2>1 DEF AlertRow
  <2>3. row.item = alert.item /\ row.quantity = current /\ row.status = Resolved BY <2>1
  <2> QED BY <1>3, <2>2, <2>3, NamesDiffer
<1>4. CASE found # Right
  <2>1. row = [item |-> alert.item, status |-> OpenAlert, type |-> found,
               quantity |-> current, threshold |-> minimum[alert.item]]
    <3>1. row = [alert EXCEPT !.quantity = current, !.type = found, !.threshold = minimum[alert.item]]
      BY <1>4 DEF Updated
    <3> HIDE DEF row
    <3> QED BY <1>2, <3>1
  <2>2. minimum[alert.item] \in Nat BY <1>1
  <2>3. row \in AlertRow BY <1>1, <1>4, <2>1, <2>2 DEF AlertRow
  <2>4. row.item = alert.item /\ row.quantity = current /\ row.status = OpenAlert BY <2>1
  <2> QED BY <1>4, <2>3, <2>4
<1> QED BY <1>3, <1>4

LEMMA AlertUpdated ==
  ASSUME NEW moves \in Seq(MovementRow), NEW alerts \in Seq(AlertRow), NEW sms \in Seq(SmsRow),
         NEW texts \in [Items -> Nat], NEW ok, NEW d, d = Tx(moves, alerts, sms, texts, ok),
         Told(alerts, sms), NEW i \in Items, NEW a, OpenIn(alerts, i) = {a},
         NEW row \in AlertRow, row.item = alerts[a].item, row.quantity = Stock(d, i),
         row.status = OpenAlert <=> Stock(d, i) <= minimum[i]
  PROVE  Evaluated(d, WithAlert(d, a, row), i)
<1> DEFINE changed == [alerts EXCEPT ![a] = row]
           e == WithAlert(d, a, row)
<1>1. d.moves = moves /\ d.alerts = alerts /\ d.sms = sms /\ d.texts = texts /\ d.ok = ok
  BY FieldsOfTx
<1>2. a \in DOMAIN alerts /\ alerts[a].item = i BY DEF OpenIn
<1>3. e = Tx(moves, changed, sms, texts, ok) BY AlertField
<1>4. changed \in Seq(AlertRow) /\ changed[a] = row /\ \A k \in DOMAIN alerts : k # a => changed[k] = alerts[k]
  BY <1>2, SeqChanged
<1>5. /\ \A b : b # a => (b \in OpenIn(changed, row.item) <=> b \in OpenIn(alerts, row.item))
      /\ a \in OpenIn(changed, row.item) <=> row.status = OpenAlert
      /\ \A j : j # row.item => OpenIn(changed, j) = OpenIn(alerts, j)
  BY <1>2, AlertChanged
<1>6. Told(changed, sms) /\ \A j : SentIn(changed, sms, j) = SentIn(alerts, sms, j)
  <2>1. Len(alerts) \in Nat /\ DOMAIN alerts = 1..Len(alerts) /\ Len(sms) = Len(alerts) /\ DOMAIN sms = 1..Len(alerts)
    BY DEF Told
  <2>2. Len(changed) = Len(alerts) BY <1>2, SeqChanged
  <2>3. \A k \in DOMAIN alerts : changed[k].item = alerts[k].item BY <1>4
  <2> HIDE DEF changed
  <2>6. \A k \in DOMAIN sms : sms[k].alert = k BY <2>1 DEF Told
  <2>7. \A k \in DOMAIN sms : changed[sms[k].alert].item = alerts[sms[k].alert].item BY <2>1, <2>3, <2>6
  <2>4. \A j : SentIn(changed, sms, j) = SentIn(alerts, sms, j) BY <2>7 DEF SentIn
  <2>5. Told(changed, sms) BY <2>2 DEF Told
  <2> QED BY <2>4, <2>5
<1> HIDE DEF changed, e
<1>7. /\ e.alerts = changed /\ e.sms = sms /\ e.texts = texts /\ e.moves = moves /\ e.ok = ok
      /\ e = Tx(e.moves, e.alerts, e.sms, e.texts, e.ok)
  BY <1>3, FieldsOfTx
<1>8. row.item = i BY <1>2
<1>9. ASSUME NEW j \in Items
      PROVE  Cardinality(SentIn(e.alerts, e.sms, j)) + d.texts[j]
               = Cardinality(SentIn(d.alerts, d.sms, j)) + e.texts[j]
  <2>1. SentIn(e.alerts, e.sms, j) = SentIn(d.alerts, d.sms, j) BY <1>1, <1>6, <1>7
  <2>2. d.texts[j] = e.texts[j] BY <1>1, <1>7
  <2> QED BY <2>1, <2>2
<1>10. ASSUME NEW j \in Items, j # i
       PROVE  OpenIn(e.alerts, j) = OpenIn(d.alerts, j) /\ \A b \in OpenIn(d.alerts, j) : e.alerts[b] = d.alerts[b]
  <2>1. OpenIn(changed, j) = OpenIn(alerts, j) BY <1>5, <1>8, <1>10
  <2>2. \A b \in OpenIn(alerts, j) : b \in DOMAIN alerts /\ b # a BY <1>2, <1>10 DEF OpenIn
  <2>3. \A b \in OpenIn(alerts, j) : changed[b] = alerts[b] BY <1>4, <2>2
  <2> QED BY <2>1, <2>3, <1>1, <1>7
<1>11. \A b \in OpenIn(changed, i) : b = a BY <1>5, <1>8
<1>12. a \in OpenIn(changed, i) <=> Stock(d, i) <= minimum[i] BY <1>5, <1>8
<1>13. \A b, c \in OpenIn(e.alerts, i) : b = c BY <1>7, <1>11
<1>14. OpenIn(e.alerts, i) # {} <=> Stock(d, i) <= minimum[i] BY <1>7, <1>11, <1>12
<1>15. \A b \in OpenIn(e.alerts, i) : e.alerts[b].quantity = Stock(d, i) BY <1>4, <1>7, <1>11
<1>16. IsTransaction(e) BY <1>4, <1>7 DEF IsTransaction
<1>17. Told(e.alerts, e.sms) /\ e.moves = d.moves /\ e.ok = d.ok BY <1>1, <1>6, <1>7
<1>18. Evaluated(d, e, i) BY <1>9, <1>10, <1>13, <1>14, <1>15, <1>16, <1>17 DEF Evaluated
<1> QED BY <1>18 DEF e

LEMMA MinOfOne == ASSUME NEW a \in Nat PROVE Min({a}) = a
<1>1. Min({a}) = CHOOSE m \in {a} : \A k \in {a} : m <= k BY DEF Min
<1> QED BY <1>1

\* What evaluate_stock_alert does, in every case.
LEMMA EvaluateWorks ==
  ASSUME NEW d, IsTransaction(d), Told(d.alerts, d.sms), NEW i \in Items, minimum \in [Items -> Nat],
         \A a, b \in OpenIn(d.alerts, i) : a = b
  PROVE  Evaluated(d, Evaluate(d, i), i)
<1> DEFINE moves == d.moves  alerts == d.alerts  sms == d.sms  texts == d.texts  ok == d.ok
           current == Stock(d, i)
           found == StockStatus(current, minimum[i])
           e == Evaluate(d, i)
<1>1. /\ d = Tx(moves, alerts, sms, texts, ok) /\ moves \in Seq(MovementRow) /\ alerts \in Seq(AlertRow)
      /\ sms \in Seq(SmsRow) /\ texts \in [Items -> Nat]
  BY DEF IsTransaction
<1>2. current \in Int BY <1>1, StockIsInt
<1>3. minimum[i] \in Nat OBVIOUS
<1>4. /\ found = Right => ~(current <= minimum[i])
      /\ found # Right => current <= minimum[i] /\ found \in {Low, Out}
  <2> HIDE DEF current
  <2> QED BY <1>2, <1>3, StatusOfStock
<1>5. OpenAlertsOf(d, i) = OpenIn(alerts, i) BY DEF OpenAlertsOf, OpenIn
<1>6. e = IF OpenIn(alerts, i) = {} THEN IF found = Right THEN d ELSE OpenNew(d, i, current, found)
          ELSE [d EXCEPT !.alerts[Min(OpenIn(alerts, i))] = Updated(@, current, found)]
  BY <1>5 DEF Evaluate
<1>7. CASE OpenIn(alerts, i) = {} /\ found = Right
  <2>1. e = d BY <1>6, <1>7
  <2>2. ~(current <= minimum[i]) BY <1>4, <1>7
  <2>3. Evaluated(d, d, i) BY <1>7, <2>2 DEF Evaluated
  <2> HIDE DEF e
  <2>4. Evaluated(d, e, i) BY <2>1, <2>3
  <2> QED BY <2>4 DEF e
<1>8. CASE OpenIn(alerts, i) = {} /\ found # Right
  <2>1. e = OpenNew(d, i, current, found) BY <1>6, <1>8
  <2>2. current <= minimum[i] /\ found \in {Low, Out} BY <1>4, <1>8
  <2>3. current = Stock(d, i) OBVIOUS
  <2> HIDE DEF moves, alerts, sms, texts, ok, current, found, e
  <2>4. Told(alerts, sms) BY DEF alerts, sms
  <2>5. OpenIn(alerts, i) = {} BY <1>8
  <2>6. Evaluated(d, OpenNew(d, i, current, found), i)
    BY <1>1, <1>2, <2>2, <2>3, <2>4, <2>5, AlertRaised
  <2>7. Evaluated(d, e, i) BY <2>1, <2>6
  <2> QED BY <2>7 DEF e
<1>9. CASE OpenIn(alerts, i) # {}
  <2>1. PICK a : OpenIn(alerts, i) = {a} BY <1>9
  <2>2. a \in DOMAIN alerts /\ alerts[a].item = i /\ alerts[a].status = OpenAlert BY <2>1 DEF OpenIn
  <2>3. alerts[a] \in AlertRow BY <1>1, <2>2
  <2>12. a \in Nat BY <1>1, <2>2
  <2> DEFINE row == Updated(alerts[a], current, found)
  <2>4. e = WithAlert(d, a, row) BY <1>6, <1>9, <2>1, <2>12, MinOfOne DEF WithAlert
  <2>5. current = Stock(d, i) OBVIOUS
  <2> HIDE DEF moves, alerts, sms, texts, ok, current, found, e
  <2>6. /\ row \in AlertRow /\ row.item = alerts[a].item /\ row.quantity = current
        /\ row.status = OpenAlert <=> found # Right
    BY <1>2, <1>4, <2>2, <2>3, UpdatedRow
  <2>7. Told(alerts, sms) BY DEF alerts, sms
  <2> HIDE DEF row
  <2>8. row.status = OpenAlert <=> Stock(d, i) <= minimum[i] BY <1>4, <2>5, <2>6
  <2>9. row.quantity = Stock(d, i) BY <2>5, <2>6
  <2>10. Evaluated(d, WithAlert(d, a, row), i)
    BY <1>1, <2>1, <2>6, <2>7, <2>8, <2>9, AlertUpdated
  <2>11. Evaluated(d, e, i) BY <2>4, <2>10
  <2> QED BY <2>11 DEF e
<1> QED BY <1>7, <1>8, <1>9
-----------------------------------------------------------------------------
(* One movement of a transaction.                                          *)

RowOf(m) == [item |-> m.item, type |-> m.type, source |-> m.source, of |-> m.of,
             signed |-> m.quantity * Sign[m.type]]

\* The minimum an item was last compared with, as d stands.
JudgedIn(d, i) ==
    IF \E k \in (Len(db.moves) + 1)..Len(d.moves) : d.moves[k].item = i THEN minimum[i] ELSE judged[i]

Used(d, i) == \E k \in DOMAIN d.moves : d.moves[k].item = i

AlertRight(d, i, least) ==
    /\ \A a, b \in OpenIn(d.alerts, i) : a = b
    /\ OpenIn(d.alerts, i) # {} <=> Used(d, i) /\ Stock(d, i) <= least
    /\ \A a \in OpenIn(d.alerts, i) : d.alerts[a].quantity = Stock(d, i)

\* What holds of the tables at every point of a transaction.
Sound(d) ==
    /\ IsTransaction(d) /\ Told(d.alerts, d.sms)
    /\ Len(db.moves) <= Len(d.moves) /\ \A k \in 1..Len(db.moves) : d.moves[k] = db.moves[k]
    /\ \A i \in Items : Cardinality(SentIn(d.alerts, d.sms, i))
                          = Cardinality(SentIn(db.alerts, db.sms, i)) + d.texts[i]
    /\ \A i \in Items : AlertRight(d, i, JudgedIn(d, i))

LEMMA SignIsInt == \A y \in DOMAIN Sign : Sign[y] \in Int
BY DEF Sign

LEMMA RowIsMovement ==
  ASSUME NEW m \in MoveRows
  PROVE  RowOf(m) \in MovementRow /\ RowOf(m).item = m.item
<1> DEFINE q == m.quantity
           s == Sign[m.type]
<1>1. m.item \in Items /\ m.type \in DOMAIN Sign /\ m.of \in Nat /\ q \in Int
      /\ m.source \in {TicketLine, VariantOption, ReceiptLine, Manual}
  BY DEF MoveRows
<1>2. s \in Int BY <1>1, SignIsInt
<1> HIDE DEF q, s
<1>3. q * s \in Int BY <1>1, <1>2
<1>4. RowOf(m) = [item |-> m.item, type |-> m.type, source |-> m.source, of |-> m.of, signed |-> q * s]
  BY DEF RowOf, q, s
<1> QED BY <1>1, <1>3, <1>4 DEF MovementRow

LEMMA SameStock ==
  ASSUME NEW d, NEW e, NEW i, d.moves = e.moves PROVE Stock(d, i) = Stock(e, i)
BY DEF Stock

\* A movement of one item is none of another.
LEMMA StockOfOther ==
  ASSUME NEW d, NEW e, d.moves \in Seq(MovementRow), NEW row \in MovementRow,
         Extends(e.moves, d.moves, row), NEW j, row.item # j
  PROVE  Stock(e, j) = Stock(d, j) /\ (Used(e, j) <=> Used(d, j))
<1> DEFINE n == Len(d.moves)
           f == [k \in DOMAIN d.moves |-> IF d.moves[k].item = j THEN d.moves[k].signed ELSE 0]
           g == [k \in DOMAIN e.moves |-> IF e.moves[k].item = j THEN e.moves[k].signed ELSE 0]
<1>1. /\ e.moves \in Seq(MovementRow) /\ n \in Nat /\ DOMAIN d.moves = 1..n /\ DOMAIN e.moves = 1..(n + 1)
      /\ e.moves[n + 1] = row /\ \A k \in 1..n : e.moves[k] = d.moves[k]
  BY SeqExtended
<1> HIDE DEF n
<1>2. \A k \in 1..(n + 1) : k \in 1..n \/ k = n + 1 BY <1>1
<1>3. 1..n \subseteq 1..(n + 1) /\ n + 1 \in 1..(n + 1) BY <1>1
<1>4. Used(e, j) <=> Used(d, j) BY <1>1, <1>2, <1>3 DEF Used
<1>5. DOMAIN f = 1..n /\ DOMAIN g = 1..(n + 1) BY <1>1
<1>6. \A k \in 1..n : f[k] = g[k] BY <1>1, <1>3
<1>7. g[n + 1] = 0 BY <1>1, <1>3
<1>8. ASSUME NEW k \in 1..(n + 1) PROVE g[k] \in Int
  <2> DEFINE x == e.moves[k].signed
  <2>1. e.moves[k] \in MovementRow BY <1>1
  <2>2. x \in Int BY <2>1 DEF MovementRow
  <2>3. g[k] = IF e.moves[k].item = j THEN x ELSE 0 BY <1>1
  <2> HIDE DEF x, g
  <2> QED BY <2>2, <2>3
<1>9. Stock(d, j) = Total(f) /\ Stock(e, j) = Total(g) BY DEF Stock
<1> HIDE DEF f, g
<1>10. Total(g) = Total(f) + g[n + 1] BY <1>1, <1>5, <1>6, <1>8, TotalOfMore
<1>11. Total(f) \in Int BY <1>1, <1>5, <1>6, <1>8, TotalOfMore
<1>12. Total(g) = Total(f) BY <1>7, <1>10, <1>11
<1> QED BY <1>4, <1>9, <1>12

\* A movement and the evaluation of its item keep the tables sound.
LEMMA EvaluatedIsSound ==
  ASSUME NEW d, Sound(d), NEW i \in Items, NEW row \in MovementRow, row.item = i,
         NEW e0, Extends(e0.moves, d.moves, row), e0.alerts = d.alerts, e0.sms = d.sms, e0.texts = d.texts,
         NEW e, Evaluated(e0, e, i), db.moves \in Seq(MovementRow), db.sms \in Seq(SmsRow),
         NEW x, x = Len(db.moves)
  PROVE  Sound(e)
<1> DEFINE n == Len(d.moves)
<1>0. x \in Nat /\ d.moves \in Seq(MovementRow) BY DEF Sound, IsTransaction
<1>1. /\ n \in Nat /\ DOMAIN d.moves = 1..n /\ DOMAIN e0.moves = 1..(n + 1) /\ Len(e0.moves) = n + 1
      /\ e0.moves[n + 1] = row /\ \A k \in 1..n : e0.moves[k] = d.moves[k]
  BY <1>0, SeqExtended
<1>2. e.moves = e0.moves /\ IsTransaction(e) /\ Told(e.alerts, e.sms) BY DEF Evaluated
<1>3. x <= n /\ \A k \in 1..x : d.moves[k] = db.moves[k] BY DEF Sound
<1> HIDE DEF n
<1>4. x <= Len(e.moves) /\ \A k \in 1..x : e.moves[k] = db.moves[k]
  <2>1. \A k \in 1..x : k \in 1..n BY <1>0, <1>1, <1>3
  <2>2. x <= n + 1 BY <1>0, <1>1, <1>3
  <2> QED BY <1>1, <1>2, <1>3, <2>1, <2>2
<1>5. ASSUME NEW j \in Items
      PROVE  Cardinality(SentIn(e.alerts, e.sms, j)) = Cardinality(SentIn(db.alerts, db.sms, j)) + e.texts[j]
  <2> DEFINE is == Cardinality(SentIn(e.alerts, e.sms, j))
             was == Cardinality(SentIn(d.alerts, d.sms, j))
             first == Cardinality(SentIn(db.alerts, db.sms, j))
             t0 == d.texts[j]
             t1 == e.texts[j]
  <2>1. is + t0 = was + t1 BY DEF Evaluated
  <2>2. was = first + t0 BY DEF Sound
  <2>3. t0 \in Nat /\ t1 \in Nat BY <1>2 DEF Sound, IsTransaction
  <2>4. is \in Nat /\ was \in Nat BY <1>2, SentIsFinite DEF Sound, IsTransaction
  <2>5. first \in Nat BY SentIsFinite
  <2> HIDE DEF is, was, first, t0, t1
  <2>6. is = first + t1 BY <2>1, <2>2, <2>3, <2>4, <2>5
  <2> QED BY <2>6 DEF is, first, t1
<1>6. AlertRight(e, i, JudgedIn(e, i))
  <2>1. n + 1 \in (x + 1)..Len(e.moves) /\ e.moves[n + 1].item = i BY <1>0, <1>1, <1>2, <1>3
  <2>2. JudgedIn(e, i) = minimum[i] BY <2>1 DEF JudgedIn
  <2>3. Used(e, i) BY <1>1, <1>2 DEF Used
  <2>4. Stock(e, i) = Stock(e0, i) BY <1>2, SameStock
  <2>5. OpenIn(e.alerts, i) # {} <=> Stock(e0, i) <= minimum[i] BY DEF Evaluated
  <2>6. \A a, b \in OpenIn(e.alerts, i) : a = b BY DEF Evaluated
  <2>7. \A a \in OpenIn(e.alerts, i) : e.alerts[a].quantity = Stock(e0, i) BY DEF Evaluated
  <2>8. OpenIn(e.alerts, i) # {} <=> Used(e, i) /\ Stock(e, i) <= JudgedIn(e, i) BY <2>2, <2>3, <2>4, <2>5
  <2> QED BY <2>4, <2>6, <2>7, <2>8 DEF AlertRight
<1>7. ASSUME NEW j \in Items, j # i PROVE AlertRight(e, j, JudgedIn(e, j))
  <2>1. AlertRight(d, j, JudgedIn(d, j)) BY DEF Sound
  <2>2. Stock(e0, j) = Stock(d, j) /\ (Used(e0, j) <=> Used(d, j)) BY <1>0, <1>7, StockOfOther
  <2>3. Stock(e, j) = Stock(d, j) /\ (Used(e, j) <=> Used(d, j))
    <3>1. Stock(e, j) = Stock(e0, j) BY <1>2, SameStock
    <3>2. Used(e, j) <=> Used(e0, j) BY <1>2 DEF Used
    <3> QED BY <2>2, <3>1, <3>2
  <2>4. JudgedIn(e, j) = JudgedIn(d, j)
    <3>1. \A k \in (x + 1)..(n + 1) : k \in (x + 1)..n \/ k = n + 1 BY <1>0, <1>1
    <3>2. (x + 1)..n \subseteq (x + 1)..(n + 1) BY <1>0, <1>1
    <3>3. (x + 1)..n \subseteq 1..n BY <1>0, <1>1
    <3>4. (\E k \in (x + 1)..(n + 1) : e.moves[k].item = j) <=> (\E k \in (x + 1)..n : d.moves[k].item = j)
      BY <3>1, <3>2, <3>3, <1>1, <1>2, <1>7
    <3>5. Len(e.moves) = n + 1 BY <1>1, <1>2
    <3>6. JudgedIn(e, j) = IF \E k \in (x + 1)..(n + 1) : e.moves[k].item = j THEN minimum[j] ELSE judged[j]
      BY <3>5 DEF JudgedIn
    <3>7. JudgedIn(d, j) = IF \E k \in (x + 1)..n : d.moves[k].item = j THEN minimum[j] ELSE judged[j]
      BY DEF JudgedIn, n
    <3>8. CASE \E k \in (x + 1)..n : d.moves[k].item = j BY <3>4, <3>6, <3>7, <3>8
    <3>9. CASE ~ \E k \in (x + 1)..n : d.moves[k].item = j
      <4>1. JudgedIn(d, j) = judged[j] BY <3>7, <3>9
      <4>2. JudgedIn(e, j) = judged[j] BY <3>4, <3>6, <3>9
      <4> QED BY <4>1, <4>2
    <3> QED BY <3>8, <3>9
  <2>5. OpenIn(e.alerts, j) = OpenIn(d.alerts, j) /\ \A a \in OpenIn(d.alerts, j) : e.alerts[a] = d.alerts[a]
    BY <1>7 DEF Evaluated
  <2>6. \A a, b \in OpenIn(e.alerts, j) : a = b BY <2>1, <2>5 DEF AlertRight
  <2>7. OpenIn(e.alerts, j) # {} <=> Used(e, j) /\ Stock(e, j) <= JudgedIn(e, j)
    BY <2>1, <2>3, <2>4, <2>5 DEF AlertRight
  <2>8. \A a \in OpenIn(e.alerts, j) : e.alerts[a].quantity = Stock(e, j) BY <2>1, <2>3, <2>5 DEF AlertRight
  <2> QED BY <2>6, <2>7, <2>8 DEF AlertRight
<1>8. \A j \in Items : AlertRight(e, j, JudgedIn(e, j)) BY <1>6, <1>7
<1> QED BY <1>2, <1>4, <1>5, <1>8 DEF Sound

\* Giving up changes no table.
LEMMA GivingUpIsSound ==
  ASSUME NEW d, Sound(d), NEW x
  PROVE  Sound(WithOk(d, x)) /\ WithOk(d, x).ok = x
<1> DEFINE e == WithOk(d, x)
<1>1. IsTransaction(d) BY DEF Sound
<1>2. e = Tx(d.moves, d.alerts, d.sms, d.texts, x)
  <2>1. d = Tx(d.moves, d.alerts, d.sms, d.texts, d.ok) BY <1>1 DEF IsTransaction
  <2>2. WithOk(Tx(d.moves, d.alerts, d.sms, d.texts, d.ok), x) = Tx(d.moves, d.alerts, d.sms, d.texts, x)
    BY OkField
  <2> QED BY <2>1, <2>2, Zenon
<1> HIDE DEF e
<1>3. /\ e.moves = d.moves /\ e.alerts = d.alerts /\ e.sms = d.sms /\ e.texts = d.texts /\ e.ok = x
      /\ e = Tx(e.moves, e.alerts, e.sms, e.texts, e.ok)
  BY <1>2, FieldsOfTx
<1>4. IsTransaction(e) BY <1>1, <1>3 DEF IsTransaction
<1>5. ASSUME NEW i \in Items PROVE AlertRight(e, i, JudgedIn(e, i))
  <2>1. AlertRight(d, i, JudgedIn(d, i)) BY DEF Sound
  <2>2. JudgedIn(e, i) = JudgedIn(d, i) BY <1>3 DEF JudgedIn
  <2>3. Stock(e, i) = Stock(d, i) BY <1>3, SameStock
  <2>4. Used(e, i) <=> Used(d, i) BY <1>3 DEF Used
  <2> QED BY <1>3, <2>1, <2>2, <2>3, <2>4 DEF AlertRight
<1>6. Sound(e) BY <1>3, <1>4, <1>5 DEF Sound
<1> QED BY <1>3, <1>6 DEF e

\* create_inventory_movement either gives the call up or enters its row.
Entered(d, e, m) == m # Broken /\ m \in MoveRows /\ m.quantity > 0 /\ Extends(e.moves, d.moves, RowOf(m))

TypedTables == db.moves \in Seq(MovementRow) /\ db.sms \in Seq(SmsRow) /\ minimum \in [Items -> Nat]

LEMMA MoveWorks ==
  ASSUME NEW d, Sound(d), NEW m \in MoveRows \cup {Broken}, TypedTables
  PROVE  Sound(Move(d, m)) /\ (Move(d, m).ok => d.ok /\ Entered(d, Move(d, m), m))
<1>1. CASE ~d.ok
  <2>1. Move(d, m) = d BY <1>1 DEF Move
  <2> QED BY <1>1, <2>1
<1>2. CASE d.ok /\ (m = Broken \/ m.item \notin active \/ m.quantity <= 0)
  <2>1. Move(d, m) = WithOk(d, FALSE) BY <1>2 DEF Move, WithOk
  <2>2. Sound(WithOk(d, FALSE)) /\ WithOk(d, FALSE).ok = FALSE BY GivingUpIsSound
  <2> QED BY <2>1, <2>2
<1>3. CASE d.ok /\ m # Broken /\ m.item \in active /\ ~(m.quantity <= 0)
  <2> DEFINE row == RowOf(m)
             longer == Append(d.moves, row)
             e0 == WithMoves(d, longer)
             e == Move(d, m)
  <2>1. m \in MoveRows BY <1>3
  <2>2. row \in MovementRow /\ row.item = m.item BY <2>1, RowIsMovement
  <2>3. m.item \in Items /\ m.quantity \in Int BY <2>1 DEF MoveRows
  <2>4. e = Evaluate(e0, m.item) BY <1>3 DEF Move, WithMoves, RowOf
  <2>5. IsTransaction(d) /\ Told(d.alerts, d.sms) BY DEF Sound
  <2> HIDE DEF row
  <2>6. e0 = Tx(longer, d.alerts, d.sms, d.texts, d.ok)
    <3>1. d = Tx(d.moves, d.alerts, d.sms, d.texts, d.ok) BY <2>5 DEF IsTransaction
    <3>2. \A x : WithMoves(Tx(d.moves, d.alerts, d.sms, d.texts, d.ok), x) = Tx(x, d.alerts, d.sms, d.texts, d.ok)
      BY MovesField
    <3> QED BY <3>1, <3>2, Zenon
  <2> HIDE DEF e0, e, longer
  <2>7. /\ e0.moves = longer /\ e0.alerts = d.alerts /\ e0.sms = d.sms /\ e0.texts = d.texts
        /\ e0 = Tx(e0.moves, e0.alerts, e0.sms, e0.texts, e0.ok)
    BY <2>6, FieldsOfTx
  <2>8. Extends(e0.moves, d.moves, row) BY <2>7 DEF Extends, longer
  <2>9. e0.moves \in Seq(MovementRow) BY <2>2, <2>5, <2>8, SeqExtended DEF IsTransaction
  <2>10. IsTransaction(e0) BY <2>5, <2>7, <2>9 DEF IsTransaction
  <2>11. \A a, b \in OpenIn(d.alerts, m.item) : a = b BY <2>3 DEF Sound, AlertRight
  <2>12. Evaluated(e0, e, m.item)
    <3>1. \A a, b \in OpenIn(e0.alerts, m.item) : a = b BY <2>7, <2>11
    <3>2. Told(e0.alerts, e0.sms) BY <2>5, <2>7
    <3>3. minimum \in [Items -> Nat] BY DEF TypedTables
    <3> QED BY <2>3, <2>4, <2>10, <3>1, <3>2, <3>3, EvaluateWorks
  <2>13. Sound(e)
    <3>1. db.moves \in Seq(MovementRow) /\ db.sms \in Seq(SmsRow) BY DEF TypedTables
    <3>2. e0.alerts = d.alerts /\ e0.sms = d.sms /\ e0.texts = d.texts BY <2>7
    <3> QED BY <2>2, <2>3, <2>8, <2>12, <3>1, <3>2, EvaluatedIsSound
  <2>14. Entered(d, e, m)
    <3>1. m.quantity > 0 BY <1>3, <2>3
    <3>2. Extends(e.moves, d.moves, row) BY <2>8, <2>12 DEF Evaluated
    <3> QED BY <1>3, <2>1, <3>1, <3>2 DEF Entered, row
  <2> QED BY <1>3, <2>13, <2>14 DEF e
<1> QED BY <1>1, <1>2, <1>3

\* After some of the movements of a call, unless it was given up, the ledger
\* holds their rows after those it held.
Continues(d, movements, n) ==
    /\ Len(d.moves) = Len(db.moves) + n
    /\ \A k \in 1..n : /\ movements[k] # Broken /\ movements[k] \in MoveRows /\ movements[k].quantity > 0
                       /\ d.moves[Len(db.moves) + k] = RowOf(movements[k])

LEMMA ContinuesByOne ==
  ASSUME NEW d, NEW e, Sound(d), TypedTables, NEW movements, NEW n \in Nat, Continues(d, movements, n),
         Entered(d, e, movements[n + 1])
  PROVE  Continues(e, movements, n + 1)
<1> DEFINE x == Len(db.moves)
           m == movements[n + 1]
<1>1. d.moves \in Seq(MovementRow) /\ x \in Nat BY DEF Sound, IsTransaction, TypedTables
<1>2. Len(d.moves) = x + n BY DEF Continues
<1>3. RowOf(m) \in MovementRow /\ Extends(e.moves, d.moves, RowOf(m)) BY RowIsMovement DEF Entered
<1>4. /\ Len(e.moves) = Len(d.moves) + 1 /\ e.moves[Len(d.moves) + 1] = RowOf(m)
      /\ \A k \in 1..Len(d.moves) : e.moves[k] = d.moves[k]
  BY <1>1, <1>3, SeqExtended
<1> HIDE DEF x
<1>5. Len(e.moves) = x + (n + 1) BY <1>1, <1>2, <1>4
<1>6. e.moves[x + (n + 1)] = RowOf(m) BY <1>1, <1>2, <1>4
<1>7. ASSUME NEW k \in 1..n PROVE e.moves[x + k] = d.moves[x + k]
  <2>1. x + k \in 1..Len(d.moves) BY <1>1, <1>2
  <2> QED BY <1>4, <2>1
<1>8. ASSUME NEW k \in 1..(n + 1)
      PROVE  /\ movements[k] # Broken /\ movements[k] \in MoveRows /\ movements[k].quantity > 0
             /\ e.moves[x + k] = RowOf(movements[k])
  <2>1. CASE k \in 1..n BY <2>1, <1>7 DEF Continues, x
  <2>2. CASE k = n + 1 BY <2>2, <1>6 DEF Entered
  <2> QED BY <2>1, <2>2
<1> QED BY <1>5, <1>8 DEF Continues, x

\* A call leaves sound tables wherever it stops, and its rows when it is not
\* given up.
LEMMA ApplyWorks ==
  ASSUME Sound(Begun), TypedTables, NEW movements \in Seq(MoveRows \cup {Broken})
  PROVE  /\ Sound(Apply(movements))
         /\ Apply(movements).ok => Continues(Apply(movements), movements, Len(movements))
<1> DEFINE n == Len(movements)
<1>1. n \in Nat /\ \A k \in 1..n : movements[k] \in MoveRows \cup {Broken} BY SeqFacts
<1>2. PICK h : IsRun(movements, h) BY ApplyRuns
<1>3. h[0] = Begun /\ h[n] = Apply(movements) BY <1>2 DEF IsRun
<1>4. \A j \in 1..n : h[j] = Move(h[j - 1], movements[j]) BY <1>2 DEF IsRun
<1> HIDE DEF n
<1> DEFINE Good(j) == Sound(h[j]) /\ (h[j].ok => Continues(h[j], movements, j))
           Bad == {j \in Nat : j <= n /\ ~Good(j)}
<1>5. Good(0)
  <2>1. Begun.moves = db.moves BY DEF Begun
  <2>2. Len(db.moves) \in Nat BY DEF TypedTables
  <2>3. Continues(Begun, movements, 0) BY <2>1, <2>2 DEF Continues
  <2> QED BY <1>3, <2>3
<1>6. ASSUME NEW j \in 1..n, Good(j - 1) PROVE Good(j)
  <2>1. j - 1 \in Nat /\ (j - 1) + 1 = j BY <1>1
  <2>2. Sound(h[j - 1]) BY <1>6
  <2>3. h[j - 1].ok => Continues(h[j - 1], movements, j - 1) BY <1>6
  <2>4. h[j] = Move(h[j - 1], movements[j]) BY <1>4
  <2>5. movements[j] \in MoveRows \cup {Broken} BY <1>1
  <2>6. Sound(h[j]) BY <2>2, <2>4, <2>5, MoveWorks
  <2>7. h[j].ok => h[j - 1].ok /\ Entered(h[j - 1], h[j], movements[j]) BY <2>2, <2>4, <2>5, MoveWorks
  <2>8. ASSUME h[j].ok PROVE Continues(h[j], movements, j)
    <3>1. Continues(h[j - 1], movements, j - 1) BY <2>3, <2>7, <2>8
    <3>2. Entered(h[j - 1], h[j], movements[(j - 1) + 1]) BY <2>1, <2>7, <2>8
    <3>3. Continues(h[j], movements, (j - 1) + 1) BY <2>1, <2>2, <3>1, <3>2, ContinuesByOne
    <3> QED BY <2>1, <3>3
  <2> QED BY <2>6, <2>8
<1>7. Bad = {}
  <2> SUFFICES ASSUME Bad # {} PROVE FALSE OBVIOUS
  <2>1. PICK j \in Bad : \A k \in Bad : j <= k BY LeastNatural
  <2>2. j \in Nat /\ j <= n /\ ~Good(j) OBVIOUS
  <2> HIDE DEF Good
  <2>3. j # 0 BY <1>5, <2>2
  <2>4. j - 1 \in Nat /\ j - 1 <= n /\ j \in 1..n BY <1>1, <2>2, <2>3
  <2>5. j - 1 \notin Bad
    <3> HIDE DEF Bad
    <3> QED BY <2>1, <2>4
  <2>6. Good(j - 1) BY <2>4, <2>5
  <2> QED BY <1>6, <2>2, <2>4, <2>6
<1>8. Good(n)
  <2> HIDE DEF Good
  <2> QED BY <1>1, <1>7
<1> QED BY <1>3, <1>8 DEF n
-----------------------------------------------------------------------------
(* The tables that are committed.                                          *)

TablesInv ==
    /\ db.moves \in Seq(MovementRow) /\ db.alerts \in Seq(AlertRow) /\ db.sms \in Seq(SmsRow)
    /\ db.receipts \in Seq(ReceiptRow)
    /\ texted \in [Items -> Nat] /\ lost \in [Items -> Nat] /\ judged \in [Items -> Nat]
    /\ Told(db.alerts, db.sms)
    /\ \A i \in Items : texted[i] = lost[i] + Cardinality(SentIn(db.alerts, db.sms, i))
    /\ \A i \in Items : AlertRight(db, i, judged[i])

LEMMA BegunIsSound ==
  ASSUME TablesInv
  PROVE  Sound(Begun)
<1> DEFINE none == [i \in Items |-> 0]
           ok == TRUE
<1>1. Begun = Tx(db.moves, db.alerts, db.sms, none, ok) BY DEF Begun, Tx
<1>2. /\ Begun.moves = db.moves /\ Begun.alerts = db.alerts /\ Begun.sms = db.sms /\ Begun.texts = none
      /\ Begun = Tx(Begun.moves, Begun.alerts, Begun.sms, Begun.texts, Begun.ok)
  <2> HIDE DEF none, ok
  <2> QED BY <1>1, FieldsOfTx
<1>3. IsTransaction(Begun) BY <1>2 DEF IsTransaction, TablesInv
<1>4. ASSUME NEW i \in Items
      PROVE  Cardinality(SentIn(Begun.alerts, Begun.sms, i))
               = Cardinality(SentIn(db.alerts, db.sms, i)) + Begun.texts[i]
  <2> DEFINE n == Cardinality(SentIn(db.alerts, db.sms, i))
  <2>1. n \in Nat BY SentIsFinite DEF TablesInv
  <2>2. Begun.texts[i] = 0 BY <1>2
  <2>3. n = n + 0 BY <2>1
  <2> QED BY <1>2, <2>2, <2>3
<1>5. ASSUME NEW i \in Items PROVE AlertRight(Begun, i, JudgedIn(Begun, i))
  <2>1. Len(db.moves) \in Nat BY DEF TablesInv
  <2>2. (Len(db.moves) + 1)..Len(Begun.moves) = {} BY <1>2, <2>1
  <2>3. JudgedIn(Begun, i) = judged[i] BY <2>2 DEF JudgedIn
  <2>4. Stock(Begun, i) = Stock(db, i) BY <1>2, SameStock
  <2>5. Used(Begun, i) <=> Used(db, i) BY <1>2 DEF Used
  <2>6. AlertRight(db, i, judged[i]) BY DEF TablesInv
  <2> QED BY <1>2, <2>3, <2>4, <2>5, <2>6 DEF AlertRight
<1>6. Told(Begun.alerts, Begun.sms) BY <1>2 DEF TablesInv
<1>7. Len(db.moves) \in Nat BY DEF TablesInv
<1>8. Len(db.moves) <= Len(Begun.moves) /\ \A k \in 1..Len(db.moves) : Begun.moves[k] = db.moves[k]
  BY <1>2, <1>7
<1> QED BY <1>3, <1>4, <1>5, <1>6, <1>8 DEF Sound

LEMMA CommitKeeps ==
  ASSUME TablesInv, NEW d, Sound(d), minimum \in [Items -> Nat],
         NEW receipts \in Seq(ReceiptRow), Commit(d, receipts)
  PROVE  TablesInv'
<1>1. /\ db' = [moves |-> d.moves, alerts |-> d.alerts, sms |-> d.sms, receipts |-> receipts]
      /\ texted' = Plus(texted, d.texts) /\ lost' = lost
      /\ judged' = [i \in Items |->
            IF \E k \in (Len(db.moves) + 1)..Len(d.moves) : d.moves[k].item = i THEN minimum[i] ELSE judged[i]]
  BY DEF Commit
<1>2. db'.moves = d.moves /\ db'.alerts = d.alerts /\ db'.sms = d.sms /\ db'.receipts = receipts BY <1>1
<1>3. /\ d.moves \in Seq(MovementRow) /\ d.alerts \in Seq(AlertRow) /\ d.sms \in Seq(SmsRow)
      /\ d.texts \in [Items -> Nat] /\ Told(d.alerts, d.sms)
  BY DEF Sound, IsTransaction
<1>4. /\ (db.moves \in Seq(MovementRow))' /\ (db.alerts \in Seq(AlertRow))' /\ (db.sms \in Seq(SmsRow))'
      /\ (db.receipts \in Seq(ReceiptRow))' /\ Told(db.alerts, db.sms)'
  BY <1>2, <1>3
<1>5. texted \in [Items -> Nat] /\ lost \in [Items -> Nat] /\ judged \in [Items -> Nat] BY DEF TablesInv
<1>6. texted' \in [Items -> Nat] /\ \A i \in Items : texted'[i] = texted[i] + d.texts[i]
  BY <1>1, <1>3, <1>5 DEF Plus
<1>7. \A i \in Items : judged'[i] = JudgedIn(d, i) BY <1>1 DEF JudgedIn
<1>8. judged' \in [Items -> Nat] BY <1>1, <1>5
<1>9. ASSUME NEW i \in Items PROVE (texted[i] = lost[i] + Cardinality(SentIn(db.alerts, db.sms, i)))'
  <2> DEFINE n == Cardinality(SentIn(db.alerts, db.sms, i))
             was == texted[i]
             out == lost[i]
             more == d.texts[i]
  <2>1. n \in Nat BY SentIsFinite DEF TablesInv
  <2>2. was = out + n /\ was \in Nat /\ out \in Nat /\ more \in Nat BY <1>3, <1>5 DEF TablesInv
  <2>3. Cardinality(SentIn(d.alerts, d.sms, i)) = n + more BY DEF Sound
  <2>4. texted'[i] = was + more /\ lost'[i] = out BY <1>1, <1>6
  <2> HIDE DEF n, was, out, more
  <2>5. was + more = out + (n + more) BY <2>1, <2>2
  <2>6. texted'[i] = lost'[i] + Cardinality(SentIn(d.alerts, d.sms, i)) BY <2>3, <2>4, <2>5
  <2> QED BY <1>2, <2>6
<1>10. ASSUME NEW i \in Items PROVE AlertRight(db, i, judged[i])'
  <2>1. AlertRight(d, i, JudgedIn(d, i)) BY DEF Sound
  <2>2. Stock(db', i) = Stock(d, i) BY <1>2, SameStock
  <2>3. Used(db', i) <=> Used(d, i) BY <1>2 DEF Used
  <2>4. AlertRight(db', i, judged'[i]) BY <1>2, <1>7, <2>1, <2>2, <2>3 DEF AlertRight
  <2> QED BY <2>4
<1>11. lost' \in [Items -> Nat] BY <1>1, <1>5
<1> QED BY <1>4, <1>6, <1>8, <1>9, <1>10, <1>11 DEF TablesInv

LEMMA RollbackKeeps ==
  ASSUME TablesInv, NEW d, Sound(d), Rollback(d)
  PROVE  TablesInv'
<1>1. /\ texted' = Plus(texted, d.texts) /\ lost' = Plus(lost, d.texts) /\ db' = db /\ judged' = judged
  BY DEF Rollback
<1>2. d.texts \in [Items -> Nat] BY DEF Sound, IsTransaction
<1>3. texted \in [Items -> Nat] /\ lost \in [Items -> Nat] BY DEF TablesInv
<1>4. /\ texted' \in [Items -> Nat] /\ lost' \in [Items -> Nat]
      /\ \A i \in Items : texted'[i] = texted[i] + d.texts[i] /\ lost'[i] = lost[i] + d.texts[i]
  BY <1>1, <1>2, <1>3 DEF Plus
<1>5. ASSUME NEW i \in Items PROVE (texted[i] = lost[i] + Cardinality(SentIn(db.alerts, db.sms, i)))'
  <2> DEFINE n == Cardinality(SentIn(db.alerts, db.sms, i))
             was == texted[i]
             out == lost[i]
             more == d.texts[i]
  <2>1. n \in Nat BY SentIsFinite DEF TablesInv
  <2>2. was = out + n /\ was \in Nat /\ out \in Nat /\ more \in Nat BY <1>2, <1>3 DEF TablesInv
  <2>3. texted'[i] = was + more /\ lost'[i] = out + more BY <1>4
  <2>4. Cardinality(SentIn(db'.alerts, db'.sms, i)) = n BY <1>1
  <2> HIDE DEF n, was, out, more
  <2>5. was + more = (out + more) + n BY <2>1, <2>2
  <2> QED BY <2>3, <2>4, <2>5
<1>6. ASSUME NEW i \in Items PROVE AlertRight(db, i, judged[i])'
  <2>1. AlertRight(db, i, judged[i]) BY DEF TablesInv
  <2> QED BY <1>1, <2>1
<1> QED BY <1>1, <1>4, <1>5, <1>6 DEF TablesInv

-----------------------------------------------------------------------------
(* What the store room's movements are.                                    *)

EnvTyped ==
    /\ status \in [Tickets -> {InPayment, Paid}]
    /\ slips \subseteq Tickets
    /\ loaded \in [Calls -> Tickets \cup {NoTicket}]
    /\ minimum \in [Items -> Minimums]
    /\ active \subseteq Items

LEMMA TypeOKMeans ==
  TypeOK <=> /\ EnvTyped
             /\ db.moves \in Seq(MovementRow) /\ db.alerts \in Seq(AlertRow) /\ db.sms \in Seq(SmsRow)
             /\ db.receipts \in Seq(ReceiptRow)
             /\ texted \in [Items -> Nat] /\ lost \in [Items -> Nat] /\ judged \in [Items -> Nat]
<1>1. [minimum |-> minimum, active |-> active] \in ItemRows
        <=> minimum \in [Items -> Minimums] /\ active \subseteq Items
  BY DEF ItemRows
<1> QED BY <1>1 DEF TypeOK, EnvTyped

LEMMA MinimumIsNat == EnvTyped => minimum \in [Items -> Nat]
BY InventoryAssumption DEF EnvTyped

LEMMA FactorsAreInt == \A u, v : Factors(u, v) \subseteq Int /\ \A f, g \in Factors(u, v) : f = g
<1>1. \A c \in Conversions : c.factor \in Int BY InventoryAssumption DEF ConversionRows
<1>2. \A c, d \in Conversions : c.from = d.from /\ c.to = d.to => c = d BY InventoryAssumption
<1>3. \A u, v : Factors(u, v) \subseteq Int BY <1>1 DEF Factors
<1>4. \A u, v : \A f, g \in Factors(u, v) : f = g BY <1>2 DEF Factors
<1> QED BY <1>3, <1>4

LEMMA ConvertedIsInt ==
  ASSUME NEW q \in Int, NEW unit, NEW base, Convertible(unit, base)
  PROVE  Converted(q, unit, base) \in Int
<1>1. CASE unit = base BY <1>1 DEF Converted
<1>2. CASE unit # base /\ Factors(unit, base) # {}
  <2> DEFINE f == CHOOSE f \in Factors(unit, base) : TRUE
  <2>1. f \in Factors(unit, base) BY <1>2
  <2>2. f \in Int BY <2>1, FactorsAreInt
  <2>3. Converted(q, unit, base) = q * f BY <1>2 DEF Converted
  <2> HIDE DEF f
  <2> QED BY <2>2, <2>3
<1>3. CASE unit # base /\ Factors(unit, base) = {}
  <2> DEFINE f == CHOOSE f \in Factors(base, unit) : TRUE
  <2>1. PICK g \in Factors(base, unit) : g > 0 BY <1>3 DEF Convertible
  <2>2. f \in Factors(base, unit) BY <2>1
  <2>3. f = g /\ g \in Int BY <2>1, <2>2, FactorsAreInt
  <2>4. Converted(q, unit, base) = q \div f BY <1>3 DEF Converted
  <2> HIDE DEF f
  <2>5. f \in Int /\ f > 0 BY <2>1, <2>3
  <2>6. q \div f \in Int BY <2>5
  <2> QED BY <2>4, <2>6
<1> QED BY <1>1, <1>2, <1>3

LEMMA MovementOfLine ==
  ASSUME NEW l, l.item \in Items, l.quantity \in Int, Acceptable(l),
         NEW type \in DOMAIN Sign, NEW source \in {ReceiptLine, Manual}, NEW of \in Nat
  PROVE  /\ MovementOf(l, type, source, of) \in MoveRows
         /\ MovementOf(l, type, source, of).item = l.item
         /\ MovementOf(l, type, source, of).type = type
         /\ MovementOf(l, type, source, of).source = source
         /\ MovementOf(l, type, source, of).of = of
         /\ MovementOf(l, type, source, of).quantity = Converted(l.quantity, l.unit, BaseUnit[l.item])
<1> DEFINE q == Converted(l.quantity, l.unit, BaseUnit[l.item])
<1>1. q \in Int BY ConvertedIsInt DEF Acceptable
<1>2. MovementOf(l, type, source, of)
        = [item |-> l.item, quantity |-> q, type |-> type, source |-> source, of |-> of]
  BY DEF MovementOf
<1> HIDE DEF q
<1>3. MovementOf(l, type, source, of) \in MoveRows BY <1>1, <1>2 DEF MoveRows
<1>4. /\ MovementOf(l, type, source, of).item = l.item
      /\ MovementOf(l, type, source, of).type = type
      /\ MovementOf(l, type, source, of).source = source
      /\ MovementOf(l, type, source, of).of = of
      /\ MovementOf(l, type, source, of).quantity = q
  BY <1>2
<1> QED BY <1>3, <1>4 DEF q

LEMMA ReceiptMovementsType ==
  ASSUME NEW delivery \in Deliveries, \A k \in DOMAIN delivery : Acceptable(delivery[k]),
         db.receipts \in Seq(ReceiptRow)
  PROVE  /\ ReceiptMovements(delivery) \in Seq(MoveRows \cup {Broken})
         /\ Len(ReceiptMovements(delivery)) = Len(delivery) /\ Len(delivery) \in Nat
         /\ DOMAIN delivery = 1..Len(delivery)
         /\ \A k \in 1..Len(delivery) :
               LET m == ReceiptMovements(delivery)[k]
               IN  /\ m.item = delivery[k].item /\ m.type = Purchase /\ m.source = ReceiptLine
                   /\ m.of = Len(db.receipts) + 1
                   /\ m.quantity = Converted(delivery[k].quantity, delivery[k].unit, BaseUnit[delivery[k].item])
                   /\ delivery[k].quantity \in Int
<1> DEFINE n == Len(delivery)
           rows == ReceiptMovements(delivery)
           r == Len(db.receipts) + 1
<1>1. delivery \in Seq(ReceiptLineRow) BY InventoryAssumption
<1>2. n \in Nat /\ DOMAIN delivery = 1..n /\ \A k \in 1..n : delivery[k] \in ReceiptLineRow BY <1>1, SeqFacts
<1>3. r \in Nat OBVIOUS
<1>4. Purchase \in DOMAIN Sign BY DEF Sign
<1>5. rows = [k \in 1..n |-> MovementOf(delivery[k], Purchase, ReceiptLine, r)]
  BY <1>2 DEF ReceiptMovements
<1> HIDE DEF n, rows, r
<1>6. ASSUME NEW k \in 1..n
      PROVE  /\ rows[k] \in MoveRows /\ rows[k].item = delivery[k].item /\ rows[k].type = Purchase
             /\ rows[k].source = ReceiptLine /\ rows[k].of = r /\ delivery[k].quantity \in Int
             /\ rows[k].quantity = Converted(delivery[k].quantity, delivery[k].unit, BaseUnit[delivery[k].item])
  <2> DEFINE l == delivery[k]
  <2>1. l \in ReceiptLineRow /\ Acceptable(l) BY <1>2
  <2>2. l.item \in Items /\ l.quantity \in Int BY <2>1 DEF ReceiptLineRow
  <2>3. rows[k] = MovementOf(l, Purchase, ReceiptLine, r) BY <1>5
  <2> HIDE DEF l
  <2>4. /\ MovementOf(l, Purchase, ReceiptLine, r) \in MoveRows
        /\ MovementOf(l, Purchase, ReceiptLine, r).item = l.item
        /\ MovementOf(l, Purchase, ReceiptLine, r).type = Purchase
        /\ MovementOf(l, Purchase, ReceiptLine, r).source = ReceiptLine
        /\ MovementOf(l, Purchase, ReceiptLine, r).of = r
        /\ MovementOf(l, Purchase, ReceiptLine, r).quantity = Converted(l.quantity, l.unit, BaseUnit[l.item])
    BY <1>3, <1>4, <2>1, <2>2, MovementOfLine
  <2> QED BY <2>2, <2>3, <2>4 DEF l
<1>7. rows = [k \in 1..n |-> rows[k]] BY <1>5
<1>8. rows \in Seq(MoveRows \cup {Broken}) /\ Len(rows) = n BY <1>2, <1>6, <1>7, SeqMade
<1> QED BY <1>2, <1>6, <1>8 DEF n, rows, r

LEMMA CorrectionType ==
  ASSUME NEW x \in Corrections, Acceptable(x)
  PROVE  /\ <<MovementOf(x, x.type, Manual, 0)>> \in Seq(MoveRows \cup {Broken})
         /\ MovementOf(x, x.type, Manual, 0).source = Manual
         /\ MovementOf(x, x.type, Manual, 0).of = 0
<1>1. x \in CorrectionRows BY InventoryAssumption
<1>2. x.item \in Items /\ x.quantity \in Int BY <1>1 DEF CorrectionRows
<1>3. x.type \in DOMAIN Sign BY <1>1 DEF CorrectionRows, Sign
<1>4. /\ MovementOf(x, x.type, Manual, 0) \in MoveRows
      /\ MovementOf(x, x.type, Manual, 0).source = Manual
      /\ MovementOf(x, x.type, Manual, 0).of = 0
  BY <1>2, <1>3, MovementOfLine
<1> DEFINE m == MovementOf(x, x.type, Manual, 0)
<1>5. m \in MoveRows BY <1>4
<1> HIDE DEF m
<1>6. <<m>> \in Seq(MoveRows \cup {Broken}) BY <1>5
<1> QED BY <1>4, <1>6 DEF m

LEMMA PrefixType ==
  ASSUME NEW X, NEW s \in Seq(X), NEW k \in 1..Len(s)
  PROVE  SubSeq(s, 1, k) \in Seq(X)
OBVIOUS

LEMMA TablesAreTyped == TablesInv /\ EnvTyped => TypedTables
BY MinimumIsNat DEF TablesInv, TypedTables

\* What a call may do to the tables: commit all of its movements or be taken
\* back.
LEMMA CallKeeps ==
  ASSUME TablesInv, EnvTyped, NEW movements \in Seq(MoveRows \cup {Broken}), NEW receipts \in Seq(ReceiptRow),
         \/ Commit(Apply(movements), receipts)
         \/ Rollback(Apply(movements))
         \/ Dies(movements)
  PROVE  TablesInv'
<1>1. TypedTables /\ minimum \in [Items -> Nat] BY TablesAreTyped, MinimumIsNat
<1>2. Sound(Begun) BY BegunIsSound
<1>3. Sound(Apply(movements)) BY <1>1, <1>2, ApplyWorks
<1>4. CASE Commit(Apply(movements), receipts) BY <1>1, <1>3, <1>4, CommitKeeps
<1>5. CASE Rollback(Apply(movements)) BY <1>3, <1>5, RollbackKeeps
<1>6. CASE Dies(movements)
  <2>1. PICK k \in 1..Len(movements) : Rollback(Apply(SubSeq(movements, 1, k))) BY <1>6 DEF Dies
  <2>2. SubSeq(movements, 1, k) \in Seq(MoveRows \cup {Broken}) BY PrefixType
  <2>3. Sound(Apply(SubSeq(movements, 1, k))) BY <1>1, <1>2, <2>2, ApplyWorks
  <2> QED BY <2>1, <2>3, RollbackKeeps
<1> QED BY <1>4, <1>5, <1>6

LEMMA ReceiptKept ==
  ASSUME NEW delivery \in Deliveries, NEW paid \in BOOLEAN, NEW receipts \in Seq(ReceiptRow)
  PROVE  Append(receipts, [delivery |-> delivery, expense |-> paid]) \in Seq(ReceiptRow)
<1> DEFINE row == [delivery |-> delivery, expense |-> paid]
<1>1. row \in ReceiptRow BY DEF ReceiptRow
<1> HIDE DEF row
<1>2. Append(receipts, row) \in Seq(ReceiptRow) BY <1>1
<1> QED BY <1>2 DEF row

-----------------------------------------------------------------------------
(* Every step keeps the tables.                                            *)

LEMMA InitTables == Init => TablesInv /\ EnvTyped
<1> SUFFICES ASSUME Init PROVE TablesInv /\ EnvTyped OBVIOUS
<1>1. /\ db.moves = <<>> /\ db.alerts = <<>> /\ db.sms = <<>> /\ db.receipts = <<>>
  BY DEF Init
<1>2. PICK m \in Minimums : minimum = [i \in Items |-> m] BY DEF Init
<1>3. EnvTyped BY <1>2 DEF Init, EnvTyped
<1>4. judged \in [Items -> Nat] BY <1>3, MinimumIsNat DEF Init
<1>5. texted \in [Items -> Nat] /\ lost \in [Items -> Nat] BY DEF Init
<1>6. Told(db.alerts, db.sms) BY <1>1 DEF Told
<1>7. ASSUME NEW i \in Items PROVE texted[i] = lost[i] + Cardinality(SentIn(db.alerts, db.sms, i))
  <2>1. SentIn(db.alerts, db.sms, i) = {} BY <1>1 DEF SentIn
  <2>2. Cardinality({}) = 0 BY FS_EmptySet
  <2>3. texted[i] = 0 /\ lost[i] = 0 BY DEF Init
  <2> QED BY <2>1, <2>2, <2>3
<1>8. ASSUME NEW i \in Items PROVE AlertRight(db, i, judged[i])
  <2>1. OpenIn(db.alerts, i) = {} BY <1>1 DEF OpenIn
  <2>2. ~Used(db, i) BY <1>1 DEF Used
  <2> QED BY <2>1, <2>2 DEF AlertRight
<1>9. /\ db.moves \in Seq(MovementRow) /\ db.alerts \in Seq(AlertRow) /\ db.sms \in Seq(SmsRow)
      /\ db.receipts \in Seq(ReceiptRow)
  BY <1>1
<1> QED BY <1>3, <1>4, <1>5, <1>6, <1>7, <1>8, <1>9 DEF TablesInv

LEMMA ClosingKeepsTables ==
  ASSUME TablesInv, EnvTyped, NEW c \in Calls, CloseTicket(c)
  PROVE  TablesInv' /\ EnvTyped'
<1> DEFINE t == loaded[c]
<1>1. t # NoTicket /\ loaded' = [loaded EXCEPT ![c] = NoTicket] /\ minimum' = minimum /\ active' = active
  BY DEF CloseTicket, environment
<1>2. t \in Tickets BY <1>1 DEF EnvTyped
<1>3. \/ Commit(Apply(Requirement[t]), db.receipts)
      \/ Rollback(Apply(Requirement[t]))
      \/ Dies(Requirement[t])
  BY DEF CloseTicket
<1>4. Requirement[t] \in Seq(MoveRows \cup {Broken}) BY <1>2, RequirementType
<1>5. db.receipts \in Seq(ReceiptRow) BY DEF TablesInv
<1>6. \/ status' = [status EXCEPT ![t] = Paid] /\ slips' = slips \cup {t}
      \/ status' = status /\ slips' = slips
  BY DEF CloseTicket
<1> HIDE DEF t
<1>7. TablesInv' BY <1>3, <1>4, <1>5, CallKeeps
<1>8. EnvTyped' BY <1>1, <1>2, <1>6 DEF EnvTyped
<1> QED BY <1>7, <1>8

LEMMA ReceivingKeepsTables ==
  ASSUME TablesInv, EnvTyped, NEW delivery \in Deliveries, NEW paid \in BOOLEAN, ProcessReceipt(delivery, paid)
  PROVE  TablesInv' /\ EnvTyped'
<1> DEFINE rows == ReceiptMovements(delivery)
           more == Append(db.receipts, [delivery |-> delivery, expense |-> paid])
<1>1. /\ \A k \in DOMAIN delivery : Acceptable(delivery[k])
      /\ Commit(Apply(rows), more) \/ Dies(rows)
      /\ UNCHANGED <<status, slips, loaded, minimum, active>>
  BY DEF ProcessReceipt, environment
<1>2. rows \in Seq(MoveRows \cup {Broken}) BY <1>1, ReceiptMovementsType DEF TablesInv
<1>3. more \in Seq(ReceiptRow) BY ReceiptKept DEF TablesInv
<1> HIDE DEF rows, more
<1>4. TablesInv' BY <1>1, <1>2, <1>3, CallKeeps
<1> QED BY <1>1, <1>4 DEF EnvTyped

LEMMA CorrectingKeepsTables ==
  ASSUME TablesInv, EnvTyped, NEW x \in Corrections, CorrectStock(x)
  PROVE  TablesInv' /\ EnvTyped'
<1> DEFINE rows == <<MovementOf(x, x.type, Manual, 0)>>
<1>1. /\ Acceptable(x)
      /\ Commit(Apply(rows), db.receipts) \/ Dies(rows)
      /\ UNCHANGED <<status, slips, loaded, minimum, active>>
  BY DEF CorrectStock, environment
<1>2. rows \in Seq(MoveRows \cup {Broken}) BY <1>1, CorrectionType
<1>3. db.receipts \in Seq(ReceiptRow) BY DEF TablesInv
<1> HIDE DEF rows
<1>4. TablesInv' BY <1>1, <1>2, <1>3, CallKeeps
<1> QED BY <1>1, <1>4 DEF EnvTyped

\* Steps that leave the tables alone.
LEMMA IdleKeepsTables ==
  ASSUME TablesInv, UNCHANGED <<db, texted, lost, judged>>
  PROVE  TablesInv'
<1>1. ASSUME NEW i \in Items PROVE AlertRight(db, i, judged[i])'
  <2>1. AlertRight(db, i, judged[i]) BY DEF TablesInv
  <2> QED BY <2>1
<1>2. ASSUME NEW i \in Items PROVE (texted[i] = lost[i] + Cardinality(SentIn(db.alerts, db.sms, i)))'
  <2>1. texted[i] = lost[i] + Cardinality(SentIn(db.alerts, db.sms, i)) BY DEF TablesInv
  <2> QED BY <2>1
<1> QED BY <1>1, <1>2 DEF TablesInv

LEMMA StepKeepsTables ==
  ASSUME TablesInv, EnvTyped, [Next]_vars
  PROVE  TablesInv' /\ EnvTyped'
<1>1. ASSUME NEW c \in Calls, NEW t \in Tickets, LoadTicket(c, t) PROVE TablesInv' /\ EnvTyped'
  <2>1. /\ UNCHANGED <<db, texted, lost, judged>> /\ loaded' = [loaded EXCEPT ![c] = t]
        /\ UNCHANGED <<status, slips, minimum, active>>
    BY <1>1 DEF LoadTicket, environment
  <2>2. EnvTyped' BY <2>1 DEF EnvTyped
  <2> QED BY <2>1, <2>2, IdleKeepsTables
<1>2. ASSUME NEW c \in Calls, CloseTicket(c) PROVE TablesInv' /\ EnvTyped'
  BY <1>2, ClosingKeepsTables
<1>3. ASSUME NEW delivery \in Deliveries, NEW paid \in BOOLEAN, ProcessReceipt(delivery, paid)
      PROVE  TablesInv' /\ EnvTyped'
  BY <1>3, ReceivingKeepsTables
<1>4. ASSUME NEW x \in Corrections, CorrectStock(x) PROVE TablesInv' /\ EnvTyped'
  BY <1>4, CorrectingKeepsTables
<1>5. ASSUME NEW i \in Items, DeactivateItem(i) PROVE TablesInv' /\ EnvTyped'
  <2>1. UNCHANGED <<db, texted, lost, judged, status, slips, loaded, minimum>> /\ active' = active \ {i}
    BY <1>5 DEF DeactivateItem, Changes
  <2> QED BY <2>1, IdleKeepsTables DEF EnvTyped
<1>6. ASSUME NEW i \in Items, NEW m \in Minimums, ChangeMinimum(i, m) PROVE TablesInv' /\ EnvTyped'
  <2>1. /\ UNCHANGED <<db, texted, lost, judged, status, slips, loaded, active>>
        /\ minimum' = [minimum EXCEPT ![i] = m]
    BY <1>6 DEF ChangeMinimum, Changes
  <2>2. EnvTyped' BY <2>1 DEF EnvTyped
  <2> QED BY <2>1, <2>2, IdleKeepsTables
<1>7. CASE GatewayChanges
  BY <1>7, IdleKeepsTables DEF GatewayChanges, Changes, EnvTyped
<1>8. CASE ShiftChanges
  BY <1>8, IdleKeepsTables DEF ShiftChanges, Changes, EnvTyped
<1>9. CASE UNCHANGED vars
  BY <1>9, IdleKeepsTables DEF vars, EnvTyped
<1> QED BY <1>1, <1>2, <1>3, <1>4, <1>5, <1>6, <1>7, <1>8, <1>9 DEF Next

-----------------------------------------------------------------------------
(* What holds of every behaviour.                                          *)

\* The tables and the settings keep their invariant in every behaviour, which
\* the theorems about alerts, messages, receipts and sales below start from.
THEOREM TablesHold == Spec => [](TablesInv /\ EnvTyped)
<1>1. Init => TablesInv /\ EnvTyped BY InitTables
<1>2. (TablesInv /\ EnvTyped) /\ [Next]_vars => (TablesInv /\ EnvTyped)' BY StepKeepsTables
<1> QED BY <1>1, <1>2, PTL DEF Spec

\* Every table, history and setting has its type, whatever the catalogue, the
\* tickets and the number of calls (create_inventory_movement, send_sms).
THEOREM InventoryTypeCorrect == Spec => []TypeOK
<1>1. TablesInv /\ EnvTyped => TypeOK BY TypeOKMeans DEF TablesInv
<1> QED BY <1>1, TablesHold, PTL

LEMMA AtMostOne ==
  ASSUME NEW S, \A a, b \in S : a = b
  PROVE  Cardinality(S) <= 1
<1>1. CASE S = {} BY <1>1, FS_EmptySet
<1>2. CASE S # {}
  <2>1. PICK a : S = {a} BY <1>2
  <2>2. Cardinality({a}) = 1 BY FS_Singleton
  <2> QED BY <2>1, <2>2
<1> QED BY <1>1, <1>2

\* One open alert per item, exactly while the stock is at or below the minimum
\* the item was last compared with, showing the stock it has: for any number
\* of items, movements and calls, whichever of them die or are given up
\* (evaluate_stock_alert).
THEOREM AlertsAlwaysAgree == Spec => []AlertsAgree
<1>1. TablesInv => AlertsAgree
  <2> SUFFICES ASSUME TablesInv, NEW i \in Items
               PROVE  LET open == OpenAlertsOf(db, i)
                          used == \E k \in DOMAIN db.moves : db.moves[k].item = i
                      IN  /\ Cardinality(open) <= 1
                          /\ open # {} <=> used /\ Stock(db, i) <= judged[i]
                          /\ \A a \in open : db.alerts[a].quantity = Stock(db, i)
    BY DEF AlertsAgree
  <2>1. AlertRight(db, i, judged[i]) BY DEF TablesInv
  <2>2. OpenAlertsOf(db, i) = OpenIn(db.alerts, i) BY DEF OpenAlertsOf, OpenIn
  <2>3. Cardinality(OpenAlertsOf(db, i)) <= 1 BY <2>1, <2>2, AtMostOne DEF AlertRight
  <2> QED BY <2>1, <2>2, <2>3 DEF AlertRight, Used
<1> QED BY <1>1, TablesHold, PTL

\* An alert has one message in its life, and the messages that went out are the
\* recorded ones and those of calls that were rolled back (send_sms).
THEOREM OneSmsPerAlertAlways == Spec => []OneSmsPerAlert
<1>1. TablesInv => OneSmsPerAlert
  <2> SUFFICES ASSUME TablesInv PROVE OneSmsPerAlert OBVIOUS
  <2>1. Len(db.sms) = Len(db.alerts) /\ \A k \in 1..Len(db.sms) : db.sms[k].alert = k BY DEF TablesInv, Told
  <2>2. DOMAIN db.sms = 1..Len(db.sms) /\ DOMAIN db.alerts = 1..Len(db.alerts) BY DEF TablesInv
  <2>3. [k \in DOMAIN db.sms |-> db.sms[k].alert] = [a \in DOMAIN db.alerts |-> a] BY <2>1, <2>2
  <2>4. ASSUME NEW i \in Items
        PROVE  texted[i] = lost[i] + Cardinality({k \in DOMAIN db.sms :
                               db.sms[k].status = Sent /\ db.alerts[db.sms[k].alert].item = i})
    <3>1. texted[i] = lost[i] + Cardinality(SentIn(db.alerts, db.sms, i)) BY DEF TablesInv
    <3> QED BY <3>1 DEF SentIn
  <2> QED BY <2>3, <2>4 DEF OneSmsPerAlert
<1> QED BY <1>1, TablesHold, PTL

-----------------------------------------------------------------------------
(* The ledger grows by the rows of the calls that commit.                  *)

Longer(old, more, movements) ==
    /\ more \in Seq(MovementRow) /\ Len(movements) \in Nat
    /\ Len(more) = Len(old) + Len(movements)
    /\ \A k \in 1..Len(old) : more[k] = old[k]
    /\ \A k \in 1..Len(movements) :
          /\ movements[k] # Broken /\ movements[k] \in MoveRows /\ movements[k].quantity > 0
          /\ more[Len(old) + k] = RowOf(movements[k])

LEMMA CommitGrows ==
  ASSUME TablesInv, EnvTyped, NEW movements \in Seq(MoveRows \cup {Broken}), NEW receipts,
         Commit(Apply(movements), receipts)
  PROVE  Longer(db.moves, db'.moves, movements) /\ db'.receipts = receipts
<1> DEFINE d == Apply(movements)
<1>1. Sound(d) /\ (d.ok => Continues(d, movements, Len(movements)))
  BY BegunIsSound, TablesAreTyped, ApplyWorks
<1>2. d.ok /\ db' = [moves |-> d.moves, alerts |-> d.alerts, sms |-> d.sms, receipts |-> receipts]
  BY DEF Commit
<1>3. Len(movements) \in Nat BY SeqFacts
<1> HIDE DEF d
<1>4. db'.moves = d.moves /\ db'.receipts = receipts BY <1>2
<1>5. Continues(d, movements, Len(movements)) BY <1>1, <1>2
<1>6. d.moves \in Seq(MovementRow) /\ \A k \in 1..Len(db.moves) : d.moves[k] = db.moves[k]
  BY <1>1 DEF Sound, IsTransaction
<1>7. Longer(db.moves, d.moves, movements) BY <1>3, <1>5, <1>6 DEF Longer, Continues
<1> QED BY <1>4, <1>7

-----------------------------------------------------------------------------
(* Receipts.                                                               *)

Bought(moves, r) == {k \in DOMAIN moves : moves[k].source = ReceiptLine /\ moves[k].of = r}

Whole(moves, delivery, r) ==
    \E before \in 0..Len(moves) :
        /\ Bought(moves, r) = (before + 1)..(before + Len(delivery))
        /\ \A k \in DOMAIN delivery :
              /\ moves[before + k].item = delivery[k].item
              /\ SameAmount(moves[before + k].signed, delivery[k])

Known(moves, n) == \A k \in DOMAIN moves : moves[k].source = ReceiptLine => moves[k].of \in 1..n

ReceiptsInv ==
    /\ Known(db.moves, Len(db.receipts))
    /\ \A r \in 1..Len(db.receipts) : Whole(db.moves, db.receipts[r].delivery, r)

LEMMA RowFields ==
  ASSUME NEW m
  PROVE  /\ RowOf(m).source = m.source /\ RowOf(m).of = m.of /\ RowOf(m).item = m.item
         /\ RowOf(m).type = m.type /\ RowOf(m).signed = m.quantity * Sign[m.type]
BY DEF RowOf

\* A receipt stays as it was entered.
LEMMA WholeStays ==
  ASSUME NEW old \in Seq(MovementRow), NEW more, NEW movements, Longer(old, more, movements),
         NEW r, NEW delivery, DOMAIN delivery = 1..Len(delivery), Len(delivery) \in Nat, Whole(old, delivery, r),
         \A k \in 1..Len(movements) : movements[k].source # ReceiptLine \/ movements[k].of # r
  PROVE  Whole(more, delivery, r)
<1> DEFINE n == Len(old)
           w == Len(movements)
<1>1. n \in Nat /\ DOMAIN old = 1..n OBVIOUS
<1>2. w \in Nat /\ Len(more) = n + w /\ DOMAIN more = 1..(n + w) /\ \A k \in 1..n : more[k] = old[k]
  BY <1>1 DEF Longer
<1>3. ASSUME NEW k \in (n + 1)..(n + w) PROVE k \notin Bought(more, r)
  <2>1. k - n \in 1..w /\ n + (k - n) = k BY <1>1, <1>2
  <2>2. more[n + (k - n)] = RowOf(movements[k - n]) BY <2>1 DEF Longer
  <2>3. more[k].source = movements[k - n].source /\ more[k].of = movements[k - n].of BY <2>1, <2>2, RowFields
  <2>4. movements[k - n].source # ReceiptLine \/ movements[k - n].of # r BY <2>1
  <2> QED BY <2>3, <2>4 DEF Bought
<1> HIDE DEF n, w
<1>4. Bought(more, r) = Bought(old, r)
  <2>1. \A k \in 1..(n + w) : k \in 1..n \/ k \in (n + 1)..(n + w) BY <1>1, <1>2
  <2>2. 1..n \subseteq 1..(n + w) BY <1>1, <1>2
  <2>3. \A k \in 1..n : k \in Bought(more, r) <=> k \in Bought(old, r) BY <1>1, <1>2, <2>2 DEF Bought
  <2>4. Bought(more, r) \subseteq 1..(n + w) /\ Bought(old, r) \subseteq 1..n BY <1>1, <1>2 DEF Bought
  <2> QED BY <1>3, <2>1, <2>3, <2>4
<1>5. PICK before \in 0..n :
        /\ Bought(old, r) = (before + 1)..(before + Len(delivery))
        /\ \A k \in DOMAIN delivery :
              /\ old[before + k].item = delivery[k].item
              /\ SameAmount(old[before + k].signed, delivery[k])
  BY DEF Whole, n
<1>6. before \in 0..(n + w) BY <1>1, <1>2, <1>5
<1>7. ASSUME NEW k \in DOMAIN delivery PROVE more[before + k] = old[before + k]
  <2>1. before + k \in (before + 1)..(before + Len(delivery)) BY <1>1, <1>5
  <2>2. before + k \in 1..n BY <1>1, <1>5, <2>1 DEF Bought
  <2> QED BY <1>2, <2>2
<1>8. \A k \in DOMAIN delivery :
        /\ more[before + k].item = delivery[k].item
        /\ SameAmount(more[before + k].signed, delivery[k])
  BY <1>5, <1>7
<1>9. before \in 0..Len(more) BY <1>2, <1>6
<1> QED BY <1>4, <1>5, <1>8, <1>9 DEF Whole

LEMMA KnownStays ==
  ASSUME NEW old \in Seq(MovementRow), NEW more, NEW movements, Longer(old, more, movements),
         NEW n \in Nat, NEW m \in Nat, n <= m, Known(old, n),
         \A k \in 1..Len(movements) : movements[k].source = ReceiptLine => movements[k].of \in 1..m
  PROVE  Known(more, m)
<1> DEFINE x == Len(old)
           w == Len(movements)
<1>1. x \in Nat /\ DOMAIN old = 1..x OBVIOUS
<1>2. w \in Nat /\ DOMAIN more = 1..(x + w) /\ \A k \in 1..x : more[k] = old[k] BY <1>1 DEF Longer
<1> SUFFICES ASSUME NEW k \in DOMAIN more, more[k].source = ReceiptLine PROVE more[k].of \in 1..m
  BY DEF Known
<1>3. CASE k \in 1..x
  <2>1. more[k].of \in 1..n BY <1>1, <1>2, <1>3 DEF Known
  <2> QED BY <2>1
<1>4. CASE k \notin 1..x
  <2>1. k - x \in 1..w /\ x + (k - x) = k BY <1>1, <1>2, <1>4
  <2>2. more[x + (k - x)] = RowOf(movements[k - x]) BY <2>1 DEF Longer
  <2>3. more[k].source = movements[k - x].source /\ more[k].of = movements[k - x].of BY <2>1, <2>2, RowFields
  <2> QED BY <2>1, <2>3
<1> QED BY <1>3, <1>4

\* A line converted to the unit of its item is the same amount.
LEMMA ConvertedIsSame ==
  ASSUME DeliveriesConvert, NEW delivery \in Deliveries, NEW k \in DOMAIN delivery,
         delivery[k].quantity \in Int, Acceptable(delivery[k])
  PROVE  SameAmount(Converted(delivery[k].quantity, delivery[k].unit, BaseUnit[delivery[k].item]), delivery[k])
<1> DEFINE l == delivery[k]
           q == l.quantity
           unit == l.unit
           base == BaseUnit[l.item]
           n == Converted(q, unit, base)
<1>1. Convertible(unit, base) /\ q \in Int BY DEF Acceptable
<1>2. unit # base /\ Factors(unit, base) = {} => \A f \in Factors(base, unit) : f > 0 => (q \div f) * f = q
  BY DEF DeliveriesConvert
<1>3. SameAmount(n, l) <=> \/ unit = base /\ n = q
                           \/ \E f \in Factors(unit, base) : n = q * f
                           \/ \E f \in Factors(base, unit) : n * f = q
  BY DEF SameAmount
<1>4. CASE unit = base BY <1>3, <1>4 DEF Converted
<1>5. CASE unit # base /\ Factors(unit, base) # {}
  <2> DEFINE f == CHOOSE f \in Factors(unit, base) : TRUE
  <2>1. f \in Factors(unit, base) BY <1>5
  <2>2. n = q * f BY <1>5 DEF Converted
  <2> HIDE DEF f, n, q
  <2>3. SameAmount(n, l) BY <1>3, <2>1, <2>2
  <2> QED BY <2>3 DEF n, q
<1>6. CASE unit # base /\ Factors(unit, base) = {}
  <2> DEFINE f == CHOOSE f \in Factors(base, unit) : TRUE
  <2>1. PICK g \in Factors(base, unit) : g > 0 BY <1>1, <1>6 DEF Convertible
  <2>2. f \in Factors(base, unit) BY <2>1
  <2>3. f = g BY <2>1, <2>2, FactorsAreInt
  <2>4. n = q \div f BY <1>6 DEF Converted
  <2> HIDE DEF f, n, q
  <2>5. (q \div f) * f = q BY <1>2, <1>6, <2>1, <2>2, <2>3
  <2>6. SameAmount(n, l) BY <1>3, <2>2, <2>4, <2>5
  <2> QED BY <2>6 DEF n, q
<1> QED BY <1>4, <1>5, <1>6

LEMMA SignOfPurchase == Sign[Purchase] = 1
BY DEF Sign

\* A receipt that is committed is whole.
LEMMA WholeEnters ==
  ASSUME DeliveriesConvert, NEW old \in Seq(MovementRow), NEW more, NEW delivery \in Deliveries,
         \A k \in DOMAIN delivery : Acceptable(delivery[k]), db.receipts \in Seq(ReceiptRow),
         Known(old, Len(db.receipts)), Longer(old, more, ReceiptMovements(delivery))
  PROVE  Whole(more, delivery, Len(db.receipts) + 1)
<1> DEFINE x == Len(old)
           w == Len(delivery)
           rows == ReceiptMovements(delivery)
           r == Len(db.receipts) + 1
<1>1. x \in Nat /\ DOMAIN old = 1..x OBVIOUS
<1>2. /\ Len(rows) = w /\ w \in Nat /\ DOMAIN delivery = 1..w
      /\ \A k \in 1..w : /\ rows[k].item = delivery[k].item /\ rows[k].type = Purchase
                         /\ rows[k].source = ReceiptLine /\ rows[k].of = r
                         /\ rows[k].quantity
                              = Converted(delivery[k].quantity, delivery[k].unit, BaseUnit[delivery[k].item])
                         /\ delivery[k].quantity \in Int
  BY ReceiptMovementsType
<1>3. r \in Nat /\ r \notin 1..Len(db.receipts) OBVIOUS
<1> HIDE DEF rows, w
<1>4. DOMAIN more = 1..(x + w) /\ Len(more) = x + w /\ \A k \in 1..x : more[k] = old[k]
  BY <1>1, <1>2 DEF Longer, rows
<1>5. \A k \in 1..w : more[x + k] = RowOf(rows[k]) /\ rows[k] \in MoveRows BY <1>2 DEF Longer, rows
<1>6. ASSUME NEW k \in 1..w
      PROVE  /\ more[x + k].item = delivery[k].item /\ more[x + k].source = ReceiptLine /\ more[x + k].of = r
             /\ SameAmount(more[x + k].signed, delivery[k])
  <2>1. more[x + k] = RowOf(rows[k]) BY <1>5
  <2>2. /\ RowOf(rows[k]).source = ReceiptLine /\ RowOf(rows[k]).of = r
        /\ RowOf(rows[k]).item = delivery[k].item
        /\ RowOf(rows[k]).signed = rows[k].quantity * Sign[Purchase]
    <3>1. /\ rows[k].item = delivery[k].item /\ rows[k].type = Purchase
          /\ rows[k].source = ReceiptLine /\ rows[k].of = r
      BY <1>2
    <3> QED BY <3>1, RowFields
  <2> DEFINE q == Converted(delivery[k].quantity, delivery[k].unit, BaseUnit[delivery[k].item])
  <2>3. rows[k].quantity = q BY <1>2
  <2>4. q \in Int
    <3>1. k \in DOMAIN delivery BY <1>2
    <3> QED BY <3>1, <1>2, ConvertedIsInt DEF Acceptable
  <2>5. SameAmount(q, delivery[k]) BY <1>2, ConvertedIsSame
  <2> HIDE DEF q
  <2>6. RowOf(rows[k]).signed = q BY <2>2, <2>3, <2>4, SignOfPurchase
  <2> QED BY <2>1, <2>2, <2>5, <2>6
<1> HIDE DEF r, x
<1>7. Bought(more, r) = (x + 1)..(x + w)
  <2>1. \A k \in 1..x : k \notin Bought(more, r)
    <3>1. \A k \in 1..x : old[k].source = ReceiptLine => old[k].of # r BY <1>1, <1>3 DEF Known, r
    <3> QED BY <1>4, <3>1 DEF Bought
  <2>2. ASSUME NEW k \in (x + 1)..(x + w) PROVE k \in Bought(more, r)
    <3>1. k - x \in 1..w /\ x + (k - x) = k /\ k \in 1..(x + w) BY <1>1, <1>2
    <3>2. more[x + (k - x)].source = ReceiptLine /\ more[x + (k - x)].of = r BY <1>6, <3>1
    <3> QED BY <1>4, <3>1, <3>2 DEF Bought
  <2>3. \A k \in 1..(x + w) : k \in 1..x \/ k \in (x + 1)..(x + w) BY <1>1, <1>2
  <2>4. Bought(more, r) \subseteq 1..(x + w) BY <1>4 DEF Bought
  <2> QED BY <2>1, <2>2, <2>3, <2>4
<1>8. x \in 0..Len(more) BY <1>1, <1>2, <1>4
<1>9. \A k \in DOMAIN delivery :
        /\ more[x + k].item = delivery[k].item
        /\ SameAmount(more[x + k].signed, delivery[k])
  BY <1>2, <1>6
<1>10. Whole(more, delivery, r) BY <1>7, <1>8, <1>9 DEF Whole, w
<1> QED BY <1>10 DEF r

LEMMA DeliveryIsSeq ==
  ASSUME NEW delivery \in Deliveries
  PROVE  Len(delivery) \in Nat /\ DOMAIN delivery = 1..Len(delivery)
<1>1. delivery \in Seq(ReceiptLineRow) BY InventoryAssumption
<1> QED BY <1>1, SeqFacts

LEMMA ReceiptHasDelivery ==
  ASSUME NEW receipts \in Seq(ReceiptRow), NEW r \in 1..Len(receipts)
  PROVE  receipts[r].delivery \in Deliveries
<1>1. receipts[r] \in ReceiptRow OBVIOUS
<1> QED BY <1>1 DEF ReceiptRow

\* Movements that are no receipt's leave the receipts whole.
LEMMA OthersKeepReceipts ==
  ASSUME TablesInv, ReceiptsInv, NEW movements, Longer(db.moves, db'.moves, movements),
         db'.receipts = db.receipts, \A k \in 1..Len(movements) : movements[k].source # ReceiptLine
  PROVE  ReceiptsInv'
<1> DEFINE n == Len(db.receipts)
<1>1. db.moves \in Seq(MovementRow) /\ db.receipts \in Seq(ReceiptRow) /\ n \in Nat BY DEF TablesInv
<1>2. Known(db.moves, n) BY DEF ReceiptsInv
<1>3. Known(db'.moves, n)
  <2> HIDE DEF n
  <2>1. n <= n BY <1>1
  <2> QED BY <1>1, <1>2, <2>1, KnownStays
<1>4. ASSUME NEW r \in 1..n PROVE Whole(db'.moves, db.receipts[r].delivery, r)
  <2> DEFINE delivery == db.receipts[r].delivery
  <2>1. delivery \in Deliveries BY <1>1, ReceiptHasDelivery
  <2>2. Whole(db.moves, delivery, r) BY DEF ReceiptsInv
  <2> HIDE DEF delivery
  <2>3. Len(delivery) \in Nat /\ DOMAIN delivery = 1..Len(delivery) BY <2>1, DeliveryIsSeq
  <2>4. Whole(db'.moves, delivery, r) BY <1>1, <2>2, <2>3, WholeStays
  <2> QED BY <2>4 DEF delivery
<1> QED BY <1>3, <1>4 DEF ReceiptsInv

\* A receipt is entered whole and leaves the others as they were.
LEMMA ReceiptEnters ==
  ASSUME TablesInv, ReceiptsInv, DeliveriesConvert, NEW delivery \in Deliveries, NEW paid \in BOOLEAN,
         \A k \in DOMAIN delivery : Acceptable(delivery[k]),
         Longer(db.moves, db'.moves, ReceiptMovements(delivery)),
         db'.receipts = Append(db.receipts, [delivery |-> delivery, expense |-> paid])
  PROVE  ReceiptsInv'
<1> DEFINE n == Len(db.receipts)
           rows == ReceiptMovements(delivery)
           row == [delivery |-> delivery, expense |-> paid]
<1>1. db.moves \in Seq(MovementRow) /\ db.receipts \in Seq(ReceiptRow) /\ n \in Nat BY DEF TablesInv
<1>2. row \in ReceiptRow /\ row.delivery = delivery BY DEF ReceiptRow
<1>3. /\ Len(rows) = Len(delivery)
      /\ \A k \in 1..Len(delivery) : rows[k].source = ReceiptLine /\ rows[k].of = n + 1
  BY <1>1, ReceiptMovementsType
<1>4. Known(db.moves, n) BY DEF ReceiptsInv
<1>41. Extends(db'.receipts, db.receipts, row) BY DEF Extends
<1> HIDE DEF rows, row
<1>5. /\ Len(db'.receipts) = n + 1 /\ db'.receipts[n + 1] = row
      /\ \A r \in 1..n : db'.receipts[r] = db.receipts[r]
  <2> DEFINE a == db.receipts
             b == db'.receipts
  <2>1. a \in Seq(ReceiptRow) /\ Extends(b, a, row) BY <1>1, <1>41
  <2>2. Len(a) = n OBVIOUS
  <2> HIDE DEF a, b, n
  <2>3. Len(b) = Len(a) + 1 /\ b[Len(a) + 1] = row /\ \A k \in 1..Len(a) : b[k] = a[k]
    BY <1>2, <2>1, SeqExtended
  <2>4. Len(b) = n + 1 /\ b[n + 1] = row /\ \A r \in 1..n : b[r] = a[r] BY <2>2, <2>3
  <2> QED BY <2>4 DEF a, b
<1>6. Whole(db'.moves, delivery, n + 1) BY <1>1, <1>4, WholeEnters
<1> HIDE DEF n
<1>7. Known(db'.moves, n + 1)
  <2>1. n + 1 \in Nat /\ n <= n + 1 BY <1>1
  <2>2. \A k \in 1..Len(rows) : rows[k].source = ReceiptLine => rows[k].of \in 1..(n + 1) BY <1>1, <1>3
  <2>3. Longer(db.moves, db'.moves, rows) BY DEF rows
  <2> QED BY <1>1, <1>4, <2>1, <2>2, <2>3, KnownStays
<1>8. ASSUME NEW r \in 1..n PROVE Whole(db'.moves, db.receipts[r].delivery, r)
  <2> DEFINE old == db.receipts[r].delivery
  <2>1. old \in Deliveries BY <1>1, ReceiptHasDelivery DEF n
  <2>2. Whole(db.moves, old, r) BY DEF ReceiptsInv, n
  <2> HIDE DEF old
  <2>3. Len(old) \in Nat /\ DOMAIN old = 1..Len(old) BY <2>1, DeliveryIsSeq
  <2>4. \A k \in 1..Len(rows) : rows[k].source # ReceiptLine \/ rows[k].of # r
    <3>1. n + 1 # r BY <1>1
    <3> QED BY <1>3, <3>1
  <2>5. Longer(db.moves, db'.moves, rows) BY DEF rows
  <2>6. Whole(db'.moves, old, r) BY <1>1, <2>2, <2>3, <2>4, <2>5, WholeStays
  <2> QED BY <2>6 DEF old
<1>9. ASSUME NEW r \in 1..(n + 1) PROVE Whole(db'.moves, db'.receipts[r].delivery, r)
  <2>1. CASE r \in 1..n BY <1>5, <1>8, <2>1
  <2>2. CASE r = n + 1 BY <1>2, <1>5, <1>6, <2>2
  <2>3. r \in 1..n \/ r = n + 1 BY <1>1
  <2> QED BY <2>1, <2>2, <2>3
<1> QED BY <1>5, <1>7, <1>9 DEF ReceiptsInv

\* The movements of a ticket are sales of that ticket.
LEMMA RequirementRows ==
  ASSUME NEW t \in Tickets, NEW k \in 1..Len(Requirement[t]), Requirement[t][k] # Broken
  PROVE  /\ Requirement[t][k].source \in {TicketLine, VariantOption}
         /\ Requirement[t][k].type = SaleConsumption /\ Requirement[t][k].of = t
         /\ Requirement[t][k].item \in Items /\ Requirement[t][k].quantity \in Nat
<1>1. Requirement[t] \in Seq(SaleRows(t) \cup {Broken}) BY RequirementType
<1>2. Requirement[t][k] \in SaleRows(t) \cup {Broken} BY <1>1, SeqFacts
<1>3. Requirement[t][k] \in SaleRows(t) BY <1>2
<1> QED BY <1>3 DEF SaleRows

LEMMA StepKeepsReceipts ==
  ASSUME TablesInv, EnvTyped, ReceiptsInv, DeliveriesConvert, [Next]_vars
  PROVE  ReceiptsInv'
<1>1. db' = db => ReceiptsInv' BY DEF ReceiptsInv
<1>2. ASSUME NEW c \in Calls, CloseTicket(c) PROVE ReceiptsInv'
  <2> DEFINE t == loaded[c]
  <2>1. t # NoTicket /\ (Commit(Apply(Requirement[t]), db.receipts) \/ db' = db)
    BY <1>2 DEF CloseTicket, Dies, Rollback
  <2>2. t \in Tickets BY <2>1 DEF EnvTyped
  <2> HIDE DEF t
  <2>3. CASE Commit(Apply(Requirement[t]), db.receipts)
    <3>1. Requirement[t] \in Seq(MoveRows \cup {Broken}) BY <2>2, RequirementType
    <3>2. Longer(db.moves, db'.moves, Requirement[t]) /\ db'.receipts = db.receipts BY <2>3, <3>1, CommitGrows
    <3>3. \A k \in 1..Len(Requirement[t]) : Requirement[t][k].source # ReceiptLine
      <4> TAKE k \in 1..Len(Requirement[t])
      <4>1. Requirement[t][k] # Broken BY <3>2 DEF Longer
      <4>2. Requirement[t][k].source \in {TicketLine, VariantOption} BY <2>2, <4>1, RequirementRows
      <4> QED BY <4>2, NamesDiffer
    <3> QED BY <3>2, <3>3, OthersKeepReceipts
  <2> QED BY <1>1, <2>1, <2>3
<1>3. ASSUME NEW delivery \in Deliveries, NEW paid \in BOOLEAN, ProcessReceipt(delivery, paid) PROVE ReceiptsInv'
  <2> DEFINE more == Append(db.receipts, [delivery |-> delivery, expense |-> paid])
  <2>1. /\ \A k \in DOMAIN delivery : Acceptable(delivery[k])
        /\ Commit(Apply(ReceiptMovements(delivery)), more) \/ db' = db
    BY <1>3 DEF ProcessReceipt, Dies, Rollback
  <2>2. CASE Commit(Apply(ReceiptMovements(delivery)), more)
    <3>1. ReceiptMovements(delivery) \in Seq(MoveRows \cup {Broken})
      BY <2>1, ReceiptMovementsType DEF TablesInv
    <3> HIDE DEF more
    <3>2. Longer(db.moves, db'.moves, ReceiptMovements(delivery)) /\ db'.receipts = more
      BY <2>2, <3>1, CommitGrows
    <3>3. db'.receipts = Append(db.receipts, [delivery |-> delivery, expense |-> paid]) BY <3>2 DEF more
    <3> QED BY <2>1, <3>2, <3>3, ReceiptEnters
  <2> QED BY <1>1, <2>1, <2>2
<1>4. ASSUME NEW x \in Corrections, CorrectStock(x) PROVE ReceiptsInv'
  <2> DEFINE m == MovementOf(x, x.type, Manual, 0)
             rows == <<m>>
  <2>1. Acceptable(x) /\ (Commit(Apply(rows), db.receipts) \/ db' = db)
    BY <1>4 DEF CorrectStock, Dies, Rollback
  <2>2. rows \in Seq(MoveRows \cup {Broken}) /\ m.source = Manual BY <2>1, CorrectionType
  <2> HIDE DEF m
  <2>3. Len(rows) = 1 /\ \A k \in 1..Len(rows) : rows[k] = m OBVIOUS
  <2> HIDE DEF rows
  <2>4. CASE Commit(Apply(rows), db.receipts)
    <3>1. Longer(db.moves, db'.moves, rows) /\ db'.receipts = db.receipts BY <2>2, <2>4, CommitGrows
    <3>2. \A k \in 1..Len(rows) : rows[k].source # ReceiptLine BY <2>2, <2>3, NamesDiffer
    <3> QED BY <3>1, <3>2, OthersKeepReceipts
  <2> QED BY <1>1, <2>1, <2>4
<1>5. ASSUME NEW c \in Calls, NEW t \in Tickets, LoadTicket(c, t) PROVE ReceiptsInv'
  BY <1>1, <1>5 DEF LoadTicket
<1>6. ASSUME Changes PROVE ReceiptsInv' BY <1>1, <1>6 DEF Changes
<1>7. ASSUME NEW i \in Items, DeactivateItem(i) PROVE ReceiptsInv' BY <1>6, <1>7 DEF DeactivateItem
<1>8. ASSUME NEW i \in Items, NEW m \in Minimums, ChangeMinimum(i, m) PROVE ReceiptsInv'
  BY <1>6, <1>8 DEF ChangeMinimum
<1>9. CASE GatewayChanges BY <1>6, <1>9 DEF GatewayChanges
<1>10. CASE ShiftChanges BY <1>6, <1>10 DEF ShiftChanges
<1>11. CASE UNCHANGED vars BY <1>1, <1>11 DEF vars
<1> QED BY <1>2, <1>3, <1>4, <1>5, <1>7, <1>8, <1>9, <1>10, <1>11 DEF Next

LEMMA ReceiptsHold == ReceiptsInv /\ TablesInv => ReceiptsAreWhole
<1> SUFFICES ASSUME ReceiptsInv, TablesInv PROVE ReceiptsAreWhole OBVIOUS
<1> DEFINE n == Len(db.receipts)
<1>1. n \in Nat BY DEF TablesInv
<1>2. \A r \in 1..(n + 1) : r > n <=> r = n + 1 BY <1>1
<1>3. Bought(db.moves, n + 1) = {}
  <2>1. n + 1 \notin 1..n BY <1>1
  <2> QED BY <2>1 DEF Bought, ReceiptsInv, Known
<1>4. ASSUME NEW r \in 1..(n + 1)
      PROVE  IF r > n THEN Bought(db.moves, r) = {} ELSE Whole(db.moves, db.receipts[r].delivery, r)
  <2>1. CASE r = n + 1 BY <1>2, <1>3, <2>1
  <2>2. CASE r # n + 1
    <3>1. r \in 1..n /\ ~(r > n) BY <1>1, <2>2
    <3>2. Whole(db.moves, db.receipts[r].delivery, r) BY <3>1 DEF ReceiptsInv
    <3> QED BY <3>1, <3>2
  <2> QED BY <2>1, <2>2
<1> QED BY <1>4 DEF ReceiptsAreWhole, Bought, Whole

\* A committed receipt is in the ledger line by line, one after another, in its
\* own order and in the unit of each item, and an uncommitted one not at all;
\* for any deliveries whose amounts convert without remainder
\* (process_purchase_receipt, convert_quantity).
THEOREM ReceiptsAlwaysWhole == DeliveriesConvert => (Spec => []ReceiptsAreWhole)
<1> SUFFICES ASSUME DeliveriesConvert PROVE Spec => []ReceiptsAreWhole OBVIOUS
<1>1. Init => ReceiptsInv
  <2> SUFFICES ASSUME Init PROVE ReceiptsInv OBVIOUS
  <2>1. db.moves = <<>> /\ db.receipts = <<>> BY DEF Init
  <2> QED BY <2>1 DEF ReceiptsInv, Known
<1>2. ReceiptsInv /\ (TablesInv /\ EnvTyped) /\ [Next]_vars => ReceiptsInv' BY StepKeepsReceipts
<1>3. ReceiptsInv /\ (TablesInv /\ EnvTyped) => ReceiptsAreWhole BY ReceiptsHold
<1> QED BY <1>1, <1>2, <1>3, TablesHold, PTL DEF Spec

-----------------------------------------------------------------------------
(* What sales consume: sums over the rows of the ledger.                   *)

OfTicket(t, i) ==
    [row \in MovementRow |->
        IF row.type = SaleConsumption /\ row.of = t /\ row.item = i THEN -row.signed ELSE 0]

OfSales(i) ==
    [row \in MovementRow |->
        IF row.type = SaleConsumption /\ row.item = i THEN row.signed * Sign[SaleConsumption] ELSE 0]

ByHand(i) ==
    [row \in MovementRow |->
        IF row.type = SaleConsumption /\ row.source = Manual /\ row.item = i THEN -row.signed ELSE 0]

Weighed(rows, weight) == Total([k \in DOMAIN rows |-> weight[rows[k]]])

\* The rows that movements enter.
Rows(movements) == [k \in 1..Len(movements) |-> RowOf(movements[k])]

LEMMA SignsAreInt == SaleConsumption \in DOMAIN Sign /\ Sign[SaleConsumption] = -1
BY NamesDiffer DEF Sign

LEMMA WeightsAreInt ==
  ASSUME NEW t, NEW i
  PROVE  /\ OfTicket(t, i) \in [MovementRow -> Int] /\ OfSales(i) \in [MovementRow -> Int]
         /\ ByHand(i) \in [MovementRow -> Int]
<1>1. \A row \in MovementRow : row.signed \in Int BY DEF MovementRow
<1>2. \A n \in Int : -n \in Int /\ n * Sign[SaleConsumption] \in Int BY SignsAreInt
<1>3. OfTicket(t, i) \in [MovementRow -> Int] BY <1>1, <1>2 DEF OfTicket
<1>4. OfSales(i) \in [MovementRow -> Int] BY <1>1, <1>2 DEF OfSales
<1>5. ByHand(i) \in [MovementRow -> Int] BY <1>1, <1>2 DEF ByHand
<1> QED BY <1>3, <1>4, <1>5

LEMMA WeighedIsInt ==
  ASSUME NEW rows \in Seq(MovementRow), NEW weight \in [MovementRow -> Int]
  PROVE  Weighed(rows, weight) \in Int
<1> DEFINE n == Len(rows)
           f == [k \in DOMAIN rows |-> weight[rows[k]]]
<1>1. n \in Nat /\ DOMAIN f = 1..n /\ \A k \in 1..n : f[k] \in Int OBVIOUS
<1>2. Weighed(rows, weight) = Total(f) BY DEF Weighed
<1> HIDE DEF n, f
<1>3. IsFiniteSet(1..n) BY <1>1, FS_Interval
<1> QED BY <1>1, <1>2, <1>3, TotalIsInt

LEMMA RowsAreMovements ==
  ASSUME NEW old, NEW more, NEW movements, Longer(old, more, movements)
  PROVE  /\ Len(movements) \in Nat /\ Rows(movements) \in Seq(MovementRow)
         /\ Len(Rows(movements)) = Len(movements)
         /\ \A k \in 1..Len(movements) : Rows(movements)[k] = RowOf(movements[k])
<1> DEFINE n == Len(movements)
           rows == Rows(movements)
<1>1. n \in Nat /\ \A k \in 1..n : movements[k] \in MoveRows BY DEF Longer
<1>2. rows = [k \in 1..n |-> RowOf(movements[k])] BY DEF Rows
<1>3. \A k \in 1..n : rows[k] = RowOf(movements[k]) /\ rows[k] \in MovementRow BY <1>1, <1>2, RowIsMovement
<1>4. rows = [k \in 1..n |-> rows[k]] BY <1>2
<1> HIDE DEF rows, n
<1>5. rows \in Seq(MovementRow) /\ Len(rows) = n BY <1>1, <1>3, <1>4, SeqMade
<1> QED BY <1>1, <1>3, <1>5 DEF rows, n

\* A sum over the ledger grows by the rows that are entered.
LEMMA WeighedGrows ==
  ASSUME NEW old \in Seq(MovementRow), NEW more, NEW movements, Longer(old, more, movements),
         NEW weight \in [MovementRow -> Int]
  PROVE  Weighed(more, weight) = Weighed(old, weight) + Weighed(Rows(movements), weight)
<1> DEFINE n == Len(old)
           w == Len(movements)
           rows == Rows(movements)
           f == [k \in DOMAIN old |-> weight[old[k]]]
           g == [k \in DOMAIN more |-> weight[more[k]]]
           h == [k \in DOMAIN rows |-> weight[rows[k]]]
<1>1. n \in Nat /\ DOMAIN old = 1..n OBVIOUS
<1>2. /\ w \in Nat /\ rows \in Seq(MovementRow) /\ DOMAIN rows = 1..w
      /\ \A k \in 1..w : rows[k] = RowOf(movements[k])
  BY RowsAreMovements, SeqFacts
<1>3. /\ more \in Seq(MovementRow) /\ Len(more) = n + w
      /\ \A k \in 1..n : more[k] = old[k]
      /\ \A k \in 1..w : more[n + k] = RowOf(movements[k])
  BY DEF Longer
<1>4. DOMAIN more = 1..(n + w) /\ \A k \in 1..(n + w) : more[k] \in MovementRow BY <1>3, SeqFacts
<1>5. Weighed(old, weight) = Total(f) /\ Weighed(more, weight) = Total(g) /\ Weighed(rows, weight) = Total(h)
  BY DEF Weighed
<1> HIDE DEF rows, n, w
<1>6. DOMAIN f = 1..n /\ DOMAIN g = 1..(n + w) /\ DOMAIN h = 1..w BY <1>1, <1>2, <1>4
<1>7. \A k \in 1..n : f[k] = g[k]
  <2>1. \A k \in 1..n : k \in 1..(n + w) BY <1>1, <1>2
  <2> QED BY <1>1, <1>3, <1>4, <2>1
<1>8. \A k \in 1..w : h[k] = g[n + k]
  <2>1. \A k \in 1..w : n + k \in 1..(n + w) BY <1>1, <1>2
  <2> QED BY <1>2, <1>3, <1>4, <2>1
<1>9. \A k \in 1..(n + w) : g[k] \in Int BY <1>4
<1> HIDE DEF f, g, h
<1>10. n \in Nat /\ w \in Nat BY <1>1, <1>2
<1>11. Total(g) = Total(f) + Total(h) BY <1>6, <1>7, <1>8, <1>9, <1>10, TotalOfBoth
<1> QED BY <1>5, <1>11 DEF rows

LEMMA WeighedSame ==
  ASSUME NEW rows \in Seq(MovementRow), NEW weight, NEW other,
         \A k \in 1..Len(rows) : weight[rows[k]] = other[rows[k]]
  PROVE  Weighed(rows, weight) = Weighed(rows, other)
<1> DEFINE n == Len(rows)
           f == [k \in DOMAIN rows |-> weight[rows[k]]]
           g == [k \in DOMAIN rows |-> other[rows[k]]]
<1>1. n \in Nat /\ DOMAIN f = 1..n /\ DOMAIN g = 1..n /\ \A k \in 1..n : f[k] = g[k] BY SeqFacts
<1>2. Weighed(rows, weight) = Total(f) /\ Weighed(rows, other) = Total(g) BY DEF Weighed
<1> HIDE DEF n, f, g
<1> QED BY <1>1, <1>2, TotalOfSame

\* A sum of nothing but zeros.
LEMMA TotalOfZeros ==
  ASSUME NEW S, IsFiniteSet(S), NEW f, DOMAIN f = S, \A x \in S : f[x] = 0
  PROVE  Total(f) = 0
<1>1. 0 \in Int /\ \A x \in S : f[x] \in Int /\ f[x] = 0 * f[x] OBVIOUS
<1>2. SumFunctionOnSet(f, S) = 0 * SumFunctionOnSet(f, S) BY <1>1, SumScales
<1>3. SumFunctionOnSet(f, S) \in Int BY <1>1, SumIsInt
<1>4. \A n \in Int : 0 * n = 0 OBVIOUS
<1> QED BY <1>2, <1>3, <1>4, TotalIsSum

LEMMA WeighedZero ==
  ASSUME NEW rows \in Seq(MovementRow), NEW weight, \A k \in 1..Len(rows) : weight[rows[k]] = 0
  PROVE  Weighed(rows, weight) = 0
<1> DEFINE n == Len(rows)
           f == [k \in DOMAIN rows |-> weight[rows[k]]]
<1>1. n \in Nat /\ DOMAIN f = 1..n /\ \A k \in 1..n : f[k] = 0 BY SeqFacts
<1>2. Weighed(rows, weight) = Total(f) BY DEF Weighed
<1> HIDE DEF n, f
<1>3. IsFiniteSet(1..n) BY <1>1, FS_Interval
<1> QED BY <1>1, <1>2, <1>3, TotalOfZeros

\* The properties' sums are these.
LEMMA LedgerSums ==
  ASSUME db.moves \in Seq(MovementRow), NEW t, NEW i
  PROVE  /\ ConsumedBy(t, i) = Weighed(db.moves, OfTicket(t, i))
         /\ Reported(SaleConsumption, i) = Weighed(db.moves, OfSales(i))
         /\ EnteredAsSold(i) = Weighed(db.moves, ByHand(i))
<1>1. \A k \in DOMAIN db.moves : db.moves[k] \in MovementRow BY SeqFacts
<1>2. ConsumedBy(t, i) = Weighed(db.moves, OfTicket(t, i)) BY <1>1 DEF ConsumedBy, Weighed, OfTicket
<1>3. Reported(SaleConsumption, i) = Weighed(db.moves, OfSales(i)) BY <1>1 DEF Reported, Weighed, OfSales
<1>4. EnteredAsSold(i) = Weighed(db.moves, ByHand(i)) BY <1>1 DEF EnteredAsSold, Weighed, ByHand
<1> QED BY <1>2, <1>3, <1>4

\* What a movement of a sale counts for.
LEMMA SaleRowCounts ==
  ASSUME NEW m \in MoveRows, m.type = SaleConsumption, NEW t, NEW i
  PROVE  /\ OfTicket(t, i)[RowOf(m)] = IF m.of = t /\ m.item = i THEN m.quantity ELSE 0
         /\ OfSales(i)[RowOf(m)] = IF m.item = i THEN m.quantity ELSE 0
         /\ ByHand(i)[RowOf(m)] = IF m.source = Manual /\ m.item = i THEN m.quantity ELSE 0
<1> DEFINE row == RowOf(m)
           q == m.quantity
           s == Sign[SaleConsumption]
<1>1. row \in MovementRow BY RowIsMovement
<1>2. /\ row.source = m.source /\ row.of = m.of /\ row.item = m.item /\ row.type = SaleConsumption
      /\ row.signed = q * s
  BY RowFields
<1>3. q \in Int BY DEF MoveRows
<1>4. s = -1 BY SignsAreInt
<1> HIDE DEF row, q, s
<1>5. -row.signed = q /\ row.signed * s = q BY <1>2, <1>3, <1>4
<1>6. OfTicket(t, i)[row] = IF m.of = t /\ m.item = i THEN q ELSE 0 BY <1>1, <1>2, <1>5 DEF OfTicket
<1>7. OfSales(i)[row] = IF m.item = i THEN q ELSE 0 BY <1>1, <1>2, <1>5 DEF OfSales, s
<1>8. ByHand(i)[row] = IF m.source = Manual /\ m.item = i THEN q ELSE 0 BY <1>1, <1>2, <1>5 DEF ByHand
<1> QED BY <1>6, <1>7, <1>8 DEF row, q

LEMMA OtherRowCounts ==
  ASSUME NEW m \in MoveRows, m.type # SaleConsumption, NEW t, NEW i
  PROVE  OfTicket(t, i)[RowOf(m)] = 0 /\ OfSales(i)[RowOf(m)] = 0 /\ ByHand(i)[RowOf(m)] = 0
<1>1. RowOf(m) \in MovementRow BY RowIsMovement
<1>2. RowOf(m).type # SaleConsumption BY RowFields
<1> QED BY <1>1, <1>2 DEF OfTicket, OfSales, ByHand

\* A ticket's movements come to what it needs.
LEMMA RequirementWeighs ==
  ASSUME NEW t \in Tickets, NEW old, NEW more, Longer(old, more, Requirement[t]), NEW u, NEW i \in Items
  PROVE  /\ Weighed(Rows(Requirement[t]), OfTicket(u, i)) = IF u = t THEN Needed[t][i] ELSE 0
         /\ Weighed(Rows(Requirement[t]), OfSales(i)) = Needed[t][i]
         /\ Weighed(Rows(Requirement[t]), ByHand(i)) = 0
         /\ Needed[t][i] \in Int
<1> DEFINE movements == Requirement[t]
           rows == Rows(movements)
           n == Len(movements)
           f == [k \in DOMAIN movements |-> IF movements[k].item = i THEN movements[k].quantity ELSE 0]
<1>1. /\ n \in Nat /\ rows \in Seq(MovementRow) /\ Len(rows) = n /\ DOMAIN rows = 1..n
      /\ \A k \in 1..n : rows[k] = RowOf(movements[k])
  BY RowsAreMovements, SeqFacts
<1>2. DOMAIN movements = 1..n
  <2>1. movements \in Seq(MoveRows \cup {Broken}) BY RequirementType
  <2> QED BY <2>1, SeqFacts
<1>3. \A k \in 1..n : movements[k] # Broken /\ movements[k] \in MoveRows BY DEF Longer
<1>4. ASSUME NEW k \in 1..n
      PROVE  movements[k].type = SaleConsumption /\ movements[k].of = t /\ movements[k].source # Manual
  <2>1. movements[k].source \in {TicketLine, VariantOption} /\ movements[k].type = SaleConsumption
        /\ movements[k].of = t
    BY <1>3, RequirementRows
  <2> QED BY <2>1, NamesDiffer
<1>5. Needed[t][i] = Total(f) BY DEF Needed
<1> HIDE DEF movements, rows, n
<1>6. DOMAIN f = 1..n /\ \A k \in 1..n : f[k] = IF movements[k].item = i THEN movements[k].quantity ELSE 0
  BY <1>2
<1> HIDE DEF f
<1>7. ASSUME NEW k \in 1..n
      PROVE  /\ OfTicket(u, i)[rows[k]] = IF u = t THEN f[k] ELSE 0
             /\ OfSales(i)[rows[k]] = f[k]
             /\ ByHand(i)[rows[k]] = 0
  <2> DEFINE m == movements[k]
  <2>1. m \in MoveRows /\ m.type = SaleConsumption /\ m.of = t /\ m.source # Manual /\ rows[k] = RowOf(m)
    BY <1>1, <1>3, <1>4
  <2>2. f[k] = IF m.item = i THEN m.quantity ELSE 0 BY <1>6
  <2> HIDE DEF m
  <2>3. /\ OfTicket(u, i)[RowOf(m)] = IF m.of = u /\ m.item = i THEN m.quantity ELSE 0
        /\ OfSales(i)[RowOf(m)] = IF m.item = i THEN m.quantity ELSE 0
        /\ ByHand(i)[RowOf(m)] = IF m.source = Manual /\ m.item = i THEN m.quantity ELSE 0
    BY <2>1, SaleRowCounts
  <2>4. CASE u = t BY <2>1, <2>2, <2>3, <2>4
  <2>5. CASE u # t BY <2>1, <2>2, <2>3, <2>5
  <2> QED BY <2>4, <2>5
<1>8. ASSUME NEW weight, \A k \in 1..n : weight[rows[k]] = f[k]
      PROVE  Weighed(rows, weight) = Total(f)
  <2> DEFINE g == [k \in DOMAIN rows |-> weight[rows[k]]]
  <2>1. DOMAIN g = 1..n /\ \A k \in 1..n : g[k] = f[k] BY <1>1, <1>8
  <2>2. Weighed(rows, weight) = Total(g) BY DEF Weighed
  <2> HIDE DEF g
  <2> QED BY <1>1, <1>6, <2>1, <2>2, TotalOfSame
<1>9. Weighed(rows, OfSales(i)) = Total(f) BY <1>7, <1>8
<1>10. Weighed(rows, ByHand(i)) = 0 BY <1>1, <1>7, WeighedZero
<1>11. Weighed(rows, OfTicket(u, i)) = IF u = t THEN Total(f) ELSE 0
  <2>1. CASE u = t
    <3>1. \A k \in 1..n : OfTicket(u, i)[rows[k]] = f[k] BY <1>7, <2>1
    <3> QED BY <1>8, <2>1, <3>1
  <2>2. CASE u # t
    <3>1. \A k \in 1..n : OfTicket(u, i)[rows[k]] = 0 BY <1>7, <2>2
    <3>2. Weighed(rows, OfTicket(u, i)) = 0 BY <1>1, <3>1, WeighedZero
    <3> QED BY <2>2, <3>2
  <2> QED BY <2>1, <2>2
<1>12. Total(f) \in Int
  <2>1. OfSales(i) \in [MovementRow -> Int] BY WeightsAreInt
  <2> QED BY <1>1, <1>9, <2>1, WeighedIsInt
<1> QED BY <1>5, <1>9, <1>10, <1>11, <1>12 DEF rows, movements

PaidTickets == {t \in Tickets : status[t] = Paid}

\* What is known of the ledger's sales: the tickets that left a print job are
\* the ones paid, each is in the ledger with all it needed, and nothing else is
\* but what a clerk entered.
LedgerInv ==
    /\ slips = PaidTickets
    /\ \A t \in PaidTickets : \A k \in DOMAIN Requirement[t] : Requirement[t][k] # Broken
    /\ \A t \in Tickets, i \in Items :
          Weighed(db.moves, OfTicket(t, i)) = IF t \in PaidTickets THEN Needed[t][i] ELSE 0
    /\ \A i \in Items :
          /\ Weighed(db.moves, OfSales(i))
               = Total([t \in PaidTickets |-> Needed[t][i]]) + Weighed(db.moves, ByHand(i))
          /\ Total([t \in PaidTickets |-> Needed[t][i]]) \in Int

\* Movements that are no ticket's leave the tickets' sums alone, and count in
\* the report as entered by hand or not at all.
LEMMA OthersKeepLedger ==
  ASSUME LedgerInv, TablesInv, UNCHANGED <<status, slips>>, NEW movements, Longer(db.moves, db'.moves, movements),
         \A k \in 1..Len(movements) :
            movements[k].type # SaleConsumption \/ (movements[k].source = Manual /\ movements[k].of = NoTicket)
  PROVE  LedgerInv'
<1> DEFINE old == db.moves
           more == db'.moves
           rows == Rows(movements)
           n == Len(movements)
<1>1. /\ old \in Seq(MovementRow) /\ Longer(old, more, movements) BY DEF TablesInv
<1> HIDE DEF old, more
<1>2. /\ n \in Nat /\ rows \in Seq(MovementRow) /\ Len(rows) = n
      /\ \A k \in 1..n : rows[k] = RowOf(movements[k]) /\ movements[k] \in MoveRows
  <2>1. \A k \in 1..n : movements[k] \in MoveRows BY <1>1 DEF Longer
  <2> QED BY <1>1, <2>1, RowsAreMovements
<1> HIDE DEF rows, n
<1>3. ASSUME NEW t \in Tickets, NEW i \in Items, NEW k \in 1..n PROVE OfTicket(t, i)[rows[k]] = 0
  <2> DEFINE m == movements[k]
  <2>1. m \in MoveRows /\ rows[k] = RowOf(m) BY <1>2
  <2>2. m.type # SaleConsumption \/ m.of = NoTicket BY DEF n
  <2>3. t # NoTicket BY InventoryAssumption
  <2> HIDE DEF m
  <2>4. CASE m.type # SaleConsumption BY <2>1, <2>4, OtherRowCounts
  <2>5. CASE m.type = SaleConsumption
    <3>1. OfTicket(t, i)[RowOf(m)] = IF m.of = t /\ m.item = i THEN m.quantity ELSE 0
      BY <2>1, <2>5, SaleRowCounts
    <3> QED BY <2>1, <2>2, <2>3, <2>5, <3>1
  <2> QED BY <2>4, <2>5
<1>4. ASSUME NEW i \in Items, NEW k \in 1..n PROVE OfSales(i)[rows[k]] = ByHand(i)[rows[k]]
  <2> DEFINE m == movements[k]
  <2>1. m \in MoveRows /\ rows[k] = RowOf(m) BY <1>2
  <2>2. m.type # SaleConsumption \/ m.source = Manual BY DEF n
  <2> HIDE DEF m
  <2>3. CASE m.type # SaleConsumption BY <2>1, <2>3, OtherRowCounts
  <2>4. CASE m.type = SaleConsumption
    <3>1. /\ OfSales(i)[RowOf(m)] = IF m.item = i THEN m.quantity ELSE 0
          /\ ByHand(i)[RowOf(m)] = IF m.source = Manual /\ m.item = i THEN m.quantity ELSE 0
      BY <2>1, <2>4, SaleRowCounts
    <3> QED BY <2>1, <2>2, <2>4, <3>1
  <2> QED BY <2>3, <2>4
<1>5. ASSUME NEW t \in Tickets, NEW i \in Items
      PROVE  Weighed(more, OfTicket(t, i)) = Weighed(old, OfTicket(t, i))
  <2>1. OfTicket(t, i) \in [MovementRow -> Int] BY WeightsAreInt
  <2>2. Weighed(rows, OfTicket(t, i)) = 0 BY <1>2, <1>3, WeighedZero
  <2>3. Weighed(more, OfTicket(t, i)) = Weighed(old, OfTicket(t, i)) + Weighed(rows, OfTicket(t, i))
    BY <1>1, <2>1, WeighedGrows DEF rows
  <2>4. Weighed(old, OfTicket(t, i)) \in Int BY <1>1, <2>1, WeighedIsInt
  <2> QED BY <2>2, <2>3, <2>4
<1>6. ASSUME NEW i \in Items
      PROVE  \E x \in Int : /\ Weighed(more, OfSales(i)) = Weighed(old, OfSales(i)) + x
                            /\ Weighed(more, ByHand(i)) = Weighed(old, ByHand(i)) + x
                            /\ Weighed(old, ByHand(i)) \in Int
  <2>1. OfSales(i) \in [MovementRow -> Int] /\ ByHand(i) \in [MovementRow -> Int] BY WeightsAreInt
  <2>2. Weighed(rows, OfSales(i)) = Weighed(rows, ByHand(i)) BY <1>2, <1>4, WeighedSame
  <2>3. Weighed(more, OfSales(i)) = Weighed(old, OfSales(i)) + Weighed(rows, OfSales(i))
    BY <1>1, <2>1, WeighedGrows DEF rows
  <2>4. Weighed(more, ByHand(i)) = Weighed(old, ByHand(i)) + Weighed(rows, ByHand(i))
    BY <1>1, <2>1, WeighedGrows DEF rows
  <2>5. Weighed(rows, ByHand(i)) \in Int /\ Weighed(old, ByHand(i)) \in Int BY <1>1, <1>2, <2>1, WeighedIsInt
  <2> QED BY <2>2, <2>3, <2>4, <2>5
<1>7. PaidTickets' = PaidTickets BY DEF PaidTickets
<1>8. ASSUME NEW i \in Items
      PROVE  Weighed(more, OfSales(i)) = Total([t \in PaidTickets |-> Needed[t][i]]) + Weighed(more, ByHand(i))
  <2> DEFINE sum == Total([t \in PaidTickets |-> Needed[t][i]])
  <2>1. sum \in Int /\ Weighed(old, OfSales(i)) = sum + Weighed(old, ByHand(i)) BY DEF LedgerInv, old
  <2> HIDE DEF sum
  <2>2. Weighed(more, OfSales(i)) = sum + Weighed(more, ByHand(i)) BY <1>6, <2>1
  <2> QED BY <2>2 DEF sum
<1>9. \A t \in Tickets, i \in Items :
         Weighed(more, OfTicket(t, i)) = IF t \in PaidTickets THEN Needed[t][i] ELSE 0
  BY <1>5 DEF LedgerInv, old
<1> QED BY <1>7, <1>8, <1>9 DEF LedgerInv, more

\* A ticket that is closed was not paid, and enters with all it needs.
LEMMA ClosingKeepsLedger ==
  ASSUME LedgerInv, TablesInv, EnvTyped, NEW t \in Tickets, t \notin slips,
         Longer(db.moves, db'.moves, Requirement[t]),
         status' = [status EXCEPT ![t] = Paid], slips' = slips \cup {t}
  PROVE  LedgerInv'
<1> DEFINE old == db.moves
           more == db'.moves
           rows == Rows(Requirement[t])
           before == PaidTickets
           after == PaidTickets'
<1>1. /\ old \in Seq(MovementRow) /\ Longer(old, more, Requirement[t]) BY DEF TablesInv
<1>2. rows \in Seq(MovementRow) BY <1>1, RowsAreMovements
<1>3. slips = before /\ t \notin before /\ before \subseteq Tickets BY DEF LedgerInv, PaidTickets
<1>4. after = before \cup {t}
  <2>1. \A u \in Tickets : status'[u] = Paid <=> (status[u] = Paid \/ u = t) BY DEF EnvTyped
  <2> QED BY <2>1 DEF PaidTickets
<1>5. \A u \in after : \A k \in DOMAIN Requirement[u] : Requirement[u][k] # Broken
  <2>1. Requirement[t] \in Seq(MoveRows \cup {Broken}) BY RequirementType
  <2>2. DOMAIN Requirement[t] = 1..Len(Requirement[t]) BY <2>1, SeqFacts
  <2>3. \A k \in DOMAIN Requirement[t] : Requirement[t][k] # Broken BY <1>1, <2>2 DEF Longer
  <2> QED BY <1>4, <2>3 DEF LedgerInv
<1> HIDE DEF old, more
<1>6. ASSUME NEW i \in Items
      PROVE  /\ Weighed(rows, OfSales(i)) = Needed[t][i] /\ Weighed(rows, ByHand(i)) = 0
             /\ Needed[t][i] \in Int
             /\ \A u \in Tickets : Weighed(rows, OfTicket(u, i)) = IF u = t THEN Needed[t][i] ELSE 0
  BY <1>1, RequirementWeighs
<1>7. ASSUME NEW weight \in [MovementRow -> Int]
      PROVE  /\ Weighed(more, weight) = Weighed(old, weight) + Weighed(rows, weight)
             /\ Weighed(old, weight) \in Int
  BY <1>1, <1>7, WeighedGrows, WeighedIsInt
<1> HIDE DEF rows
<1>8. ASSUME NEW u \in Tickets, NEW i \in Items
      PROVE  Weighed(more, OfTicket(u, i)) = IF u \in after THEN Needed[u][i] ELSE 0
  <2>1. OfTicket(u, i) \in [MovementRow -> Int] BY WeightsAreInt
  <2>2. /\ Weighed(more, OfTicket(u, i)) = Weighed(old, OfTicket(u, i)) + Weighed(rows, OfTicket(u, i))
        /\ Weighed(old, OfTicket(u, i)) \in Int
    BY <1>7, <2>1
  <2>3. Weighed(old, OfTicket(u, i)) = IF u \in before THEN Needed[u][i] ELSE 0 BY DEF LedgerInv, old
  <2>4. Weighed(rows, OfTicket(u, i)) = IF u = t THEN Needed[t][i] ELSE 0 BY <1>6
  <2> HIDE DEF before, after
  <2>5. CASE u = t
    <3>1. u \notin before /\ u \in after BY <1>3, <1>4, <2>5
    <3>2. Needed[u][i] \in Int BY <1>6, <2>5
    <3> QED BY <2>2, <2>3, <2>4, <2>5, <3>1, <3>2
  <2>6. CASE u # t
    <3>1. u \in before <=> u \in after BY <1>4, <2>6
    <3> QED BY <2>2, <2>3, <2>4, <2>6, <3>1
  <2> QED BY <2>5, <2>6
<1>9. ASSUME NEW i \in Items
      PROVE  /\ Weighed(more, OfSales(i)) = Total([u \in after |-> Needed[u][i]]) + Weighed(more, ByHand(i))
             /\ Total([u \in after |-> Needed[u][i]]) \in Int
  <2> DEFINE f == [u \in before |-> Needed[u][i]]
             g == [u \in after |-> Needed[u][i]]
             x == Needed[t][i]
  <2>1. OfSales(i) \in [MovementRow -> Int] /\ ByHand(i) \in [MovementRow -> Int] BY WeightsAreInt
  <2>2. /\ Weighed(more, OfSales(i)) = Weighed(old, OfSales(i)) + Weighed(rows, OfSales(i))
        /\ Weighed(more, ByHand(i)) = Weighed(old, ByHand(i)) + Weighed(rows, ByHand(i))
        /\ Weighed(old, ByHand(i)) \in Int
    BY <1>7, <2>1
  <2>3. Weighed(rows, OfSales(i)) = x /\ Weighed(rows, ByHand(i)) = 0 /\ x \in Int BY <1>6
  <2>4. Weighed(old, OfSales(i)) = Total(f) + Weighed(old, ByHand(i)) /\ Total(f) \in Int BY DEF LedgerInv, old
  <2>5. DOMAIN f = before /\ DOMAIN g = after /\ g[t] = x /\ \A u \in before : g[u] = f[u] BY <1>4
  <2>6. \A u \in after : g[u] \in Int
    <3>1. \A u \in before : Needed[u][i] \in Int
      <4> TAKE u \in before
      <4>1. u \in Tickets /\ Weighed(old, OfTicket(u, i)) = Needed[u][i] BY <1>3 DEF LedgerInv, old
      <4>2. OfTicket(u, i) \in [MovementRow -> Int] BY WeightsAreInt
      <4> QED BY <1>7, <4>1, <4>2
    <3> HIDE DEF before
    <3> QED BY <1>4, <2>3, <3>1
  <2> HIDE DEF before, after, f, g, x
  <2>7. IsFiniteSet(after) /\ IsFiniteSet(before) /\ t \in after /\ after \ {t} = before
    <3>1. IsFiniteSet(before) BY <1>3, InventoryAssumption, FS_Subset
    <3>2. IsFiniteSet(after) BY <1>4, <3>1, FS_AddElement
    <3> QED BY <1>3, <1>4, <3>1, <3>2
  <2>8. Total(g) = x + Total(f)
    <3>1. SumFunctionOnSet(g, after) = g[t] + SumFunctionOnSet(g, after \ {t}) BY <2>6, <2>7, SumWithout
    <3>2. SumFunctionOnSet(g, before) = SumFunctionOnSet(f, before) BY <2>5, <2>7, SumsAreEqual
    <3> QED BY <2>5, <2>7, <3>1, <3>2, TotalIsSum
  <2>9. Weighed(more, OfSales(i)) = Total(g) + Weighed(more, ByHand(i)) /\ Total(g) \in Int
    BY <2>2, <2>3, <2>4, <2>8
  <2> QED BY <2>9 DEF g
<1>10. slips' = after BY <1>3, <1>4
<1> QED BY <1>5, <1>8, <1>9, <1>10 DEF LedgerInv, more

LEMMA StepKeepsLedger ==
  ASSUME LedgerInv, TablesInv, EnvTyped, [Next]_vars
  PROVE  LedgerInv'
<1>1. UNCHANGED <<db, status, slips>> => LedgerInv' BY DEF LedgerInv, PaidTickets
<1>2. ASSUME NEW c \in Calls, CloseTicket(c) PROVE LedgerInv'
  <2> DEFINE t == loaded[c]
  <2>1. t # NoTicket BY <1>2 DEF CloseTicket
  <2>2. \/ /\ SlipFree(t) /\ Commit(Apply(Requirement[t]), db.receipts)
           /\ status' = [status EXCEPT ![t] = Paid] /\ slips' = slips \cup {t}
        \/ UNCHANGED <<db, status, slips>>
    BY <1>2 DEF CloseTicket, Dies, Rollback
  <2>3. t \in Tickets BY <2>1 DEF EnvTyped
  <2> HIDE DEF t
  <2>4. CASE /\ SlipFree(t) /\ Commit(Apply(Requirement[t]), db.receipts)
             /\ status' = [status EXCEPT ![t] = Paid] /\ slips' = slips \cup {t}
    <3>1. Requirement[t] \in Seq(MoveRows \cup {Broken}) BY <2>3, RequirementType
    <3>2. Longer(db.moves, db'.moves, Requirement[t]) BY <2>4, <3>1, CommitGrows
    <3>3. t \notin slips BY <2>4 DEF SlipFree
    <3> QED BY <2>3, <2>4, <3>2, <3>3, ClosingKeepsLedger
  <2> QED BY <1>1, <2>2, <2>4
<1>3. ASSUME NEW delivery \in Deliveries, NEW paid \in BOOLEAN, ProcessReceipt(delivery, paid) PROVE LedgerInv'
  <2> DEFINE more == Append(db.receipts, [delivery |-> delivery, expense |-> paid])
             rows == ReceiptMovements(delivery)
  <2>1. /\ \A k \in DOMAIN delivery : Acceptable(delivery[k])
        /\ Commit(Apply(rows), more) \/ db' = db
        /\ UNCHANGED <<status, slips>>
    BY <1>3 DEF ProcessReceipt, Dies, Rollback
  <2>2. rows \in Seq(MoveRows \cup {Broken}) /\ \A k \in 1..Len(rows) : rows[k].type = Purchase
    BY <2>1, ReceiptMovementsType DEF TablesInv
  <2> HIDE DEF more, rows
  <2>3. CASE Commit(Apply(rows), more)
    <3>1. Longer(db.moves, db'.moves, rows) BY <2>2, <2>3, CommitGrows
    <3>2. \A k \in 1..Len(rows) : rows[k].type # SaleConsumption BY <2>2, NamesDiffer
    <3> QED BY <2>1, <3>1, <3>2, OthersKeepLedger
  <2> QED BY <1>1, <2>1, <2>3
<1>4. ASSUME NEW x \in Corrections, CorrectStock(x) PROVE LedgerInv'
  <2> DEFINE m == MovementOf(x, x.type, Manual, 0)
             rows == <<m>>
  <2>1. /\ Acceptable(x) /\ (Commit(Apply(rows), db.receipts) \/ db' = db)
        /\ UNCHANGED <<status, slips>>
    BY <1>4 DEF CorrectStock, Dies, Rollback
  <2>2. rows \in Seq(MoveRows \cup {Broken}) /\ m.source = Manual /\ m.of = NoTicket
    BY <2>1, CorrectionType DEF NoTicket
  <2> HIDE DEF m
  <2>3. \A k \in 1..Len(rows) : rows[k] = m OBVIOUS
  <2> HIDE DEF rows
  <2>4. CASE Commit(Apply(rows), db.receipts)
    <3>1. Longer(db.moves, db'.moves, rows) BY <2>2, <2>4, CommitGrows
    <3>2. \A k \in 1..Len(rows) : rows[k].source = Manual /\ rows[k].of = NoTicket BY <2>2, <2>3
    <3> QED BY <2>1, <3>1, <3>2, OthersKeepLedger
  <2> QED BY <1>1, <2>1, <2>4
<1>5. ASSUME NEW c \in Calls, NEW t \in Tickets, LoadTicket(c, t) PROVE LedgerInv'
  BY <1>1, <1>5 DEF LoadTicket
<1>6. ASSUME Changes PROVE LedgerInv' BY <1>1, <1>6 DEF Changes
<1>7. ASSUME NEW i \in Items, DeactivateItem(i) PROVE LedgerInv' BY <1>6, <1>7 DEF DeactivateItem
<1>8. ASSUME NEW i \in Items, NEW m \in Minimums, ChangeMinimum(i, m) PROVE LedgerInv'
  BY <1>6, <1>8 DEF ChangeMinimum
<1>9. CASE GatewayChanges BY <1>6, <1>9 DEF GatewayChanges
<1>10. CASE ShiftChanges BY <1>6, <1>10 DEF ShiftChanges
<1>11. CASE UNCHANGED vars BY <1>1, <1>11 DEF vars
<1> QED BY <1>2, <1>3, <1>4, <1>5, <1>7, <1>8, <1>9, <1>10, <1>11 DEF Next

LEMMA InitLedger == Init => LedgerInv
<1> SUFFICES ASSUME Init PROVE LedgerInv OBVIOUS
<1>1. db.moves = <<>> /\ slips = {} BY DEF Init
<1>2. PaidTickets = {}
  <2>1. \A t \in Tickets : status[t] = InPayment BY DEF Init
  <2> QED BY <2>1, NamesDiffer DEF PaidTickets
<1>3. ASSUME NEW weight PROVE Weighed(db.moves, weight) = 0
  <2>1. db.moves \in Seq(MovementRow) /\ Len(db.moves) = 0 BY <1>1
  <2> QED BY <2>1, WeighedZero
<1>4. \A i \in Items : Total([t \in PaidTickets |-> Needed[t][i]]) = 0
  <2> TAKE i \in Items
  <2> DEFINE f == [t \in PaidTickets |-> Needed[t][i]]
  <2>1. DOMAIN f = {} BY <1>2
  <2> HIDE DEF f
  <2>2. Total(f) = 0 BY <2>1, SumOfNone, TotalIsSum
  <2> QED BY <2>2 DEF f
<1> QED BY <1>1, <1>2, <1>3, <1>4 DEF LedgerInv

LEMMA LedgerShowsSales == LedgerInv /\ TablesInv /\ RequirementsAreSold => ConsumedAsSold
<1> SUFFICES ASSUME LedgerInv, TablesInv, RequirementsAreSold PROVE ConsumedAsSold OBVIOUS
<1>1. db.moves \in Seq(MovementRow) BY DEF TablesInv
<1>2. \A t \in PaidTickets : Needed[t] = Sold[t] BY DEF LedgerInv, RequirementsAreSold, PaidTickets
<1>3. ASSUME NEW t \in Tickets, NEW i \in Items
      PROVE  ConsumedBy(t, i) = IF status[t] = Paid THEN Sold[t][i] ELSE 0
  <2>1. Weighed(db.moves, OfTicket(t, i)) = IF t \in PaidTickets THEN Needed[t][i] ELSE 0 BY DEF LedgerInv
  <2>2. t \in PaidTickets <=> status[t] = Paid BY DEF PaidTickets
  <2>3. ConsumedBy(t, i) = Weighed(db.moves, OfTicket(t, i)) BY <1>1, LedgerSums
  <2> QED BY <1>2, <2>1, <2>2, <2>3
<1>4. ASSUME NEW i \in Items
      PROVE  Reported(SaleConsumption, i) = Total([t \in PaidTickets |-> Sold[t][i]]) + EnteredAsSold(i)
  <2>1. Weighed(db.moves, OfSales(i)) = Total([t \in PaidTickets |-> Needed[t][i]]) + Weighed(db.moves, ByHand(i))
    BY DEF LedgerInv
  <2>2. [t \in PaidTickets |-> Needed[t][i]] = [t \in PaidTickets |-> Sold[t][i]] BY <1>2
  <2>3. Reported(SaleConsumption, i) = Weighed(db.moves, OfSales(i)) /\ EnteredAsSold(i) = Weighed(db.moves, ByHand(i))
    BY <1>1, LedgerSums
  <2> QED BY <2>1, <2>2, <2>3
<1> QED BY <1>3, <1>4 DEF ConsumedAsSold, PaidTickets

\* A paid ticket has consumed what it sold once and any other nothing, and the
\* consumption report adds up to the sales and what was entered by hand: for
\* any recipes whose expansion comes to their content, and for any number of
\* tickets and of calls closing them at the same time, dying or refused
\* (consume_inventory_for_paid_ticket, get_inventory_consumption).
THEOREM ConsumedAsSoldAlways == RequirementsAreSold => (Spec => []ConsumedAsSold)
<1> SUFFICES ASSUME RequirementsAreSold PROVE Spec => []ConsumedAsSold OBVIOUS
<1>1. Init => LedgerInv BY InitLedger
<1>2. LedgerInv /\ (TablesInv /\ EnvTyped) /\ [Next]_vars => LedgerInv' BY StepKeepsLedger
<1>3. LedgerInv /\ (TablesInv /\ EnvTyped) => ConsumedAsSold BY LedgerShowsSales
<1> QED BY <1>1, <1>2, <1>3, TablesHold, PTL DEF Spec

-----------------------------------------------------------------------------
(* Sums and members of sequences that are put together.                    *)

Within(s, P) == \A k \in DOMAIN s : s[k] \in P

LEMMA WeighedOfInts ==
  ASSUME NEW S, NEW s \in Seq(S), NEW weight \in [S -> Int]
  PROVE  Weighed(s, weight) \in Int
<1> DEFINE n == Len(s)
           f == [k \in DOMAIN s |-> weight[s[k]]]
<1>1. n \in Nat /\ DOMAIN f = 1..n /\ \A k \in 1..n : f[k] \in Int OBVIOUS
<1>2. Weighed(s, weight) = Total(f) BY DEF Weighed
<1> HIDE DEF n, f
<1>3. IsFiniteSet(1..n) BY <1>1, FS_Interval
<1> QED BY <1>1, <1>2, <1>3, TotalIsInt

\* g is f followed by h.
Follows(g, f, h, n, m) ==
    /\ DOMAIN f = 1..n /\ DOMAIN h = 1..m /\ DOMAIN g = 1..(n + m)
    /\ \A k \in 1..n : f[k] = g[k]
    /\ \A k \in 1..m : h[k] = g[n + k]
    /\ \A k \in 1..(n + m) : g[k] \in Int

LEMMA TotalFollows ==
  ASSUME NEW n \in Nat, NEW m \in Nat, NEW f, NEW h, NEW g, Follows(g, f, h, n, m)
  PROVE  Total(g) = Total(f) + Total(h)
BY TotalOfBoth DEF Follows

LEMMA ConcatFacts ==
  ASSUME NEW S, NEW s \in Seq(S), NEW t \in Seq(S)
  PROVE  /\ s \o t \in Seq(S) /\ DOMAIN (s \o t) = 1..(Len(s) + Len(t))
         /\ \A k \in 1..Len(s) : (s \o t)[k] = s[k]
         /\ \A k \in 1..Len(t) : (s \o t)[Len(s) + k] = t[k]
OBVIOUS

LEMMA WeighedConcat ==
  ASSUME NEW S, NEW s \in Seq(S), NEW t \in Seq(S), NEW weight \in [S -> Int]
  PROVE  Weighed(s \o t, weight) = Weighed(s, weight) + Weighed(t, weight)
<1> DEFINE n == Len(s)
           m == Len(t)
           both == s \o t
           f == [k \in DOMAIN s |-> weight[s[k]]]
           h == [k \in DOMAIN t |-> weight[t[k]]]
           g == [k \in DOMAIN both |-> weight[both[k]]]
<1>1. n \in Nat /\ m \in Nat /\ DOMAIN s = 1..n /\ DOMAIN t = 1..m BY SeqFacts
<1>2. /\ DOMAIN both = 1..(n + m) /\ both \in Seq(S)
      /\ \A k \in 1..n : both[k] = s[k]
      /\ \A k \in 1..m : both[n + k] = t[k]
  BY ConcatFacts
<1>3. Weighed(s, weight) = Total(f) /\ Weighed(t, weight) = Total(h) /\ Weighed(both, weight) = Total(g)
  BY DEF Weighed
<1>4. \A k \in 1..(n + m) : both[k] \in S BY <1>2
<1> HIDE DEF n, m, both
<1>5. DOMAIN f = 1..n /\ DOMAIN h = 1..m /\ DOMAIN g = 1..(n + m) BY <1>1, <1>2
<1>6. \A k \in 1..n : f[k] = g[k]
  <2>1. \A k \in 1..n : k \in 1..(n + m) BY <1>1
  <2> QED BY <1>1, <1>2, <2>1
<1>7. \A k \in 1..m : h[k] = g[n + k]
  <2>1. \A k \in 1..m : n + k \in 1..(n + m) BY <1>1
  <2> QED BY <1>1, <1>2, <2>1
<1>8. \A k \in 1..(n + m) : g[k] \in Int BY <1>2, <1>4
<1> HIDE DEF f, g, h
<1>9. n \in Nat /\ m \in Nat BY <1>1
<1>10. Follows(g, f, h, n, m) BY <1>5, <1>6, <1>7, <1>8 DEF Follows
<1>11. Total(g) = Total(f) + Total(h) BY <1>9, <1>10, TotalFollows
<1> QED BY <1>3, <1>11 DEF both

LEMMA WithinConcat ==
  ASSUME NEW S, NEW s \in Seq(S), NEW t \in Seq(S), NEW P, Within(s \o t, P)
  PROVE  Within(s, P) /\ Within(t, P)
<1> DEFINE n == Len(s)
           m == Len(t)
           both == s \o t
<1>1. n \in Nat /\ m \in Nat /\ DOMAIN s = 1..n /\ DOMAIN t = 1..m BY SeqFacts
<1>2. /\ DOMAIN both = 1..(n + m)
      /\ \A k \in 1..n : both[k] = s[k]
      /\ \A k \in 1..m : both[n + k] = t[k]
  BY ConcatFacts
<1>3. \A k \in 1..(n + m) : both[k] \in P BY <1>2 DEF Within
<1> HIDE DEF n, m, both
<1>4. \A k \in 1..n : k \in 1..(n + m) BY <1>1
<1>5. \A k \in 1..m : n + k \in 1..(n + m) BY <1>1
<1>6. \A k \in 1..n : s[k] \in P BY <1>2, <1>3, <1>4
<1>7. \A k \in 1..m : t[k] \in P BY <1>2, <1>3, <1>5
<1> QED BY <1>1, <1>6, <1>7 DEF Within

\* A sum over a concatenation is the sum of the sums.
LEMMA WeighedFlatten ==
  ASSUME NEW S, NEW seqs \in Seq(Seq(S)), NEW weight \in [S -> Int]
  PROVE  /\ Weighed(FlattenSeq(seqs), weight) = Total([k \in DOMAIN seqs |-> Weighed(seqs[k], weight)])
         /\ \A k \in DOMAIN seqs : Weighed(seqs[k], weight) \in Int
<1> DEFINE n == Len(seqs)
           all == [k \in DOMAIN seqs |-> Weighed(seqs[k], weight)]
<1>1. n \in Nat /\ DOMAIN seqs = 1..n /\ \A k \in 1..n : seqs[k] \in Seq(S) BY SeqFacts
<1>2. \A k \in 1..n : Weighed(seqs[k], weight) \in Int BY <1>1, WeighedOfInts
<1>3. CASE n = 0
  <2>1. FlattenSeq(seqs) = <<>> BY <1>3 DEF FlattenSeq
  <2>2. Weighed(<<>>, weight) = 0
    <3> DEFINE f == [k \in DOMAIN <<>> |-> weight[<<>>[k]]]
    <3>1. DOMAIN f = {} OBVIOUS
    <3>2. Weighed(<<>>, weight) = Total(f) BY DEF Weighed
    <3> HIDE DEF f
    <3> QED BY <3>1, <3>2, SumOfNone, TotalIsSum
  <2>3. DOMAIN all = {} BY <1>1, <1>3
  <2> HIDE DEF all
  <2>4. Total(all) = 0 BY <2>3, SumOfNone, TotalIsSum
  <2> QED BY <1>1, <1>2, <2>1, <2>2, <2>4 DEF all
<1>4. CASE n # 0
  <2>1. PICK g : /\ FlattenSeq(seqs) = g[n]
                 /\ \A i \in 1..n : g[i] \in Seq(S) /\ g[i] = Joined(seqs, g, i)
    BY <1>4, FlattenUnfolds
  <2> DEFINE Sums(i) == [k \in 1..i |-> all[k]]
             Bad == {i \in 1..n : Weighed(g[i], weight) # Total(Sums(i))}
  <2>2. Bad = {}
    <3> SUFFICES ASSUME Bad # {} PROVE FALSE OBVIOUS
    <3>1. Bad \subseteq Nat BY <1>1
    <3>2. PICK i \in Bad : \A k \in Bad : i <= k BY <3>1, LeastNatural
    <3>3. i \in 1..n /\ i \in Nat /\ Weighed(g[i], weight) # Total(Sums(i)) BY <1>1, <3>2
    <3>4. g[i] = Joined(seqs, g, i) BY <2>1, <3>3
    <3> DEFINE j == i - 1
               sums == Sums(j)
               more == Sums(i)
    <3>5. j \in Nat /\ i = j + 1 /\ DOMAIN sums = 1..j /\ DOMAIN more = 1..(j + 1) BY <3>3
    <3>6. /\ \A k \in 1..j : sums[k] = more[k]
          /\ \A k \in 1..(j + 1) : more[k] \in Int
          /\ more[j + 1] = Weighed(seqs[i], weight)
      BY <1>1, <1>2, <3>3
    <3>7. Total(more) = Total(sums) + Weighed(seqs[i], weight) /\ Total(sums) \in Int
      <4> HIDE DEF j, sums, more, Bad, Sums
      <4> QED BY <3>5, <3>6, TotalOfMore
    <3>8. CASE i = 1
      <4>1. g[i] = seqs[i] BY <3>4, <3>8 DEF Joined
      <4>2. DOMAIN sums = {} BY <3>8
      <4>3. Total(sums) = 0
        <5> HIDE DEF sums
        <5> QED BY <4>2, SumOfNone, TotalIsSum
      <4>4. Weighed(seqs[i], weight) \in Int BY <1>2, <3>3
      <4> HIDE DEF sums
      <4> QED BY <3>3, <3>7, <4>1, <4>3, <4>4
    <3>9. CASE i # 1
      <4>1. g[i] = g[j] \o seqs[i] /\ j \in 1..n /\ j \notin Bad
        <5>1. g[i] = g[j] \o seqs[i] BY <3>4, <3>9 DEF Joined
        <5>2. j \in 1..n /\ ~(i <= j) BY <3>3, <3>9
        <5> HIDE DEF Bad, j
        <5> QED BY <3>2, <5>1, <5>2
      <4>2. Weighed(g[j], weight) = Total(sums) BY <4>1
      <4>3. g[j] \in Seq(S) /\ seqs[i] \in Seq(S) BY <1>1, <2>1, <3>3, <4>1
      <4> HIDE DEF Bad, Sums, j, sums, more, all, n
      <4>4. Weighed(g[i], weight) = Weighed(g[j], weight) + Weighed(seqs[i], weight) BY <4>1, <4>3, WeighedConcat
      <4>5. Weighed(g[i], weight) = Total(more) BY <3>7, <4>2, <4>4
      <4> QED BY <3>3, <4>5 DEF more
    <3> QED BY <3>8, <3>9
  <2>3. Weighed(g[n], weight) = Total(Sums(n))
    <3>1. n \in 1..n BY <1>1, <1>4
    <3> HIDE DEF Sums
    <3> QED BY <2>2, <3>1
  <2>4. Sums(n) = all BY <1>1
  <2> QED BY <1>1, <1>2, <2>1, <2>3, <2>4
<1> QED BY <1>3, <1>4

LEMMA WithinFlatten ==
  ASSUME NEW S, NEW seqs \in Seq(Seq(S)), NEW P, Within(FlattenSeq(seqs), P)
  PROVE  \A k \in DOMAIN seqs : Within(seqs[k], P)
<1> DEFINE n == Len(seqs)
<1>1. n \in Nat /\ DOMAIN seqs = 1..n /\ \A k \in 1..n : seqs[k] \in Seq(S) BY SeqFacts
<1>2. CASE n # 0
  <2>1. PICK g : /\ FlattenSeq(seqs) = g[n]
                 /\ \A i \in 1..n : g[i] \in Seq(S) /\ g[i] = Joined(seqs, g, i)
    BY <1>2, FlattenUnfolds
  <2> DEFINE Bad == {x \in Nat : n - x \in 1..n /\ ~Within(g[n - x], P)}
  <2>2. Bad = {}
    <3> SUFFICES ASSUME Bad # {} PROVE FALSE OBVIOUS
    <3>1. PICK x \in Bad : \A k \in Bad : x <= k BY LeastNatural
    <3>2. x \in Nat /\ n - x \in 1..n /\ ~Within(g[n - x], P) OBVIOUS
    <3>3. x # 0 BY <1>1, <2>1, <3>2
    <3> DEFINE y == x - 1
    <3>4. y \in Nat /\ ~(x <= y) /\ n - y \in 1..n /\ n - y # 1 /\ (n - y) - 1 = n - x BY <1>1, <3>2, <3>3
    <3>5. Within(g[n - y], P)
      <4>1. y \notin Bad
        <5> HIDE DEF Bad, y
        <5> QED BY <3>1, <3>4
      <4> HIDE DEF y
      <4> QED BY <3>4, <4>1
    <3> DEFINE i == n - y
    <3>6. g[i] = g[n - x] \o seqs[i]
      <4>1. g[i] = Joined(seqs, g, i) BY <2>1, <3>4
      <4> QED BY <3>4, <4>1 DEF Joined
    <3>7. g[n - x] \in Seq(S) /\ seqs[i] \in Seq(S) BY <1>1, <2>1, <3>2, <3>4
    <3>8. Within(g[i], P) BY <3>5
    <3> HIDE DEF i, Bad, n, y
    <3> QED BY <3>2, <3>6, <3>7, <3>8, WithinConcat
  <2>3. ASSUME NEW i \in 1..n PROVE Within(seqs[i], P)
    <3>1. n - i \in Nat /\ n - (n - i) = i BY <1>1
    <3>2. Within(g[i], P)
      <4> DEFINE x == n - i
      <4>1. x \in Nat /\ n - x = i /\ x \notin Bad BY <2>2, <3>1
      <4> HIDE DEF x
      <4> QED BY <4>1
    <3>3. g[i] = Joined(seqs, g, i) BY <2>1
    <3>4. CASE i = 1 BY <3>2, <3>3, <3>4 DEF Joined
    <3>5. CASE i # 1
      <4>1. g[i] = g[i - 1] \o seqs[i] BY <3>3, <3>5 DEF Joined
      <4>2. i - 1 \in 1..n BY <1>1, <3>5
      <4>3. g[i - 1] \in Seq(S) /\ seqs[i] \in Seq(S) BY <1>1, <2>1, <4>2
      <4> HIDE DEF Bad, n
      <4> QED BY <3>2, <4>1, <4>3, WithinConcat
    <3> QED BY <3>4, <3>5
  <2> QED BY <1>1, <2>3
<1>3. CASE n = 0 BY <1>1, <1>3
<1> QED BY <1>2, <1>3

-----------------------------------------------------------------------------
(* What a unit of an item is made of.                                      *)

UnfoldContent(g, d) ==
    [i \in Items |-> [raw \in Items |->
        LET prep == Preparation[i]
        IN  IF prep = NoPreparation THEN (IF i = raw THEN 1 ELSE 0)
            ELSE IF d = 0 THEN 0
            ELSE Total([k \in DOMAIN prep.recipe |->
                     prep.recipe[k].quantity * g[d - 1][prep.recipe[k].item][raw]])
                 \div prep.yield]]

IsContent(g) == g = [d \in 0..Cardinality(Items) |-> UnfoldContent(g, d)]

LEMMA ContentIsDefined == \E g : IsContent(g)
<1> DEFINE n == Cardinality(Items)
           Good(m) == \E g : DOMAIN g = 0..n /\ g = [d \in 0..n |-> g[d]]
                                /\ \A d \in 0..n : d < m => g[d] = UnfoldContent(g, d)
           Bad == {m \in Nat : ~Good(m)}
<1>0. n \in Nat BY InventoryAssumption, FS_CardinalityType
<1> HIDE DEF n
<1>1. Good(0)
  <2> DEFINE g == [d \in 0..n |-> 0]
  <2>1. DOMAIN g = 0..n /\ g = [d \in 0..n |-> g[d]] OBVIOUS
  <2>2. \A d \in 0..n : ~(d < 0) BY <1>0
  <2> QED BY <2>1, <2>2
<1>2. ASSUME NEW m \in Nat, m > 0, Good(m - 1) PROVE Good(m)
  <2>1. PICK h : DOMAIN h = 0..n /\ \A d \in 0..n : d < m - 1 => h[d] = UnfoldContent(h, d)
    BY <1>2
  <2> DEFINE g == [d \in 0..n |-> IF d = m - 1 THEN UnfoldContent(h, d) ELSE h[d]]
  <2>2. ASSUME NEW d \in 0..n, d < m PROVE g[d] = UnfoldContent(g, d)
    <3>1. UnfoldContent(g, d) = UnfoldContent(h, d)
      <4>1. d # 0 => d - 1 \in 0..n /\ d - 1 # m - 1 BY <1>0, <2>2
      <4>2. d # 0 => g[d - 1] = h[d - 1] BY <4>1
      <4> HIDE DEF g
      <4>3. CASE d = 0 BY <4>3 DEF UnfoldContent
      <4>4. CASE d # 0
        <5>1. g[d - 1] = h[d - 1] BY <4>2, <4>4
        <5> QED BY <5>1 DEF UnfoldContent
      <4> QED BY <4>3, <4>4
    <3>2. g[d] = UnfoldContent(h, d)
      <4>1. CASE d = m - 1 BY <4>1
      <4>2. CASE d # m - 1
        <5>1. d < m - 1 BY <1>0, <2>2, <4>2
        <5>2. h[d] = UnfoldContent(h, d) BY <2>1, <5>1
        <5>3. g[d] = h[d] BY <4>2
        <5> QED BY <5>2, <5>3
      <4> QED BY <4>1, <4>2
    <3> QED BY <3>1, <3>2
  <2>3. DOMAIN g = 0..n /\ g = [d \in 0..n |-> g[d]] OBVIOUS
  <2> HIDE DEF g
  <2> QED BY <2>2, <2>3
<1>3. Bad = {}
  <2> SUFFICES ASSUME Bad # {} PROVE FALSE OBVIOUS
  <2>1. PICK m \in Bad : \A k \in Bad : m <= k BY LeastNatural
  <2>2. m \in Nat /\ ~Good(m) OBVIOUS
  <2> HIDE DEF Good
  <2>3. m # 0 BY <2>2, <1>1
  <2>4. m - 1 \in Nat /\ m - 1 \notin Bad
    <3> HIDE DEF Bad
    <3> QED BY <2>1, <2>2, <2>3
  <2>5. Good(m - 1) BY <2>4
  <2> QED BY <2>2, <2>3, <2>5, <1>2
<1> DEFINE top == n + 1
<1>4. top \in Nat /\ \A d \in 0..n : d < top BY <1>0
<1>5. Good(top)
  <2> HIDE DEF Good, top
  <2> QED BY <1>3, <1>4
<1>6. PICK g : g = [d \in 0..n |-> g[d]] /\ \A d \in 0..n : d < top => g[d] = UnfoldContent(g, d)
  BY <1>5
<1>7. \A d \in 0..n : g[d] = UnfoldContent(g, d) BY <1>4, <1>6
<1> QED BY <1>6, <1>7 DEF IsContent, n

LEMMA ContentUnfolds == IsContent(Content)
<1> DEFINE it == CHOOSE g : IsContent(g)
<1>1. IsContent(it) BY ContentIsDefined
<1>2. it = Content BY DEF IsContent, Content, UnfoldContent
<1> QED BY <1>1, <1>2

\* How much of a raw item needs ask for, counted one by one.
NeedOf(raw) ==
    [n \in Need \cup {Broken} |-> IF n # Broken /\ n.item = raw THEN n.quantity ELSE 0]

SoundNeeds == Need \ {Broken}

LEMMA NeedOfIsInt == ASSUME NEW raw PROVE NeedOf(raw) \in [Need \cup {Broken} -> Int]
<1>1. \A n \in Need \cup {Broken} : n # Broken => n.quantity \in Int BY DEF Need
<1> QED BY <1>1 DEF NeedOf

\* Dividing by a yield that divides.
LEMMA ExactQuotient ==
  ASSUME NEW y \in Nat, y > 0, NEW s \in Int
  PROVE  (y * s) \div y = s /\ (s * y) \div y = s
OBVIOUS

LEMMA QuotientOfMultiple ==
  ASSUME NEW y \in Nat, y > 0, NEW r \in Nat, r % y = 0
  PROVE  r = y * (r \div y) /\ r \div y \in Nat
OBVIOUS

LEMMA WeighedOne ==
  ASSUME NEW x, NEW weight, weight[x] \in Int
  PROVE  Weighed(<<x>>, weight) = weight[x]
<1> DEFINE f == [k \in DOMAIN <<x>> |-> weight[<<x>>[k]]]
           none == <<>>
<1>1. DOMAIN none = 1..0 /\ DOMAIN f = 1..(0 + 1) /\ f[0 + 1] = weight[x] OBVIOUS
<1>2. (\A k \in 1..0 : none[k] = f[k]) /\ \A k \in 1..(0 + 1) : f[k] \in Int OBVIOUS
<1>3. Weighed(<<x>>, weight) = Total(f) BY DEF Weighed
<1>4. Total(none) = 0 BY SumOfNone, TotalIsSum
<1> HIDE DEF f, none
<1>5. 0 \in Nat OBVIOUS
<1>6. Total(f) = Total(none) + f[0 + 1] BY <1>1, <1>2, <1>5, TotalOfMore
<1> QED BY <1>1, <1>3, <1>4, <1>6

\* The terms of g are those of f times c.
Multiplies(g, f, c, n) ==
    /\ DOMAIN f = 1..n /\ DOMAIN g = 1..n
    /\ \A k \in 1..n : f[k] \in Int
    /\ \A k \in 1..n : g[k] = c * f[k]

LEMMA TotalScales ==
  ASSUME NEW n \in Nat, NEW c \in Int, NEW f, NEW g, Multiplies(g, f, c, n)
  PROVE  Total(g) = c * Total(f) /\ Total(f) \in Int
<1>1. IsFiniteSet(1..n) BY FS_Interval
<1>2. \A k \in 1..n : f[k] \in Int /\ g[k] = c * f[k] BY DEF Multiplies
<1>3. SumFunctionOnSet(g, 1..n) = c * SumFunctionOnSet(f, 1..n) BY <1>1, <1>2, SumScales
<1>4. DOMAIN f = 1..n /\ DOMAIN g = 1..n BY DEF Multiplies
<1>5. Total(f) \in Int BY <1>1, <1>2, <1>4, TotalIsInt
<1>6. Total(f) = SumFunctionOnSet(f, 1..n) /\ Total(g) = SumFunctionOnSet(g, 1..n) BY <1>4, TotalIsSum
<1> QED BY <1>3, <1>5, <1>6

\* How much of raw a unit of item holds, below the preparations in path.
UnitContent(path, item, raw) == Content[Remaining(path)][item][raw]

LEMMA ContentAt ==
  ASSUME NEW path \in SUBSET Items, NEW i \in Items, NEW raw \in Items
  PROVE  /\ Preparation[i] = NoPreparation => UnitContent(path, i, raw) = IF i = raw THEN 1 ELSE 0
         /\ Preparation[i] # NoPreparation /\ i \notin path =>
              UnitContent(path, i, raw)
                = Total([k \in DOMAIN Preparation[i].recipe |->
                     Preparation[i].recipe[k].quantity
                       * UnitContent(path \cup {i}, Preparation[i].recipe[k].item, raw)])
                  \div Preparation[i].yield
<1> DEFINE d == Remaining(path)
<1>1. d \in Nat /\ d <= Cardinality(Items)
  <2>1. Cardinality(Items \ path) <= Cardinality(Items) BY InventoryAssumption, FS_Subset
  <2> QED BY <2>1, RemainingFalls DEF Remaining
<1>2. d \in 0..Cardinality(Items)
  <2>1. Cardinality(Items) \in Nat BY InventoryAssumption, FS_CardinalityType
  <2> HIDE DEF d
  <2> QED BY <1>1, <2>1
<1>3. Content[d] = UnfoldContent(Content, d)
  <2> HIDE DEF d
  <2> QED BY <1>2, ContentUnfolds DEF IsContent
<1>4. Content[d][i][raw] = UnfoldContent(Content, d)[i][raw] BY <1>3
<1>5. i \notin path => d # 0 /\ d - 1 = Remaining(path \cup {i})
  <2> SUFFICES ASSUME i \notin path PROVE d # 0 /\ d - 1 = Remaining(path \cup {i}) OBVIOUS
  <2>1. i \in Items \ path /\ path \cup {i} \in SUBSET Items OBVIOUS
  <2>2. Remaining(path \cup {i}) = d - 1 BY <2>1, RemainingFalls
  <2>3. Remaining(path \cup {i}) \in Nat BY <2>1, RemainingFalls
  <2> QED BY <1>1, <2>2, <2>3
<1>6. Preparation[i] = NoPreparation => UnitContent(path, i, raw) = IF i = raw THEN 1 ELSE 0
  BY <1>4 DEF UnfoldContent, UnitContent
<1>7. ASSUME Preparation[i] # NoPreparation, i \notin path
      PROVE  UnitContent(path, i, raw)
                = Total([k \in DOMAIN Preparation[i].recipe |->
                     Preparation[i].recipe[k].quantity
                       * UnitContent(path \cup {i}, Preparation[i].recipe[k].item, raw)])
                  \div Preparation[i].yield
  <2>1. d # 0 /\ Content[d - 1] = Content[Remaining(path \cup {i})] BY <1>5, <1>7
  <2> HIDE DEF d
  <2>2. UnfoldContent(Content, d)[i][raw]
          = Total([k \in DOMAIN Preparation[i].recipe |->
                Preparation[i].recipe[k].quantity * Content[d - 1][Preparation[i].recipe[k].item][raw]])
            \div Preparation[i].yield
    BY <1>7, <2>1 DEF UnfoldContent
  <2> USE DEF d
  <2>3. UnitContent(path, i, raw) = UnfoldContent(Content, d)[i][raw] BY <1>4 DEF UnitContent
  <2> HIDE DEF d
  <2> QED BY <2>1, <2>2, <2>3 DEF UnitContent
<1> QED BY <1>6, <1>7

\* Three numbers whose product does not depend on where one divides.
LEMMA DividedFirst ==
  ASSUME NEW y \in Nat, y > 0, NEW r \in Nat, r % y = 0, NEW q \in Nat, NEW c \in Int
  PROVE  /\ (q * r) \div y = q * (r \div y)
         /\ r * c = y * ((r \div y) * c)
         /\ ((q * r) \div y) * c = q * ((r \div y) * c)
         /\ (r \div y) * c \in Int
<1> DEFINE x == r \div y
<1>1. r = y * x /\ x \in Nat BY QuotientOfMultiple
<1> HIDE DEF x
<1>2. q * (y * x) = y * (q * x) /\ q * x \in Int BY <1>1
<1>3. (y * (q * x)) \div y = q * x
  <2> DEFINE z == q * x
  <2>1. z \in Int BY <1>2
  <2> HIDE DEF z
  <2>2. (y * z) \div y = z BY <2>1, ExactQuotient
  <2> QED BY <2>2 DEF z
<1>4. (q * r) \div y = q * x BY <1>1, <1>2, <1>3
<1>5. (y * x) * c = y * (x * c) /\ (q * x) * c = q * (x * c) /\ x * c \in Int BY <1>1
<1> QED BY <1>1, <1>4, <1>5 DEF x

\* What a need expands to holds the content of what is needed.
Balanced(path, n, raw) ==
    Within(Expansion[path][n], SoundNeeds) =>
        /\ UnitContent(path, n.item, raw) \in Int
        /\ Weighed(Expansion[path][n], NeedOf(raw)) = n.quantity * UnitContent(path, n.item, raw)

\* A preparation that is balanced in what it is made of is balanced.
LEMMA PreparationBalances ==
  ASSUME YieldsDivide, NEW raw \in Items, NEW path \in SUBSET Items, NEW n \in Need,
         Preparation[n.item] # NoPreparation, n.item \notin path,
         Preparation[n.item].yield > 0, Preparation[n.item].recipe # <<>>,
         \A m \in Need : Balanced(path \cup {n.item}, m, raw)
  PROVE  Balanced(path, n, raw)
<1> DEFINE i == n.item
           prep == Preparation[i]
           below == path \cup {i}
           recipe == prep.recipe
           y == prep.yield
           q == n.quantity
           len == Len(recipe)
           parts == [k \in DOMAIN recipe |-> Expansion[below][Ingredient(n, k)]]
           S == Need \cup {Broken}
           R(k) == recipe[k].quantity
           C(k) == UnitContent(below, recipe[k].item, raw)
           unit == [k \in DOMAIN recipe |-> (R(k) \div y) * C(k)]
           whole == [k \in DOMAIN recipe |-> R(k) * C(k)]
           sums == [k \in DOMAIN parts |-> Weighed(parts[k], NeedOf(raw))]
<1>1. i \in Items /\ q \in Nat /\ below \in SUBSET Items BY DEF Need
<1>2. prep \in PreparationRows BY <1>1, InventoryAssumption
<1>3. y \in Nat /\ y > 0 /\ recipe \in Seq(Need) BY <1>2 DEF PreparationRows
<1>4. /\ len \in Nat /\ DOMAIN recipe = 1..len
      /\ \A k \in 1..len : recipe[k] \in Need
  BY <1>3, SeqFacts
<1>5. \A k \in 1..len : recipe[k].item \in Items /\ R(k) \in Nat BY <1>4 DEF Need
<1>6. \A k \in 1..len : R(k) % y = 0 BY <1>1, <1>3, <1>4 DEF YieldsDivide
<1>7. \A k \in 1..len : Ingredient(n, k) \in Need BY <1>4, IngredientsAreNeeds
<1>8. \A k \in 1..len : /\ Ingredient(n, k).item = recipe[k].item
                        /\ Ingredient(n, k).quantity = (q * R(k)) \div y
  BY DEF Ingredient
<1>9. Expansion[path][n] = FlattenSeq(parts)
  <2>1. Expansion[path] = Unfold(Expansion, path) BY ExpansionUnfolds DEF IsExpansion
  <2>2. ~(prep = NoPreparation \/ i \in path \/ y <= 0 \/ recipe = <<>>) BY <1>3
  <2> QED BY <2>1, <2>2 DEF Unfold, Ingredient
<1>10. UnitContent(path, i, raw) = Total(whole) \div y BY <1>1, ContentAt
<1>11. \A m \in Need : Balanced(below, m, raw) OBVIOUS
<1>12. parts \in Seq(Seq(S)) /\ DOMAIN parts = 1..len /\ \A k \in 1..len : parts[k] = Expansion[below][Ingredient(n, k)]
  <2>1. \A k \in 1..len : Expansion[below][Ingredient(n, k)] \in Seq(S) BY <1>1, <1>7, ExpansionType
  <2> HIDE DEF S, below, i
  <2>2. DOMAIN parts = 1..len /\ \A k \in 1..len : parts[k] = Expansion[below][Ingredient(n, k)] BY <1>4
  <2>3. parts = [k \in 1..len |-> parts[k]] BY <1>4
  <2>4. \A k \in 1..len : parts[k] \in Seq(S) BY <2>1, <2>2
  <2> HIDE DEF parts
  <2>5. parts \in Seq(Seq(S)) BY <1>4, <2>3, <2>4, SeqMade
  <2> QED BY <2>2, <2>5
<1>13. /\ DOMAIN unit = 1..len /\ DOMAIN whole = 1..len /\ DOMAIN sums = 1..len
       /\ \A k \in 1..len : /\ unit[k] = (R(k) \div y) * C(k)
                            /\ whole[k] = R(k) * C(k)
                            /\ sums[k] = Weighed(parts[k], NeedOf(raw))
  BY <1>4, <1>12
<1> SUFFICES ASSUME Within(FlattenSeq(parts), SoundNeeds)
             PROVE  /\ UnitContent(path, i, raw) \in Int
                    /\ Weighed(FlattenSeq(parts), NeedOf(raw)) = q * UnitContent(path, i, raw)
  BY <1>9 DEF Balanced
<1> HIDE DEF parts, unit, whole, sums, len, y, q, recipe, R, C
<1>14. \A k \in 1..len : Within(parts[k], SoundNeeds) BY <1>12, WithinFlatten
<1>15. ASSUME NEW k \in 1..len
       PROVE  C(k) \in Int /\ sums[k] = ((q * R(k)) \div y) * C(k)
  <2>1. Balanced(below, Ingredient(n, k), raw) BY <1>7, <1>11
  <2>2. Within(Expansion[below][Ingredient(n, k)], SoundNeeds) BY <1>12, <1>14
  <2>3. C(k) = UnitContent(below, Ingredient(n, k).item, raw) BY <1>8 DEF C
  <2> HIDE DEF below
  <2>4. /\ C(k) \in Int
        /\ Weighed(Expansion[below][Ingredient(n, k)], NeedOf(raw)) = Ingredient(n, k).quantity * C(k)
    BY <2>1, <2>2, <2>3 DEF Balanced
  <2> QED BY <1>8, <1>12, <1>13, <2>4
<1>16. \A k \in 1..len : /\ unit[k] \in Int /\ whole[k] = y * unit[k] /\ sums[k] = q * unit[k]
  <2> TAKE k \in 1..len
  <2>1. C(k) \in Int /\ R(k) \in Nat /\ R(k) % y = 0 BY <1>5, <1>6, <1>15
  <2>2. /\ ((q * R(k)) \div y) * C(k) = q * ((R(k) \div y) * C(k))
        /\ R(k) * C(k) = y * ((R(k) \div y) * C(k))
        /\ (R(k) \div y) * C(k) \in Int
    BY <1>1, <1>3, <2>1, DividedFirst DEF q
  <2> QED BY <1>13, <1>15, <2>2
<1>17. y \in Int /\ q \in Int /\ len \in Nat BY <1>1, <1>3, <1>4 DEF q
<1>18. Total(whole) = y * Total(unit) /\ Total(unit) \in Int
  <2>1. Multiplies(whole, unit, y, len) BY <1>13, <1>16 DEF Multiplies
  <2> QED BY <1>17, <2>1, TotalScales
<1>19. Total(sums) = q * Total(unit)
  <2>1. Multiplies(sums, unit, q, len) BY <1>13, <1>16 DEF Multiplies
  <2> QED BY <1>17, <2>1, TotalScales
<1>20. UnitContent(path, i, raw) = Total(unit) BY <1>3, <1>10, <1>18, ExactQuotient
<1>21. Weighed(FlattenSeq(parts), NeedOf(raw)) = Total(sums)
  <2>1. NeedOf(raw) \in [S -> Int] BY NeedOfIsInt
  <2>2. parts \in Seq(Seq(S)) BY <1>12
  <2> DEFINE weight == NeedOf(raw)
  <2>3. sums = [k \in DOMAIN parts |-> Weighed(parts[k], weight)] BY DEF sums
  <2> HIDE DEF S, weight
  <2>4. Weighed(FlattenSeq(parts), weight) = Total([k \in DOMAIN parts |-> Weighed(parts[k], weight)])
    <3>1. weight \in [S -> Int] BY <2>1 DEF weight
    <3> QED BY <2>2, <3>1, WeighedFlatten
  <2> QED BY <2>3, <2>4 DEF weight
<1> QED BY <1>18, <1>19, <1>20, <1>21

LEMMA ExpansionBalances ==
  ASSUME YieldsDivide, NEW raw \in Items, NEW path \in SUBSET Items, NEW need \in Need
  PROVE  Balanced(path, need, raw)
<1> DEFINE Fits(p) == \A n \in Need : Balanced(p, n, raw)
           Bad == {r \in Nat : \E p \in SUBSET Items : Remaining(p) = r /\ ~Fits(p)}
<1>1. Bad = {}
  <2> SUFFICES ASSUME Bad # {} PROVE FALSE OBVIOUS
  <2>1. PICK r \in Bad : \A k \in Bad : r <= k BY LeastNatural
  <2>2. PICK p \in SUBSET Items : Remaining(p) = r /\ ~Fits(p) BY <2>1
  <2>3. ASSUME NEW n \in Need PROVE Balanced(p, n, raw)
    <3> DEFINE prep == Preparation[n.item]
    <3>0. Expansion[p] = Unfold(Expansion, p) BY ExpansionUnfolds DEF IsExpansion
    <3>1. n.item \in Items /\ n.quantity \in Nat BY DEF Need
    <3>2. CASE prep = NoPreparation
      <4>1. Expansion[p][n] = <<n>> BY <3>0, <3>2 DEF Unfold
      <4>2. UnitContent(p, n.item, raw) = IF n.item = raw THEN 1 ELSE 0 BY <3>1, <3>2, ContentAt
      <4>3. ASSUME Within(<<n>>, SoundNeeds)
            PROVE  Weighed(<<n>>, NeedOf(raw)) = n.quantity * UnitContent(p, n.item, raw)
        <5>1. n # Broken
          <6>1. 1 \in DOMAIN <<n>> /\ <<n>>[1] = n OBVIOUS
          <6> QED BY <4>3, <6>1 DEF Within, SoundNeeds
        <5>2. NeedOf(raw)[n] = IF n.item = raw THEN n.quantity ELSE 0 BY <5>1 DEF NeedOf
        <5>3. NeedOf(raw)[n] \in Int BY <3>1, <5>2
        <5>4. Weighed(<<n>>, NeedOf(raw)) = NeedOf(raw)[n] BY <5>3, WeighedOne
        <5> QED BY <3>1, <4>2, <5>2, <5>4
      <4> QED BY <4>1, <4>2, <4>3 DEF Balanced
    <3>3. CASE prep # NoPreparation /\ (n.item \in p \/ prep.yield <= 0 \/ prep.recipe = <<>>)
      <4>1. Expansion[p][n] = <<Broken>> BY <3>0, <3>3 DEF Unfold
      <4>2. ~Within(<<Broken>>, SoundNeeds)
        <5>1. 1 \in DOMAIN <<Broken>> /\ <<Broken>>[1] = Broken OBVIOUS
        <5> QED BY <5>1 DEF Within, SoundNeeds
      <4> QED BY <4>1, <4>2 DEF Balanced
    <3>4. CASE ~(prep = NoPreparation \/ n.item \in p \/ prep.yield <= 0 \/ prep.recipe = <<>>)
      <4>1. prep \in PreparationRows BY <3>1, <3>4, InventoryAssumption
      <4>2. prep.yield \in Int /\ prep.yield > 0 BY <3>4, <4>1 DEF PreparationRows
      <4> DEFINE q == p \cup {n.item}
      <4>4. Remaining(q) = r - 1 /\ Remaining(q) \in Nat /\ q \in SUBSET Items
        BY <2>2, <3>1, <3>4, RemainingFalls
      <4>5. Fits(q)
        <5>1. r \in Nat /\ ~(r <= Remaining(q)) BY <4>4
        <5>2. Remaining(q) \notin Bad
          <6> HIDE DEF Bad, q
          <6> QED BY <2>1, <5>1
        <5> HIDE DEF Fits, q
        <5> QED BY <4>4, <5>2
      <4> QED BY <3>4, <4>2, <4>5, PreparationBalances
    <3> QED BY <3>2, <3>3, <3>4
  <2> QED BY <2>2, <2>3
<1>2. Fits(path)
  <2> HIDE DEF Fits
  <2> QED BY <1>1, RemainingFalls
<1> QED BY <1>2

-----------------------------------------------------------------------------
(* A ticket asks for the content of what it sold.                          *)

\* What a need expands to, and the needs that can be expanded.
WeightOf(raw) == [n \in Need |-> Weighed(Expanded(n), NeedOf(raw))]

SoundRoots == {n \in Need : Within(Expanded(n), SoundNeeds)}

LEMMA WeightIsInt == ASSUME NEW raw PROVE WeightOf(raw) \in [Need -> Int]
<1> DEFINE S == Need \cup {Broken}
<1>1. ASSUME NEW n \in Need PROVE Weighed(Expanded(n), NeedOf(raw)) \in Int
  <2>1. Expanded(n) \in Seq(S) BY ExpansionType DEF Expanded
  <2>2. NeedOf(raw) \in [S -> Int] BY NeedOfIsInt
  <2> HIDE DEF S
  <2> QED BY <2>1, <2>2, WeighedOfInts
<1> QED BY <1>1 DEF WeightOf

LEMMA RootsBalance ==
  ASSUME YieldsDivide, NEW raw \in Items, NEW n \in SoundRoots
  PROVE  /\ UnitContent({}, n.item, raw) \in Int
         /\ WeightOf(raw)[n] = n.quantity * UnitContent({}, n.item, raw)
<1>1. n \in Need /\ Within(Expanded(n), SoundNeeds) BY DEF SoundRoots
<1>2. {} \in SUBSET Items OBVIOUS
<1>3. Balanced({}, n, raw) BY <1>1, <1>2, ExpansionBalances
<1>4. WeightOf(raw)[n] = Weighed(Expansion[{}][n], NeedOf(raw)) BY <1>1 DEF WeightOf, Expanded
<1> QED BY <1>1, <1>3, <1>4 DEF Balanced, Expanded

LEMMA ExpandedAllWeighs ==
  ASSUME NEW needs \in Seq(Need), NEW raw
  PROVE  /\ Weighed(ExpandedAll(needs), NeedOf(raw)) = Weighed(needs, WeightOf(raw))
         /\ Within(ExpandedAll(needs), SoundNeeds) => Within(needs, SoundRoots)
<1> DEFINE S == Need \cup {Broken}
           n == Len(needs)
           parts == [k \in DOMAIN needs |-> Expanded(needs[k])]
           weight == NeedOf(raw)
<1>1. n \in Nat /\ DOMAIN needs = 1..n /\ \A k \in 1..n : needs[k] \in Need BY SeqFacts
<1>2. ExpandedAll(needs) = FlattenSeq(parts) BY DEF ExpandedAll
<1>3. /\ DOMAIN parts = 1..n /\ parts = [k \in 1..n |-> parts[k]]
      /\ \A k \in 1..n : parts[k] = Expanded(needs[k])
  BY <1>1
<1>4. \A k \in 1..n : Expanded(needs[k]) \in Seq(S) BY <1>1, ExpansionType DEF Expanded
<1>5. weight \in [S -> Int] BY NeedOfIsInt
<1> HIDE DEF S, n, parts, weight
<1>6. parts \in Seq(Seq(S))
  <2>1. \A k \in 1..n : parts[k] \in Seq(S) BY <1>3, <1>4
  <2> QED BY <1>1, <1>3, <2>1, SeqMade
<1>7. Weighed(FlattenSeq(parts), weight) = Total([k \in DOMAIN parts |-> Weighed(parts[k], weight)])
  BY <1>5, <1>6, WeighedFlatten
<1>8. Total([k \in DOMAIN parts |-> Weighed(parts[k], weight)]) = Weighed(needs, WeightOf(raw))
  <2> DEFINE f == [k \in DOMAIN parts |-> Weighed(parts[k], weight)]
             g == [k \in DOMAIN needs |-> WeightOf(raw)[needs[k]]]
  <2>1. \A k \in 1..n : f[k] = Weighed(Expanded(needs[k]), weight) BY <1>3
  <2>2. \A k \in 1..n : g[k] = Weighed(Expanded(needs[k]), weight) BY <1>1 DEF WeightOf, weight
  <2>3. DOMAIN f = 1..n /\ DOMAIN g = 1..n BY <1>1, <1>3
  <2>4. Weighed(needs, WeightOf(raw)) = Total(g) BY DEF Weighed
  <2>5. \A k \in 1..n : f[k] = g[k] BY <2>1, <2>2
  <2> HIDE DEF f, g
  <2>6. Total(f) = Total(g) BY <1>1, <2>3, <2>5, TotalOfSame
  <2> QED BY <2>4, <2>6 DEF f
<1>9. ASSUME Within(FlattenSeq(parts), SoundNeeds) PROVE Within(needs, SoundRoots)
  <2>1. \A k \in 1..n : Within(parts[k], SoundNeeds) BY <1>3, <1>6, <1>9, WithinFlatten
  <2>2. \A k \in 1..n : needs[k] \in SoundRoots BY <1>1, <1>3, <2>1 DEF SoundRoots
  <2> QED BY <1>1, <2>2 DEF Within
<1> QED BY <1>2, <1>7, <1>8, <1>9 DEF weight

\* A recipe times n holds n times the content of the recipe.
LEMMA RecipeWeighs ==
  ASSUME YieldsDivide, NEW recipe \in Seq(RecipeRows), NEW n \in Nat, NEW raw \in Items,
         Within(Scaled(recipe, n), SoundRoots)
  PROVE  /\ Weighed(Scaled(recipe, n), WeightOf(raw)) = n * ContentOf(recipe, raw)
         /\ ContentOf(recipe, raw) \in Int
<1> DEFINE len == Len(recipe)
           needs == Scaled(recipe, n)
           C(k) == UnitContent({}, recipe[k].item, raw)
           f == [k \in DOMAIN recipe |-> recipe[k].quantity * C(k)]
           g == [k \in DOMAIN needs |-> WeightOf(raw)[needs[k]]]
<1>1. /\ len \in Nat /\ DOMAIN recipe = 1..len
      /\ \A k \in 1..len : recipe[k] \in RecipeRows
  BY SeqFacts
<1>2. DOMAIN needs = 1..len /\ \A k \in 1..len : needs[k] = [recipe[k] EXCEPT !.quantity = @ * n]
  BY <1>1 DEF Scaled
<1>3. ASSUME NEW k \in 1..len
      PROVE  /\ recipe[k].quantity \in Nat
             /\ needs[k].item = recipe[k].item
             /\ needs[k].quantity = recipe[k].quantity * n
  <2>1. recipe[k] \in RecipeRows BY <1>1
  <2>2. needs[k] = [recipe[k] EXCEPT !.quantity = @ * n] BY <1>2
  <2> HIDE DEF needs
  <2> QED BY <2>1, <2>2 DEF RecipeRows
<1>4. \A k \in 1..len : needs[k] \in SoundRoots BY <1>2 DEF Within
<1> HIDE DEF needs
<1>5. \A k \in 1..len : /\ UnitContent({}, needs[k].item, raw) \in Int
                        /\ WeightOf(raw)[needs[k]] = needs[k].quantity * UnitContent({}, needs[k].item, raw)
  BY <1>4, RootsBalance
<1>6. \A k \in 1..len : C(k) \in Int /\ g[k] = (recipe[k].quantity * n) * C(k) BY <1>2, <1>3, <1>5
<1>7. \A k \in 1..len : f[k] = recipe[k].quantity * C(k) BY <1>1
<1>8. \A k \in 1..len : f[k] \in Int /\ g[k] = n * f[k]
  <2> TAKE k \in 1..len
  <2>1. \A a \in Nat, c \in Int : a * c \in Int /\ (a * n) * c = n * (a * c) OBVIOUS
  <2>2. recipe[k].quantity \in Nat /\ C(k) \in Int BY <1>3, <1>6
  <2> HIDE DEF C, f, g
  <2> QED BY <1>6, <1>7, <2>1, <2>2
<1>9. DOMAIN f = 1..len /\ DOMAIN g = 1..len BY <1>1, <1>2
<1>10. Weighed(needs, WeightOf(raw)) = Total(g) BY DEF Weighed
<1>11. ContentOf(recipe, raw) = Total(f)
  <2>1. Remaining({}) = Cardinality(Items)
    <3>1. Items \ {} = Items OBVIOUS
    <3> QED BY <3>1 DEF Remaining
  <2> QED BY <2>1 DEF ContentOf, UnitContent
<1> HIDE DEF f, g, len, C
<1>12. n \in Int /\ len \in Nat BY <1>1
<1>13. Multiplies(g, f, n, len) BY <1>8, <1>9 DEF Multiplies
<1>14. Total(g) = n * Total(f) /\ Total(f) \in Int BY <1>12, <1>13, TotalScales
<1> QED BY <1>10, <1>11, <1>14 DEF needs

LEMMA WeighedNone == ASSUME NEW weight PROVE Weighed(<<>>, weight) = 0
<1> DEFINE f == [k \in DOMAIN <<>> |-> weight[<<>>[k]]]
<1>1. DOMAIN f = {} OBVIOUS
<1>2. Weighed(<<>>, weight) = Total(f) BY DEF Weighed
<1> HIDE DEF f
<1> QED BY <1>1, <1>2, SumOfNone, TotalIsSum

\* What a chosen option takes of raw, for one unit of its line.
SoldBy(s, raw) ==
    s.quantity * (ContentOf(OptionRecipe[s.option], raw)
                  + IF OptionProduct[s.option] = NoProduct THEN 0
                    ELSE ContentOf(Recipe[OptionProduct[s.option]], raw)
                           * (IF s.option \in PlainOptions THEN 1 ELSE Multiplier[OptionProduct[s.option]]))

LEMMA SelectionWeighs ==
  ASSUME YieldsDivide, NEW line \in LineRows, NEW s \in SelectionRows, NEW raw \in Items,
         Within(SelectionNeeds(line, s), SoundRoots)
  PROVE  /\ Weighed(SelectionNeeds(line, s), WeightOf(raw)) = line.quantity * SoldBy(s, raw)
         /\ SoldBy(s, raw) \in Int
<1> DEFINE p == OptionProduct[s.option]
           l == line.quantity
           q == s.quantity
           n == l * q
           f == IF s.option \in PlainOptions THEN 1 ELSE Multiplier[p]
           first == IF p = NoProduct THEN <<>> ELSE Scaled(Recipe[p], n * f)
           second == Scaled(OptionRecipe[s.option], n)
           a == ContentOf(Recipe[p], raw)
           b == ContentOf(OptionRecipe[s.option], raw)
           weight == WeightOf(raw)
<1>1. l \in Nat /\ q \in Nat /\ s.option \in DOMAIN OptionRecipe BY DEF LineRows, SelectionRows
<1>2. n \in Nat BY <1>1
<1>3. OptionRecipe[s.option] \in Seq(RecipeRows)
  BY <1>1, InventoryAssumption DEF OptionRows, RecipeRows
<1>4. p = NoProduct \/ p \in DOMAIN Recipe BY <1>1, InventoryAssumption
<1>5. ASSUME p # NoProduct PROVE Recipe[p] \in Seq(RecipeRows) /\ f \in Nat /\ n * f \in Nat
  <2>1. f \in Nat BY <1>4, <1>5, InventoryAssumption
  <2> HIDE DEF n, f
  <2> QED BY <1>2, <1>4, <1>5, <2>1, InventoryAssumption
<1>6. SelectionNeeds(line, s) = first \o second BY DEF SelectionNeeds
<1>7. weight \in [Need -> Int] BY WeightIsInt
<1>8. SoldBy(s, raw) = q * (b + IF p = NoProduct THEN 0 ELSE a * f) BY DEF SoldBy
<1> HIDE DEF p, l, q, f, a, b, weight
<1>9. second \in Seq(Need)
  <2> HIDE DEF n
  <2> QED BY <1>2, <1>3, ScaledAreNeeds
<1>10. first \in Seq(Need)
  <2>1. CASE p = NoProduct BY <2>1
  <2>2. CASE p # NoProduct
    <3> DEFINE m == n * f
    <3>1. m \in Nat /\ Recipe[p] \in Seq(RecipeRows) BY <1>5, <2>2
    <3>2. first = Scaled(Recipe[p], m) BY <2>2
    <3> HIDE DEF m, first
    <3> QED BY <3>1, <3>2, ScaledAreNeeds
  <2> QED BY <2>1, <2>2
<1>11. Within(first, SoundRoots) /\ Within(second, SoundRoots)
  <2> HIDE DEF first, second
  <2> QED BY <1>6, <1>9, <1>10, WithinConcat
<1>12. Weighed(first \o second, weight) = Weighed(first, weight) + Weighed(second, weight)
  <2> HIDE DEF first, second
  <2> QED BY <1>7, <1>9, <1>10, WeighedConcat
<1>13. Weighed(second, weight) = n * b /\ b \in Int
  <2> HIDE DEF n
  <2> QED BY <1>2, <1>3, <1>11, RecipeWeighs DEF b, weight
<1>14. CASE p = NoProduct
  <2>1. Weighed(first, weight) = 0 BY <1>14, WeighedNone
  <2>2. SoldBy(s, raw) = q * b BY <1>8, <1>13, <1>14
  <2>3. (l * q) * b = l * (q * b) /\ q * b \in Int /\ (l * q) * b \in Int BY <1>1, <1>13 DEF l, q
  <2> HIDE DEF first, second
  <2>4. Weighed(SelectionNeeds(line, s), weight) = n * b BY <1>6, <1>12, <1>13, <2>1, <2>3
  <2> QED BY <2>2, <2>3, <2>4 DEF l, weight
<1>15. CASE p # NoProduct
  <2> DEFINE m == n * f
  <2>1. m \in Nat /\ f \in Nat /\ Recipe[p] \in Seq(RecipeRows) BY <1>5, <1>15
  <2>2. first = Scaled(Recipe[p], m) BY <1>15
  <2> HIDE DEF m, first, second
  <2>3. Weighed(first, weight) = m * a /\ a \in Int
    BY <1>11, <2>1, <2>2, RecipeWeighs DEF a, weight
  <2>4. SoldBy(s, raw) = q * (b + a * f) BY <1>8, <1>15
  <2>5. l \in Nat /\ q \in Nat BY <1>1 DEF l, q
  <2>6. ((l * q) * f) * a + (l * q) * b = l * (q * (b + a * f)) /\ q * (b + a * f) \in Int
    BY <1>13, <2>1, <2>3, <2>5
  <2>7. Weighed(SelectionNeeds(line, s), weight) = ((l * q) * f) * a + (l * q) * b
    BY <1>6, <1>12, <1>13, <2>3 DEF m
  <2> QED BY <2>4, <2>6, <2>7 DEF l, weight
<1> QED BY <1>14, <1>15

\* What a movement that is to be made takes of raw.
TakenOf(t, raw) ==
    [m \in SaleRows(t) \cup {Broken} |-> IF m # Broken /\ m.item = raw THEN m.quantity ELSE 0]

SoundRows(t) == SaleRows(t) \ {Broken}

LEMMA TakenIsInt ==
  ASSUME NEW t, NEW raw PROVE TakenOf(t, raw) \in [SaleRows(t) \cup {Broken} -> Int]
<1>1. \A m \in SaleRows(t) \cup {Broken} : m # Broken => m.quantity \in Int BY DEF SaleRows
<1> QED BY <1>1 DEF TakenOf

LEMMA ConsumptionWeighs ==
  ASSUME NEW t \in Tickets, NEW needs \in Seq(Need \cup {Broken}),
         NEW source \in {TicketLine, VariantOption}, NEW raw,
         Within(Consumption(t, needs, source), SoundRows(t))
  PROVE  /\ Within(needs, SoundNeeds)
         /\ Weighed(Consumption(t, needs, source), TakenOf(t, raw)) = Weighed(needs, NeedOf(raw))
<1> DEFINE n == Len(needs)
           rows == Consumption(t, needs, source)
           Row(x) == [item |-> x.item, quantity |-> x.quantity,
                      type |-> SaleConsumption, source |-> source, of |-> t]
           f == [k \in DOMAIN rows |-> TakenOf(t, raw)[rows[k]]]
           g == [k \in DOMAIN needs |-> NeedOf(raw)[needs[k]]]
<1>1. n \in Nat /\ DOMAIN needs = 1..n /\ \A k \in 1..n : needs[k] \in Need \cup {Broken} BY SeqFacts
<1>2. DOMAIN rows = 1..n /\ \A k \in 1..n : rows[k] = IF needs[k] = Broken THEN Broken ELSE Row(needs[k])
  BY <1>1 DEF Consumption
<1>3. \A k \in 1..n : rows[k] \in SoundRows(t) BY <1>2 DEF Within
<1>4. Weighed(rows, TakenOf(t, raw)) = Total(f) /\ Weighed(needs, NeedOf(raw)) = Total(g) BY DEF Weighed
<1>5. \A x : Row(x).item = x.item /\ Row(x).quantity = x.quantity OBVIOUS
<1> HIDE DEF n, rows, Row
<1>6. \A k \in 1..n : needs[k] # Broken /\ rows[k] = Row(needs[k]) BY <1>2, <1>3 DEF SoundRows
<1>7. Within(needs, SoundNeeds) BY <1>1, <1>6 DEF Within, SoundNeeds
<1>8. ASSUME NEW k \in 1..n PROVE f[k] = g[k]
  <2>1. rows[k].item = needs[k].item /\ rows[k].quantity = needs[k].quantity BY <1>5, <1>6
  <2>2. rows[k] \in SaleRows(t) /\ rows[k] # Broken BY <1>3 DEF SoundRows
  <2>3. TakenOf(t, raw)[rows[k]] = IF rows[k].item = raw THEN rows[k].quantity ELSE 0
    BY <2>2 DEF TakenOf
  <2>4. NeedOf(raw)[needs[k]] = IF needs[k].item = raw THEN needs[k].quantity ELSE 0
    BY <1>1, <1>6 DEF NeedOf
  <2> QED BY <1>1, <1>2, <2>1, <2>3, <2>4
<1>9. DOMAIN f = 1..n /\ DOMAIN g = 1..n BY <1>1, <1>2
<1> HIDE DEF f, g
<1>10. Total(f) = Total(g) BY <1>1, <1>8, <1>9, TotalOfSame
<1> QED BY <1>4, <1>7, <1>10 DEF rows

LEMMA SelectionsWeigh ==
  ASSUME YieldsDivide, NEW line \in LineRows, NEW raw \in Items,
         NEW parts, parts = [k \in DOMAIN line.selections |-> SelectionNeeds(line, line.selections[k])],
         Within(FlattenSeq(parts), SoundRoots)
  PROVE  /\ FlattenSeq(parts) \in Seq(Need)
         /\ Weighed(FlattenSeq(parts), WeightOf(raw))
              = line.quantity * Total([k \in DOMAIN line.selections |-> SoldBy(line.selections[k], raw)])
         /\ Total([k \in DOMAIN line.selections |-> SoldBy(line.selections[k], raw)]) \in Int
<1> DEFINE all == line.selections
           l == line.quantity
           n == Len(all)
           weight == WeightOf(raw)
           f == [k \in DOMAIN all |-> SoldBy(all[k], raw)]
           g == [k \in DOMAIN parts |-> Weighed(parts[k], weight)]
<1>1. l \in Nat /\ all \in Seq(SelectionRows) BY DEF LineRows
<1>2. n \in Nat /\ DOMAIN all = 1..n /\ \A k \in 1..n : all[k] \in SelectionRows BY <1>1, SeqFacts
<1>3. DOMAIN parts = 1..n /\ parts = [k \in 1..n |-> parts[k]] /\ \A k \in 1..n : parts[k] = SelectionNeeds(line, all[k])
  BY <1>2
<1>4. \A k \in 1..n : parts[k] \in Seq(Need) BY <1>2, <1>3, SelectionNeedsType
<1>5. weight \in [Need -> Int] BY WeightIsInt
<1> HIDE DEF n, all, l, weight
<1>6. parts \in Seq(Seq(Need)) BY <1>2, <1>3, <1>4, SeqMade
<1>7. \A k \in 1..n : Within(parts[k], SoundRoots) BY <1>3, <1>6, WithinFlatten
<1>8. Weighed(FlattenSeq(parts), weight) = Total([k \in DOMAIN parts |-> Weighed(parts[k], weight)])
  BY <1>5, <1>6, WeighedFlatten
<1>9. ASSUME NEW k \in 1..n PROVE f[k] \in Int /\ g[k] = l * f[k]
  <2>1. Within(SelectionNeeds(line, all[k]), SoundRoots) BY <1>3, <1>7
  <2>2. /\ Weighed(SelectionNeeds(line, all[k]), weight) = l * SoldBy(all[k], raw)
        /\ SoldBy(all[k], raw) \in Int
    BY <1>2, <2>1, SelectionWeighs DEF l, weight
  <2> QED BY <1>2, <1>3, <2>2
<1>10. DOMAIN f = 1..n /\ DOMAIN g = 1..n BY <1>2, <1>3
<1>11. FlattenSeq(parts) \in Seq(Need) BY <1>6, FlattenIsSeq
<1>12. Weighed(FlattenSeq(parts), weight) = Total(g) BY <1>8
<1> HIDE DEF f, g
<1>13. l \in Int /\ n \in Nat BY <1>1, <1>2
<1>14. Multiplies(g, f, l, n) BY <1>9, <1>10 DEF Multiplies
<1>15. Total(g) = l * Total(f) /\ Total(f) \in Int BY <1>13, <1>14, TotalScales
<1> QED BY <1>11, <1>12, <1>15 DEF f, all, l, weight

LEMMA LineWeighs ==
  ASSUME YieldsDivide, NEW t \in Tickets, NEW line \in LineRows, NEW raw \in Items,
         Within(LineMovements(t, line), SoundRows(t))
  PROVE  Weighed(LineMovements(t, line), TakenOf(t, raw)) = IF line.consumable THEN SoldIn(line, raw) ELSE 0
<1> DEFINE l == line.quantity
           x == Multiplier[line.product]
           recipe == Recipe[line.product]
           m == l * x
           base == Scaled(recipe, m)
           parts == [k \in DOMAIN line.selections |-> SelectionNeeds(line, line.selections[k])]
           more == FlattenSeq(parts)
           own == Consumption(t, ExpandedAll(base), TicketLine)
           chosen == Consumption(t, ExpandedAll(more), VariantOption)
           S == SaleRows(t) \cup {Broken}
           options == Total([k \in DOMAIN line.selections |-> SoldBy(line.selections[k], raw)])
<1>1. CASE ~line.consumable
  <2>1. LineMovements(t, line) = <<>> BY <1>1 DEF LineMovements
  <2> QED BY <1>1, <2>1, WeighedNone
<1>2. CASE line.consumable
  <2>1. LineMovements(t, line) = own \o chosen BY <1>2 DEF LineMovements
  <2>2. l \in Nat /\ line.product \in DOMAIN Recipe /\ line.selections \in Seq(SelectionRows) BY DEF LineRows
  <2>3. x \in Nat /\ recipe \in Seq(RecipeRows) BY <2>2, InventoryAssumption
  <2>4. m \in Nat BY <2>2, <2>3
  <2>5. SoldIn(line, raw) = l * (x * ContentOf(recipe, raw) + options) BY DEF SoldIn, SoldBy
  <2>6. more \in Seq(Need)
    <3>1. Len(line.selections) \in Nat /\ DOMAIN line.selections = 1..Len(line.selections) BY <2>2
    <3>2. \A k \in DOMAIN line.selections : SelectionNeeds(line, line.selections[k]) \in Seq(Need)
      BY <2>2, SelectionNeedsType
    <3>3. parts \in Seq(Seq(Need)) BY <3>1, <3>2
    <3> HIDE DEF parts
    <3> QED BY <3>3, FlattenIsSeq
  <2>7. parts = [k \in DOMAIN line.selections |-> SelectionNeeds(line, line.selections[k])] OBVIOUS
  <2> HIDE DEF l, x, recipe, parts
  <2>8. base \in Seq(Need)
    <3> HIDE DEF m
    <3> QED BY <2>3, <2>4, ScaledAreNeeds
  <2> HIDE DEF base, more
  <2>9. ExpandedAll(base) \in Seq(Need \cup {Broken}) /\ ExpandedAll(more) \in Seq(Need \cup {Broken})
    BY <2>6, <2>8, ExpandedAllType
  <2>10. own \in Seq(S) /\ chosen \in Seq(S) BY <2>9, ConsumptionType
  <2>11. TakenOf(t, raw) \in [S -> Int] BY TakenIsInt
  <2>12. Within(own, SoundRows(t)) /\ Within(chosen, SoundRows(t))
    <3>1. Within(own \o chosen, SoundRows(t)) BY <2>1
    <3> HIDE DEF own, chosen, S
    <3> QED BY <2>10, <3>1, WithinConcat
  <2>13. Weighed(own \o chosen, TakenOf(t, raw)) = Weighed(own, TakenOf(t, raw)) + Weighed(chosen, TakenOf(t, raw))
    <3> HIDE DEF own, chosen, S
    <3> QED BY <2>10, <2>11, WeighedConcat
  <2>14. Weighed(own, TakenOf(t, raw)) = m * ContentOf(recipe, raw) /\ ContentOf(recipe, raw) \in Int
    <3>1. /\ Within(ExpandedAll(base), SoundNeeds)
          /\ Weighed(own, TakenOf(t, raw)) = Weighed(ExpandedAll(base), NeedOf(raw))
      BY <2>9, <2>12, ConsumptionWeighs
    <3>2. /\ Weighed(ExpandedAll(base), NeedOf(raw)) = Weighed(base, WeightOf(raw))
          /\ Within(base, SoundRoots)
      BY <2>8, <3>1, ExpandedAllWeighs
    <3>3. Weighed(base, WeightOf(raw)) = m * ContentOf(recipe, raw) /\ ContentOf(recipe, raw) \in Int
      <4>1. Within(Scaled(recipe, m), SoundRoots) BY <3>2 DEF base
      <4> HIDE DEF m
      <4> QED BY <2>3, <2>4, <4>1, RecipeWeighs DEF base
    <3> QED BY <3>1, <3>2, <3>3
  <2>15. Weighed(chosen, TakenOf(t, raw)) = l * options /\ options \in Int
    <3>1. /\ Within(ExpandedAll(more), SoundNeeds)
          /\ Weighed(chosen, TakenOf(t, raw)) = Weighed(ExpandedAll(more), NeedOf(raw))
      BY <2>9, <2>12, ConsumptionWeighs
    <3>2. /\ Weighed(ExpandedAll(more), NeedOf(raw)) = Weighed(more, WeightOf(raw))
          /\ Within(more, SoundRoots)
      BY <2>6, <3>1, ExpandedAllWeighs
    <3>3. Weighed(more, WeightOf(raw)) = l * options /\ options \in Int
      BY <2>7, <3>2, SelectionsWeigh DEF more, l
    <3> QED BY <3>1, <3>2, <3>3
  <2> DEFINE c == ContentOf(recipe, raw)
  <2>16. c \in Int BY <2>14
  <2> HIDE DEF c, options, own, chosen
  <2>17. (l * x) * c + l * options = l * (x * c + options) BY <2>2, <2>3, <2>15, <2>16 DEF l
  <2>18. Weighed(LineMovements(t, line), TakenOf(t, raw)) = (l * x) * c + l * options
    BY <2>1, <2>13, <2>14, <2>15 DEF c
  <2> QED BY <1>2, <2>5, <2>17, <2>18 DEF c
<1> QED BY <1>1, <1>2

\* When yields divide what preparations are made of, a ticket that can be
\* consumed asks for exactly what it sold: the expansion of its recipes, which
\* follows preparations inside preparations and divides at each, comes to the
\* content of its products and options
\* (_create_sale_consumption_movements_expanding_preparations,
\* consume_inventory_for_paid_ticket).
THEOREM ExpansionIsContent == YieldsDivide => RequirementsAreSold
<1> SUFFICES ASSUME YieldsDivide, NEW t \in Tickets,
                    \A k \in DOMAIN Requirement[t] : Requirement[t][k] # Broken
             PROVE  Needed[t] = Sold[t]
  BY DEF RequirementsAreSold
<1> DEFINE movements == Requirement[t]
           lines == Lines[t]
           n == Len(lines)
           S == SaleRows(t) \cup {Broken}
           parts == [k \in DOMAIN lines |-> LineMovements(t, lines[k])]
<1>1. lines \in Seq(LineRows) BY InventoryAssumption
<1>2. n \in Nat /\ DOMAIN lines = 1..n /\ \A k \in 1..n : lines[k] \in LineRows BY <1>1, SeqFacts
<1>3. movements \in Seq(S) BY RequirementType
<1>4. movements = FlattenSeq(parts) BY DEF Requirement
<1>5. DOMAIN parts = 1..n /\ parts = [k \in 1..n |-> parts[k]] /\ \A k \in 1..n : parts[k] = LineMovements(t, lines[k])
  BY <1>2
<1>6. \A k \in DOMAIN movements : movements[k] \in S /\ movements[k] # Broken BY <1>3, SeqFacts
<1>7. Within(movements, SoundRows(t))
  <2> HIDE DEF movements
  <2> QED BY <1>6 DEF Within, SoundRows
<1>8. \A k \in 1..n : LineMovements(t, lines[k]) \in Seq(S) BY <1>2, LineMovementsType
<1> HIDE DEF movements, n, S, parts, lines
<1>9. parts \in Seq(Seq(S))
  <2>1. \A k \in 1..n : parts[k] \in Seq(S) BY <1>5, <1>8
  <2> QED BY <1>2, <1>5, <2>1, SeqMade
<1>10. \A k \in 1..n : Within(LineMovements(t, lines[k]), SoundRows(t)) BY <1>4, <1>5, <1>7, <1>9, WithinFlatten
<1>11. ASSUME NEW raw \in Items PROVE Needed[t][raw] = Sold[t][raw]
  <2> DEFINE weight == TakenOf(t, raw)
             f == [k \in DOMAIN parts |-> Weighed(parts[k], weight)]
             g == [k \in DOMAIN lines |-> IF lines[k].consumable THEN SoldIn(lines[k], raw) ELSE 0]
             h == [k \in DOMAIN movements |-> weight[movements[k]]]
             e == [k \in DOMAIN movements |-> IF movements[k].item = raw THEN movements[k].quantity ELSE 0]
  <2>1. weight \in [S -> Int] BY TakenIsInt DEF S
  <2>2. Sold[t][raw] = Total(g) BY DEF Sold, lines
  <2>3. Needed[t][raw] = Total(e) BY DEF Needed, movements
  <2>4. h = e BY <1>6 DEF TakenOf, S
  <2>5. Weighed(movements, weight) = Total(h) BY DEF Weighed
  <2>6. \A k \in 1..n : f[k] = g[k] BY <1>2, <1>5, <1>10, LineWeighs
  <2>7. DOMAIN f = 1..n /\ DOMAIN g = 1..n BY <1>2, <1>5
  <2> HIDE DEF weight
  <2>8. Weighed(movements, weight) = Total(f) BY <1>4, <1>9, <2>1, WeighedFlatten
  <2> HIDE DEF f, g, h, e
  <2>9. Total(f) = Total(g) BY <1>2, <2>6, <2>7, TotalOfSame
  <2> QED BY <2>2, <2>3, <2>4, <2>5, <2>8, <2>9
<1>12. Needed[t] = [raw \in Items |-> Needed[t][raw]] BY DEF Needed
<1>13. Sold[t] = [raw \in Items |-> Sold[t][raw]] BY DEF Sold
<1>14. [raw \in Items |-> Needed[t][raw]] = [raw \in Items |-> Sold[t][raw]] BY <1>11
<1> QED BY <1>12, <1>13, <1>14

\* So, under exact yields alone, a paid ticket has consumed what it sold and
\* the consumption report shows it (consume_inventory_for_paid_ticket,
\* get_inventory_consumption).
THEOREM ExactYieldsConsumeAsSold == YieldsDivide => (Spec => []ConsumedAsSold)
<1> SUFFICES ASSUME YieldsDivide PROVE Spec => []ConsumedAsSold OBVIOUS
<1>1. RequirementsAreSold BY ExpansionIsContent
<1> QED BY <1>1, ConsumedAsSoldAlways, PTL
=============================================================================
