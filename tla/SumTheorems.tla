---------------------------- MODULE SumTheorems ----------------------------
(***************************************************************************)
(* What SumFunctionOnSet, the fold with which the models add up the rows   *)
(* of a table (sum(row.amount for row in rows) in the services), returns   *)
(* for any finite set.                                                     *)
(*                                                                         *)
(* The fold is defined by a recursion over the subsets of the set.  What   *)
(* holds of it is shown by a minimal counterexample: were some subset one, *)
(* a minimal one would exist, and taking one element out of it gives a     *)
(* smaller one.                                                            *)
(***************************************************************************)
EXTENDS Integers, Functions, FiniteSets, FiniteSetTheorems, WellFoundedInduction, TLAPS

\* The member that an unfolding of the fold takes out of the set s.
Chosen(s) == CHOOSE x \in s : TRUE

\* What one unfolding of the sum of f gives for the set s.
Unfolded(f, g, s) == IF s = {} THEN 0 ELSE f[Chosen(s)] + g[s \ {Chosen(s)}]

\* g is the sum of f over each subset of S.
IsSum(f, g, S) == g = [s \in SUBSET S |-> Unfolded(f, g, s)]

-----------------------------------------------------------------------------
(* Least elements, and the sum as the function its recursion defines.      *)

\* Every non-empty set of naturals has a least element.
LEMMA LeastNatural ==
  ASSUME NEW T, T \subseteq Nat, T # {}
  PROVE  \E n \in T : \A m \in T : n <= m
<1>1. PICK n \in T : \A m \in T : ~(<<m, n>> \in OpToRel(<, Nat))
  BY WFMin, NatLessThanWellFounded
<1>2. \A m \in T : ~(m < n)
  BY <1>1 DEF OpToRel
<1> QED BY <1>2

\* The recursion of the fold has a solution on every finite set.
LEMMA SumIsDefined ==
  ASSUME NEW f, NEW S, IsFiniteSet(S)
  PROVE  \E g : IsSum(f, g, S)
<1> DEFINE Good(n) == \E g : /\ DOMAIN g = SUBSET S
                             /\ g = [s \in SUBSET S |-> g[s]]
                             /\ \A s \in SUBSET S : Cardinality(s) <= n => g[s] = Unfolded(f, g, s)
           Bad == {n \in Nat : ~Good(n)}
<1>1. \A s \in SUBSET S : /\ IsFiniteSet(s) /\ Cardinality(s) \in Nat /\ Cardinality(s) <= Cardinality(S)
                          /\ Cardinality(s) = 0 <=> s = {}
                          /\ s # {} => Chosen(s) \in s /\ Cardinality(s \ {Chosen(s)}) = Cardinality(s) - 1
  <2> TAKE s \in SUBSET S
  <2>1. IsFiniteSet(s) /\ Cardinality(s) <= Cardinality(S) BY FS_Subset
  <2>2. Cardinality(s) \in Nat BY <2>1, FS_CardinalityType
  <2>3. Cardinality(s) = 0 <=> s = {} BY <2>1, FS_EmptySet
  <2>4. s # {} => Chosen(s) \in s BY DEF Chosen
  <2>5. s # {} => Cardinality(s \ {Chosen(s)}) = Cardinality(s) - 1 BY <2>1, <2>4, FS_RemoveElement
  <2> QED BY <2>1, <2>2, <2>3, <2>4, <2>5
<1>2. Good(0)
  <2> DEFINE g == [s \in SUBSET S |-> 0]
  <2>1. ASSUME NEW s \in SUBSET S, Cardinality(s) <= 0 PROVE g[s] = Unfolded(f, g, s)
    <3>0. Cardinality(s) \in Nat BY <1>1
    <3>01. Cardinality(s) = 0 BY <2>1, <3>0
    <3>1. s = {} BY <1>1, <3>01, Zenon
    <3>2. Unfolded(f, g, s) = 0 BY <3>1 DEF Unfolded
    <3>3. g[s] = 0 OBVIOUS
    <3> QED BY <3>2, <3>3
  <2>2. DOMAIN g = SUBSET S /\ g = [s \in SUBSET S |-> g[s]] OBVIOUS
  <2> HIDE DEF g
  <2> QED BY <2>1, <2>2
<1>3. ASSUME NEW n \in Nat, n > 0, Good(n - 1) PROVE Good(n)
  <2>1. PICK h : /\ DOMAIN h = SUBSET S
                 /\ \A s \in SUBSET S : Cardinality(s) <= n - 1 => h[s] = Unfolded(f, h, s)
    BY <1>3
  <2> DEFINE g == [s \in SUBSET S |-> IF Cardinality(s) = n THEN Unfolded(f, h, s) ELSE h[s]]
  <2>2. ASSUME NEW s \in SUBSET S, Cardinality(s) <= n PROVE g[s] = Unfolded(f, g, s)
    <3>1. Unfolded(f, g, s) = Unfolded(f, h, s)
      <4>1. CASE s = {} BY <4>1 DEF Unfolded
      <4>2. CASE s # {}
        <5>1. s \ {Chosen(s)} \in SUBSET S /\ Cardinality(s \ {Chosen(s)}) # n
          BY <4>2, <1>1, <2>2
        <5>2. g[s \ {Chosen(s)}] = h[s \ {Chosen(s)}] BY <5>1
        <5> HIDE DEF g
        <5> QED BY <5>2, <4>2 DEF Unfolded
      <4> QED BY <4>1, <4>2
    <3>2. g[s] = Unfolded(f, h, s)
      <4>0. Cardinality(s) \in Nat BY <1>1
      <4>1. CASE Cardinality(s) = n BY <4>1
      <4>2. CASE Cardinality(s) # n
        <5>1. h[s] = Unfolded(f, h, s) BY <2>1, <2>2, <4>0, <4>2
        <5>2. g[s] = h[s] BY <4>2
        <5> QED BY <5>1, <5>2
      <4> QED BY <4>1, <4>2
    <3> QED BY <3>1, <3>2
  <2>3. DOMAIN g = SUBSET S /\ g = [s \in SUBSET S |-> g[s]] OBVIOUS
  <2> HIDE DEF g
  <2> QED BY <2>2, <2>3
<1>4. Bad = {}
  <2> SUFFICES ASSUME Bad # {} PROVE FALSE OBVIOUS
  <2>1. PICK n \in Bad : \A m \in Bad : n <= m BY LeastNatural
  <2>0. n \in Nat /\ ~Good(n) OBVIOUS
  <2> HIDE DEF Good
  <2>2. n # 0 BY <2>0, <1>2
  <2>3. n - 1 \in Nat /\ n - 1 \notin Bad
    <3> HIDE DEF Bad
    <3> QED BY <2>0, <2>1, <2>2
  <2>4. Good(n - 1) BY <2>3
  <2> QED BY <2>0, <2>2, <2>4, <1>3
<1>5. Good(Cardinality(S)) BY <1>4, FS_CardinalityType
<1>6. PICK g : /\ g = [s \in SUBSET S |-> g[s]]
               /\ \A s \in SUBSET S : Cardinality(s) <= Cardinality(S) => g[s] = Unfolded(f, g, s)
  BY <1>5
<1>7. \A s \in SUBSET S : g[s] = Unfolded(f, g, s) BY <1>1, <1>6
<1>8. IsSum(f, g, S) BY <1>6, <1>7 DEF IsSum
<1> QED BY <1>8

\* SumFunctionOnSet is a solution of its recursion.
LEMMA SumUnfolds ==
  ASSUME NEW f, NEW S, IsFiniteSet(S)
  PROVE  \E g : IsSum(f, g, S) /\ SumFunctionOnSet(f, S) = g[S]
<1> DEFINE it == CHOOSE g : g = [s \in SUBSET S |-> Unfolded(f, g, s)]
<1>1. IsSum(f, it, S) BY SumIsDefined DEF IsSum
<1>2. SumFunctionOnSet(f, S) = it[S]
  BY DEF SumFunctionOnSet, FoldFunctionOnSet, MapThenFoldSet, Unfolded, Chosen
<1> QED BY <1>1, <1>2

\* Every non-empty family of subsets of a finite set has a minimal member.
LEMMA MinimalSubset ==
  ASSUME NEW S, IsFiniteSet(S), NEW B, B \subseteq SUBSET S, B # {}
  PROVE  \E T \in B : \A U \in B : U \subseteq T => U = T
<1>1. B \subseteq FiniteSubsetsOf(S) BY FS_Subset DEF FiniteSubsetsOf
<1>2. PICK T \in B : \A U \in B : ~(<<U, T>> \in StrictSubsetOrdering(S))
  BY <1>1, FS_StrictSubsetOrderingWellFounded, WFMin
<1>3. \A U \in B : U \subseteq T => U = T
  BY <1>2 DEF StrictSubsetOrdering
<1> QED BY <1>3

\* Two sums of the same terms are equal, whatever larger sets they sum.
LEMMA SumsAgree ==
  ASSUME NEW S, IsFiniteSet(S), NEW U \in SUBSET S,
         NEW f, NEW g, IsSum(f, g, S), NEW k, NEW h, IsSum(k, h, U),
         \A x \in U : f[x] = k[x]
  PROVE  \A T \in SUBSET U : g[T] = h[T]
<1> DEFINE Bad == {T \in SUBSET U : g[T] # h[T]}
<1> SUFFICES ASSUME Bad # {} PROVE FALSE
  OBVIOUS
<1>1. IsFiniteSet(U) BY FS_Subset
<1>2. PICK T \in Bad : \A V \in Bad : V \subseteq T => V = T
  <2>1. Bad \subseteq SUBSET U OBVIOUS
  <2> HIDE DEF Bad
  <2> QED BY <1>1, <2>1, MinimalSubset
<1>3. T \in SUBSET U /\ T \in SUBSET S /\ g[T] # h[T] OBVIOUS
<1>4. g[T] = Unfolded(f, g, T) /\ h[T] = Unfolded(k, h, T) BY <1>3 DEF IsSum
<1>5. CASE T = {} BY <1>3, <1>4, <1>5 DEF Unfolded
<1>6. CASE T # {}
  <2> DEFINE c == Chosen(T)
  <2>1. c \in T BY <1>6 DEF Chosen
  <2>2. g[T \ {c}] = h[T \ {c}] BY <1>2, <1>3, <2>1
  <2>3. f[c] = k[c] BY <1>3, <2>1
  <2> HIDE DEF c
  <2>4. g[T] = f[c] + g[T \ {c}] /\ h[T] = k[c] + h[T \ {c}] BY <1>4, <1>6 DEF Unfolded, c
  <2> QED BY <1>3, <2>2, <2>3, <2>4
<1> QED BY <1>5, <1>6

\* A sum of integers is an integer, and any of its terms can be taken out first.
LEMMA SumTakesOut ==
  ASSUME NEW S, IsFiniteSet(S), NEW f, \A x \in S : f[x] \in Int, NEW g, IsSum(f, g, S)
  PROVE  \A T \in SUBSET S : g[T] \in Int /\ \A x \in T : g[T] = f[x] + g[T \ {x}]
<1>0. \A T \in SUBSET S : g[T] = Unfolded(f, g, T) BY DEF IsSum
<1>1. ASSUME NEW T \in SUBSET S, T # {}
      PROVE  /\ Chosen(T) \in T /\ f[Chosen(T)] \in Int
             /\ g[T] = f[Chosen(T)] + g[T \ {Chosen(T)}]
  <2>1. Chosen(T) \in T BY <1>1 DEF Chosen
  <2> QED BY <1>0, <1>1, <2>1 DEF Unfolded
<1>2. \A T \in SUBSET S : g[T] \in Int
  <2> DEFINE Bad == {T \in SUBSET S : g[T] \notin Int}
  <2> SUFFICES ASSUME Bad # {} PROVE FALSE
    OBVIOUS
  <2>1. PICK T \in Bad : \A V \in Bad : V \subseteq T => V = T
    <3>1. Bad \subseteq SUBSET S OBVIOUS
    <3> HIDE DEF Bad
    <3> QED BY <3>1, MinimalSubset
  <2>2. T \in SUBSET S /\ g[T] \notin Int OBVIOUS
  <2>3. T # {}
    <3>1. g[{}] = 0 BY <1>0 DEF Unfolded
    <3> QED BY <2>2, <3>1
  <2>4. g[T \ {Chosen(T)}] \in Int BY <1>1, <2>1, <2>2, <2>3
  <2> QED BY <1>1, <2>2, <2>3, <2>4
<1>3. \A T \in SUBSET S : \A x \in T : g[T] = f[x] + g[T \ {x}]
  <2> DEFINE Bad == {T \in SUBSET S : \E x \in T : g[T] # f[x] + g[T \ {x}]}
  <2> SUFFICES ASSUME Bad # {} PROVE FALSE
    OBVIOUS
  <2>1. PICK T \in Bad : \A V \in Bad : V \subseteq T => V = T
    <3>1. Bad \subseteq SUBSET S OBVIOUS
    <3> HIDE DEF Bad
    <3> QED BY <3>1, MinimalSubset
  <2>2. T \in SUBSET S OBVIOUS
  <2>3. PICK x \in T : g[T] # f[x] + g[T \ {x}] OBVIOUS
  <2> DEFINE c == Chosen(T)
             R == T \ {c}
             Q == T \ {x}
  <2>4. c \in T /\ f[c] \in Int /\ f[x] \in Int /\ g[T] = f[c] + g[R] BY <1>1, <2>2
  <2>5. x # c BY <2>3, <2>4
  <2>6. R \in SUBSET S /\ R \notin Bad BY <2>1, <2>2, <2>4
  <2>7. Q \in SUBSET S /\ Q \notin Bad BY <2>1, <2>2
  <2>8. g[R] = f[x] + g[R \ {x}] BY <2>5, <2>6
  <2>9. g[Q] = f[c] + g[Q \ {c}] BY <2>4, <2>5, <2>7
  <2>10. R \ {x} = Q \ {c} OBVIOUS
  <2>11. R \ {x} \in SUBSET S BY <2>2
  <2>12. g[R \ {x}] \in Int BY <1>2, <2>11
  <2> HIDE DEF c, R, Q
  <2>13. g[T] = f[c] + (f[x] + g[R \ {x}]) BY <2>4, <2>8
  <2>14. f[x] + g[Q] = f[x] + (f[c] + g[R \ {x}]) BY <2>9, <2>10
  <2>15. g[T] = f[x] + g[Q] BY <2>4, <2>12, <2>13, <2>14
  <2> QED BY <2>3, <2>15 DEF Q
<1> QED BY <1>2, <1>3

-----------------------------------------------------------------------------
(* What the models rely on when they add prices, payments and expenses.    *)

\* Nothing adds up to nothing.
THEOREM SumOfNone == ASSUME NEW f PROVE SumFunctionOnSet(f, {}) = 0
<1>1. IsFiniteSet({}) BY FS_EmptySet
<1>2. PICK g : IsSum(f, g, {}) /\ SumFunctionOnSet(f, {}) = g[{}] BY <1>1, SumUnfolds
<1> QED BY <1>2 DEF IsSum, Unfolded

\* A sum of integers is an integer.
THEOREM SumIsInt ==
  ASSUME NEW S, IsFiniteSet(S), NEW f, \A x \in S : f[x] \in Int
  PROVE  SumFunctionOnSet(f, S) \in Int
<1>1. PICK g : IsSum(f, g, S) /\ SumFunctionOnSet(f, S) = g[S] BY SumUnfolds
<1> QED BY <1>1, SumTakesOut

\* Sums of the same terms are equal.
THEOREM SumsAreEqual ==
  ASSUME NEW S, IsFiniteSet(S), NEW f, NEW k, \A x \in S : f[x] = k[x]
  PROVE  SumFunctionOnSet(f, S) = SumFunctionOnSet(k, S)
<1>1. PICK g : IsSum(f, g, S) /\ SumFunctionOnSet(f, S) = g[S] BY SumUnfolds
<1>2. PICK h : IsSum(k, h, S) /\ SumFunctionOnSet(k, S) = h[S] BY SumUnfolds
<1>3. S \in SUBSET S OBVIOUS
<1>4. \A T \in SUBSET S : g[T] = h[T] BY <1>1, <1>2, <1>3, SumsAgree
<1> QED BY <1>1, <1>2, <1>3, <1>4

\* Any term can be taken out of a sum.
THEOREM SumWithout ==
  ASSUME NEW S, IsFiniteSet(S), NEW f, \A y \in S : f[y] \in Int, NEW x \in S
  PROVE  SumFunctionOnSet(f, S) = f[x] + SumFunctionOnSet(f, S \ {x})
<1>1. PICK g : IsSum(f, g, S) /\ SumFunctionOnSet(f, S) = g[S] BY SumUnfolds
<1>2. IsFiniteSet(S \ {x}) BY FS_RemoveElement
<1>3. PICK h : IsSum(f, h, S \ {x}) /\ SumFunctionOnSet(f, S \ {x}) = h[S \ {x}]
  BY <1>2, SumUnfolds
<1>4. g[S \ {x}] = h[S \ {x}]
  <2>1. S \ {x} \in SUBSET S /\ \A y \in S \ {x} : f[y] = f[y] OBVIOUS
  <2>2. \A T \in SUBSET (S \ {x}) : g[T] = h[T] BY <1>1, <1>3, <2>1, SumsAgree
  <2> QED BY <2>2
<1>5. g[S] = f[x] + g[S \ {x}] BY <1>1, SumTakesOut
<1> QED BY <1>1, <1>3, <1>4, <1>5

\* The sum of a larger set of larger terms is at least as large.
THEOREM SumIsMonotonic ==
  ASSUME NEW S, IsFiniteSet(S), NEW f, NEW k,
         \A x \in S : f[x] \in Int /\ k[x] \in Int /\ f[x] <= k[x]
  PROVE  SumFunctionOnSet(f, S) <= SumFunctionOnSet(k, S)
<1> DEFINE Bad == {T \in SUBSET S : ~(SumFunctionOnSet(f, T) <= SumFunctionOnSet(k, T))}
<1> SUFFICES ASSUME Bad # {} PROVE FALSE
  OBVIOUS
<1>1. PICK T \in Bad : \A V \in Bad : V \subseteq T => V = T
  <2>1. Bad \subseteq SUBSET S OBVIOUS
  <2> HIDE DEF Bad
  <2> QED BY <2>1, MinimalSubset
<1>2. T \in SUBSET S /\ IsFiniteSet(T) BY FS_Subset
<1>3. T # {} BY SumOfNone
<1>4. PICK x \in T : TRUE BY <1>3
<1>5. T \ {x} \in SUBSET S /\ T \ {x} \notin Bad BY <1>1, <1>2
<1>6. SumFunctionOnSet(f, T \ {x}) <= SumFunctionOnSet(k, T \ {x}) BY <1>5
<1>7. IsFiniteSet(T \ {x}) BY <1>2, FS_RemoveElement
<1>8. SumFunctionOnSet(f, T) = f[x] + SumFunctionOnSet(f, T \ {x}) BY <1>2, SumWithout
<1>9. SumFunctionOnSet(k, T) = k[x] + SumFunctionOnSet(k, T \ {x}) BY <1>2, SumWithout
<1>10. SumFunctionOnSet(f, T \ {x}) \in Int /\ SumFunctionOnSet(k, T \ {x}) \in Int
  BY <1>5, <1>7, SumIsInt
<1>11. f[x] \in Int /\ k[x] \in Int /\ f[x] <= k[x] BY <1>2
<1>12. SumFunctionOnSet(f, T) <= SumFunctionOnSet(k, T) BY <1>6, <1>8, <1>9, <1>10, <1>11
<1> QED BY <1>12

\* Leaving out terms that are not negative does not make a sum larger.
THEOREM SumOfSubset ==
  ASSUME NEW S, IsFiniteSet(S), NEW f, \A x \in S : f[x] \in Nat, NEW U \in SUBSET S
  PROVE  SumFunctionOnSet(f, U) <= SumFunctionOnSet(f, S)
<1> DEFINE Bad == {T \in SUBSET S : U \subseteq T /\ ~(SumFunctionOnSet(f, U) <= SumFunctionOnSet(f, T))}
<1> SUFFICES ASSUME Bad # {} PROVE FALSE
  OBVIOUS
<1>1. PICK T \in Bad : \A V \in Bad : V \subseteq T => V = T
  <2>1. Bad \subseteq SUBSET S OBVIOUS
  <2> HIDE DEF Bad
  <2> QED BY <2>1, MinimalSubset
<1>2. T \in SUBSET S /\ IsFiniteSet(T) BY FS_Subset
<1>3. IsFiniteSet(U) /\ SumFunctionOnSet(f, U) \in Int BY FS_Subset, SumIsInt
<1>4. T # U BY <1>3
<1>5. PICK x \in T : x \notin U BY <1>4
<1>6. T \ {x} \in SUBSET S /\ U \subseteq T \ {x} /\ T \ {x} \notin Bad BY <1>1, <1>2, <1>5
<1>7. SumFunctionOnSet(f, U) <= SumFunctionOnSet(f, T \ {x}) BY <1>6
<1>8. SumFunctionOnSet(f, T) = f[x] + SumFunctionOnSet(f, T \ {x}) BY <1>2, SumWithout
<1>9. IsFiniteSet(T \ {x}) BY <1>2, FS_RemoveElement
<1>10. SumFunctionOnSet(f, T \ {x}) \in Int BY <1>6, <1>9, SumIsInt
<1>11. f[x] \in Nat BY <1>2
<1>12. SumFunctionOnSet(f, U) <= SumFunctionOnSet(f, T) BY <1>3, <1>7, <1>8, <1>10, <1>11
<1> QED BY <1>12

\* A sum of naturals is a natural.
THEOREM SumIsNat ==
  ASSUME NEW S, IsFiniteSet(S), NEW f, \A x \in S : f[x] \in Nat
  PROVE  SumFunctionOnSet(f, S) \in Nat
<1>1. SumFunctionOnSet(f, {}) <= SumFunctionOnSet(f, S) BY SumOfSubset
<1>2. SumFunctionOnSet(f, S) \in Int BY SumIsInt
<1> QED BY <1>1, <1>2, SumOfNone

\* A sum falls into the sum over a part and the sum over what is left.
THEOREM SumSplits ==
  ASSUME NEW S, IsFiniteSet(S), NEW f, \A x \in S : f[x] \in Int, NEW U \in SUBSET S
  PROVE  SumFunctionOnSet(f, S) = SumFunctionOnSet(f, U) + SumFunctionOnSet(f, S \ U)
<1> DEFINE Bad == {T \in SUBSET S : SumFunctionOnSet(f, T)
                                      # SumFunctionOnSet(f, T \cap U) + SumFunctionOnSet(f, T \ U)}
<1>0. SUFFICES ASSUME Bad # {} PROVE FALSE
  <2>1. S \in SUBSET S /\ S \cap U = U /\ S \notin Bad BY <1>0
  <2> QED BY <2>1
<1>1. PICK T \in Bad : \A V \in Bad : V \subseteq T => V = T
  <2>1. Bad \subseteq SUBSET S OBVIOUS
  <2> HIDE DEF Bad
  <2> QED BY <1>0, <2>1, MinimalSubset
<1>2. T \in SUBSET S /\ IsFiniteSet(T) BY FS_Subset
<1>3. T # {}
  <2>1. {} \cap U = {} /\ {} \ U = {} OBVIOUS
  <2>2. {} \notin Bad BY <2>1, SumOfNone
  <2> QED BY <2>2
<1>4. PICK x \in T : TRUE BY <1>3
<1> DEFINE W == T \ {x}
<1>5. W \in SUBSET S /\ W \notin Bad BY <1>1, <1>2, <1>4
<1>6. SumFunctionOnSet(f, W) = SumFunctionOnSet(f, W \cap U) + SumFunctionOnSet(f, W \ U)
  BY <1>5
<1>7. SumFunctionOnSet(f, T) # SumFunctionOnSet(f, T \cap U) + SumFunctionOnSet(f, T \ U)
  OBVIOUS
<1>8. ASSUME NEW V \in SUBSET S
      PROVE  IsFiniteSet(V) /\ SumFunctionOnSet(f, V) \in Int
  BY <1>8, FS_Subset, SumIsInt
<1>9. /\ W \cap U \in SUBSET S /\ W \ U \in SUBSET S /\ T \cap U \in SUBSET S /\ T \ U \in SUBSET S
      /\ x \in U => W \ U = T \ U /\ x \in T \cap U /\ (T \cap U) \ {x} = W \cap U
      /\ x \notin U => W \cap U = T \cap U /\ x \in T \ U /\ (T \ U) \ {x} = W \ U
  BY <1>2, <1>4
<1>10. \A V \in SUBSET S : x \in V => SumFunctionOnSet(f, V) = f[x] + SumFunctionOnSet(f, V \ {x})
  BY <1>8, SumWithout
<1>11. f[x] \in Int BY <1>2, <1>4
<1>12. SumFunctionOnSet(f, T) = f[x] + SumFunctionOnSet(f, W) BY <1>2, <1>4, <1>10
<1>13. /\ SumFunctionOnSet(f, W \cap U) \in Int /\ SumFunctionOnSet(f, W \ U) \in Int
  BY <1>8, <1>9
<1> HIDE DEF Bad, W
<1>14. CASE x \in U
  <2>1. SumFunctionOnSet(f, T \cap U) = f[x] + SumFunctionOnSet(f, W \cap U)
    BY <1>9, <1>10, <1>14
  <2>2. SumFunctionOnSet(f, T \ U) = SumFunctionOnSet(f, W \ U) BY <1>9, <1>14
  <2> QED BY <1>6, <1>7, <1>11, <1>12, <1>13, <2>1, <2>2
<1>15. CASE x \notin U
  <2>1. SumFunctionOnSet(f, T \ U) = f[x] + SumFunctionOnSet(f, W \ U)
    BY <1>9, <1>10, <1>15
  <2>2. SumFunctionOnSet(f, T \cap U) = SumFunctionOnSet(f, W \cap U) BY <1>9, <1>15
  <2> QED BY <1>6, <1>7, <1>11, <1>12, <1>13, <2>1, <2>2
<1> QED BY <1>14, <1>15

\* The sums over the members of each class add up to the sum over them all.
THEOREM SumOfClasses ==
  ASSUME NEW S, IsFiniteSet(S), NEW f, \A x \in S : f[x] \in Int,
         NEW C, IsFiniteSet(C), NEW class, \A x \in S : class[x] \in C,
         NEW part, \A c \in C : part[c] = {x \in S : class[x] = c},
         NEW h, \A c \in C : h[c] = SumFunctionOnSet(f, part[c])
  PROVE  SumFunctionOnSet(h, C) = SumFunctionOnSet(f, S)
<1> DEFINE Of(K) == {x \in S : class[x] \in K}
           Bad == {K \in SUBSET C : SumFunctionOnSet(h, K) # SumFunctionOnSet(f, Of(K))}
<1>1. Of(C) = S OBVIOUS
<1>2. SUFFICES ASSUME Bad # {} PROVE FALSE
  <2>1. C \notin Bad BY <1>2
  <2> QED BY <1>1, <2>1
<1>3. PICK K \in Bad : \A J \in Bad : J \subseteq K => J = K
  <2>1. Bad \subseteq SUBSET C OBVIOUS
  <2> HIDE DEF Of, Bad
  <2> QED BY <1>2, <2>1, MinimalSubset
<1>4. K \in SUBSET C /\ IsFiniteSet(K) BY FS_Subset
<1>5. K # {}
  <2>1. Of({}) = {} OBVIOUS
  <2>2. {} \notin Bad BY <2>1, SumOfNone
  <2> QED BY <2>2
<1>6. PICK c \in K : TRUE BY <1>5
<1> DEFINE J == K \ {c}
           one == part[c]
<1>7. J \in SUBSET C /\ J \notin Bad BY <1>3, <1>4, <1>6
<1>8. SumFunctionOnSet(h, J) = SumFunctionOnSet(f, Of(J)) BY <1>7
<1>9. one \in SUBSET Of(K) /\ Of(K) \ one = Of(J) /\ Of(K) \in SUBSET S /\ Of(J) \in SUBSET S
  <2>1. one = {x \in S : class[x] = c} BY <1>4
  <2> HIDE DEF one
  <2> QED BY <1>6, <2>1
<1>10. \A k \in C : h[k] \in Int
  <2> TAKE k \in C
  <2>1. part[k] \in SUBSET S OBVIOUS
  <2>2. \A x \in part[k] : f[x] \in Int BY <2>1
  <2>3. IsFiniteSet(part[k]) BY <2>1, FS_Subset
  <2> QED BY <2>2, <2>3, SumIsInt
<1>11. SumFunctionOnSet(f, Of(K)) # SumFunctionOnSet(h, K) BY <1>3
<1>12. h[c] = SumFunctionOnSet(f, one) BY <1>4
<1> HIDE DEF Of, one, Bad
<1>13. SumFunctionOnSet(f, Of(K)) = SumFunctionOnSet(f, one) + SumFunctionOnSet(f, Of(J))
  <2> DEFINE A == Of(K)
             B == Of(J)
  <2>1. one \in SUBSET A /\ A \ one = B /\ A \in SUBSET S BY <1>9
  <2> HIDE DEF A, B
  <2>2. IsFiniteSet(A) /\ \A x \in A : f[x] \in Int BY <2>1, FS_Subset
  <2>3. SumFunctionOnSet(f, A) = SumFunctionOnSet(f, one) + SumFunctionOnSet(f, A \ one)
    BY <2>1, <2>2, SumSplits
  <2> QED BY <2>1, <2>3 DEF A, B
<1>14. SumFunctionOnSet(h, K) = h[c] + SumFunctionOnSet(h, J)
  BY <1>4, <1>10, SumWithout
<1> QED BY <1>8, <1>11, <1>12, <1>13, <1>14

\* The sum of pairwise sums is the sum of the two sums.
THEOREM SumAdds ==
  ASSUME NEW S, IsFiniteSet(S), NEW f, NEW k, NEW h,
         \A x \in S : f[x] \in Int /\ k[x] \in Int /\ h[x] = f[x] + k[x]
  PROVE  SumFunctionOnSet(h, S) = SumFunctionOnSet(f, S) + SumFunctionOnSet(k, S)
<1> DEFINE Bad == {T \in SUBSET S : SumFunctionOnSet(h, T)
                                      # SumFunctionOnSet(f, T) + SumFunctionOnSet(k, T)}
<1> SUFFICES ASSUME Bad # {} PROVE FALSE
  OBVIOUS
<1>1. PICK T \in Bad : \A V \in Bad : V \subseteq T => V = T
  <2>1. Bad \subseteq SUBSET S OBVIOUS
  <2> HIDE DEF Bad
  <2> QED BY <2>1, MinimalSubset
<1>2. T \in SUBSET S /\ IsFiniteSet(T) BY FS_Subset
<1>3. T # {}
  <2> SUFFICES ASSUME T = {} PROVE FALSE
    OBVIOUS
  <2>1. /\ SumFunctionOnSet(h, {}) = 0 /\ SumFunctionOnSet(f, {}) = 0
        /\ SumFunctionOnSet(k, {}) = 0
    BY SumOfNone
  <2>2. SumFunctionOnSet(h, {}) # SumFunctionOnSet(f, {}) + SumFunctionOnSet(k, {}) OBVIOUS
  <2> QED BY <2>1, <2>2
<1>4. PICK x \in T : TRUE BY <1>3
<1> DEFINE U == T \ {x}
<1>5. U \in SUBSET S /\ U \notin Bad BY <1>1, <1>2
<1>6. SumFunctionOnSet(h, U) = SumFunctionOnSet(f, U) + SumFunctionOnSet(k, U) BY <1>5
<1>7. IsFiniteSet(U) BY <1>2, FS_RemoveElement
<1>8. \A y \in S : h[y] \in Int OBVIOUS
<1>9. /\ SumFunctionOnSet(f, T) = f[x] + SumFunctionOnSet(f, U)
      /\ SumFunctionOnSet(k, T) = k[x] + SumFunctionOnSet(k, U)
      /\ SumFunctionOnSet(h, T) = h[x] + SumFunctionOnSet(h, U)
  BY <1>2, <1>8, SumWithout
<1>10. SumFunctionOnSet(f, U) \in Int /\ SumFunctionOnSet(k, U) \in Int
  BY <1>5, <1>7, SumIsInt
<1>11. f[x] \in Int /\ k[x] \in Int /\ h[x] = f[x] + k[x] BY <1>2
<1> HIDE DEF U
<1>12. SumFunctionOnSet(h, T) = SumFunctionOnSet(f, T) + SumFunctionOnSet(k, T)
  BY <1>6, <1>9, <1>10, <1>11
<1> QED BY <1>12

\* A common factor can be taken out of a sum.
THEOREM SumScales ==
  ASSUME NEW S, IsFiniteSet(S), NEW c \in Int, NEW f, NEW h,
         \A x \in S : f[x] \in Int /\ h[x] = c * f[x]
  PROVE  SumFunctionOnSet(h, S) = c * SumFunctionOnSet(f, S)
<1> DEFINE Bad == {T \in SUBSET S : SumFunctionOnSet(h, T) # c * SumFunctionOnSet(f, T)}
<1> SUFFICES ASSUME Bad # {} PROVE FALSE
  OBVIOUS
<1>0. \A a, b \in Int : a * b \in Int /\ c * (a + b) = c * a + c * b OBVIOUS
<1>1. PICK T \in Bad : \A V \in Bad : V \subseteq T => V = T
  <2>1. Bad \subseteq SUBSET S OBVIOUS
  <2> HIDE DEF Bad
  <2> QED BY <2>1, MinimalSubset
<1>2. T \in SUBSET S /\ IsFiniteSet(T) BY FS_Subset
<1>3. T # {}
  <2> SUFFICES ASSUME T = {} PROVE FALSE
    OBVIOUS
  <2>1. SumFunctionOnSet(h, {}) = 0 /\ SumFunctionOnSet(f, {}) = 0 BY SumOfNone
  <2>2. SumFunctionOnSet(h, {}) # c * SumFunctionOnSet(f, {}) OBVIOUS
  <2> QED BY <2>1, <2>2
<1>4. PICK x \in T : TRUE BY <1>3
<1> DEFINE U == T \ {x}
<1>5. U \in SUBSET S /\ U \notin Bad BY <1>1, <1>2
<1>6. SumFunctionOnSet(h, U) = c * SumFunctionOnSet(f, U) BY <1>5
<1>7. IsFiniteSet(U) BY <1>2, FS_RemoveElement
<1>8. \A y \in S : h[y] \in Int BY <1>0
<1>9. /\ SumFunctionOnSet(f, T) = f[x] + SumFunctionOnSet(f, U)
      /\ SumFunctionOnSet(h, T) = h[x] + SumFunctionOnSet(h, U)
  BY <1>2, <1>8, SumWithout
<1>10. SumFunctionOnSet(f, U) \in Int BY <1>5, <1>7, SumIsInt
<1>11. f[x] \in Int /\ h[x] = c * f[x] BY <1>2
<1>13. SumFunctionOnSet(h, T) # c * SumFunctionOnSet(f, T) OBVIOUS
<1> HIDE DEF U, Bad
<1>12. c * (f[x] + SumFunctionOnSet(f, U)) = c * f[x] + c * SumFunctionOnSet(f, U)
  BY <1>0, <1>10, <1>11
<1> QED BY <1>6, <1>9, <1>11, <1>12, <1>13

\* As many ones as there are elements add up to their number.
THEOREM SumOfOnes ==
  ASSUME NEW S, IsFiniteSet(S), NEW f, \A x \in S : f[x] = 1
  PROVE  SumFunctionOnSet(f, S) = Cardinality(S)
<1> DEFINE Bad == {T \in SUBSET S : SumFunctionOnSet(f, T) # Cardinality(T)}
<1> SUFFICES ASSUME Bad # {} PROVE FALSE
  OBVIOUS
<1>1. PICK T \in Bad : \A V \in Bad : V \subseteq T => V = T
  <2>1. Bad \subseteq SUBSET S OBVIOUS
  <2> HIDE DEF Bad
  <2> QED BY <2>1, MinimalSubset
<1>2. T \in SUBSET S /\ IsFiniteSet(T) /\ SumFunctionOnSet(f, T) # Cardinality(T) BY FS_Subset
<1>3. T # {} BY <1>2, SumOfNone, FS_EmptySet
<1>4. PICK x \in T : TRUE BY <1>3
<1> DEFINE U == T \ {x}
<1>5. U \in SUBSET S /\ U \notin Bad BY <1>1, <1>2
<1>6. SumFunctionOnSet(f, U) = Cardinality(U) BY <1>5
<1>7. Cardinality(U) = Cardinality(T) - 1 /\ Cardinality(T) \in Nat
  BY <1>2, <1>4, FS_RemoveElement, FS_CardinalityType
<1>8. f[x] = 1 /\ \A y \in T : f[y] \in Int BY <1>2
<1>9. SumFunctionOnSet(f, T) = f[x] + SumFunctionOnSet(f, U) BY <1>2, <1>4, <1>8, SumWithout
<1> HIDE DEF U, Bad
<1> QED BY <1>2, <1>6, <1>7, <1>8, <1>9

-----------------------------------------------------------------------------
(* The first elements of a set of integers.                                *)

\* Every non-empty finite set of integers has a greatest element.
LEMMA GreatestInteger ==
  ASSUME NEW S, IsFiniteSet(S)
  PROVE  S \subseteq Int /\ S # {} => \E m \in S : \A x \in S : x <= m
<1> DEFINE Good(T) == T \subseteq Int /\ T # {} => \E m \in T : \A x \in T : x <= m
           Bad == {T \in SUBSET S : ~Good(T)}
<1>0. Bad = {}
  <2> SUFFICES ASSUME Bad # {} PROVE FALSE
    OBVIOUS
  <2>1. PICK T \in Bad : \A V \in Bad : V \subseteq T => V = T
    <3>1. Bad \subseteq SUBSET S OBVIOUS
    <3> HIDE DEF Bad
    <3> QED BY <3>1, MinimalSubset
  <2>2. T \subseteq Int /\ T # {} /\ ~\E m \in T : \A y \in T : y <= m OBVIOUS
  <2>3. PICK x \in T : TRUE BY <2>2
  <2>4. T \ {x} # {} BY <2>2, <2>3
  <2>5. T \ {x} \in SUBSET S /\ T \ {x} \notin Bad BY <2>1, <2>3
  <2>6. PICK m \in T \ {x} : \A y \in T \ {x} : y <= m BY <2>2, <2>4, <2>5
  <2>7. CASE x <= m BY <2>2, <2>6, <2>7
  <2>8. CASE ~(x <= m)
    <3>1. \A y \in T : y <= x BY <2>2, <2>3, <2>6, <2>8
    <3> QED BY <2>2, <2>3, <3>1
  <2> QED BY <2>7, <2>8
<1>1. S \notin Bad BY <1>0
<1> QED BY <1>1

\* The place of i in the set S.
Rank(S, i) == Cardinality({j \in S : j <= i})

\* 1 for each of the first r elements of S, 0 for the others.
FirstOnes(S, r) == [i \in S |-> IF Rank(S, i) <= r THEN 1 ELSE 0]

\* The first r elements of a set of integers are r elements.
THEOREM FirstOnesCount ==
  ASSUME NEW S, IsFiniteSet(S)
  PROVE  S \subseteq Int =>
           \A r \in Nat : r <= Cardinality(S) => SumFunctionOnSet(FirstOnes(S, r), S) = r
<1> DEFINE Good(T, n) == SumFunctionOnSet(FirstOnes(T, n), T) = n
           Bad == {T \in SUBSET S : /\ T \subseteq Int
                                    /\ \E n \in Nat : n <= Cardinality(T) /\ ~Good(T, n)}
<1> SUFFICES ASSUME Bad # {} PROVE FALSE
  OBVIOUS
<1>1. PICK T \in Bad : \A V \in Bad : V \subseteq T => V = T
  <2>1. Bad \subseteq SUBSET S OBVIOUS
  <2> HIDE DEF Bad
  <2> QED BY <2>1, MinimalSubset
<1>2. PICK n \in Nat : n <= Cardinality(T) /\ ~Good(T, n) OBVIOUS
<1>3. T \in SUBSET S /\ IsFiniteSet(T) /\ T \subseteq Int BY FS_Subset
<1>4. T # {}
  <2> SUFFICES ASSUME T = {} PROVE FALSE
    OBVIOUS
  <2>1. n = 0 BY <1>2, FS_EmptySet
  <2>2. SumFunctionOnSet(FirstOnes(T, n), T) = 0 BY SumOfNone
  <2> QED BY <1>2, <2>1, <2>2
<1>5. PICK m \in T : \A x \in T : x <= m BY <1>3, <1>4, GreatestInteger
<1> DEFINE U == T \ {m}
<1>6. U \in SUBSET S /\ U \notin Bad BY <1>1, <1>3
<1>7. \A k \in Nat : k <= Cardinality(U) => Good(U, k) BY <1>6
<1>8. /\ IsFiniteSet(U) /\ Cardinality(U) = Cardinality(T) - 1
      /\ Cardinality(T) \in Nat /\ Cardinality(U) \in Nat
  BY <1>3, FS_RemoveElement, FS_CardinalityType
<1> HIDE DEF Bad
<1>9. Rank(T, m) = Cardinality(T)
  <2>1. {j \in T : j <= m} = T BY <1>5
  <2> QED BY <2>1 DEF Rank
<1>10. ASSUME NEW i \in U
       PROVE  /\ Rank(T, i) = Rank(U, i)
              /\ Rank(U, i) \in Nat /\ Rank(U, i) <= Cardinality(U)
  <2>1. {j \in T : j <= i} = {j \in U : j <= i} BY <1>3, <1>5
  <2>2. {j \in U : j <= i} \subseteq U OBVIOUS
  <2>3. /\ IsFiniteSet({j \in U : j <= i})
        /\ Cardinality({j \in U : j <= i}) <= Cardinality(U)
    BY <1>8, <2>2, FS_Subset
  <2> QED BY <2>1, <2>3, FS_CardinalityType DEF Rank
<1> DEFINE f == FirstOnes(T, n)
<1>11. \A i \in T : f[i] \in Int BY DEF FirstOnes
<1>12. f[m] = IF Cardinality(T) <= n THEN 1 ELSE 0 BY <1>9 DEF FirstOnes
<1>13. SumFunctionOnSet(f, T) = f[m] + SumFunctionOnSet(f, U) BY <1>3, <1>11, SumWithout
<1> DEFINE k == IF Cardinality(T) <= n THEN n - 1 ELSE n
<1>14. k \in Nat /\ k <= Cardinality(U) BY <1>2, <1>8
<1>15. SumFunctionOnSet(f, U) = SumFunctionOnSet(FirstOnes(U, k), U)
  <2>1. ASSUME NEW i \in U PROVE f[i] = FirstOnes(U, k)[i]
    <3>1. Rank(U, i) <= k <=> Rank(T, i) <= n BY <1>2, <1>8, <1>10
    <3> HIDE DEF k, U
    <3>2. FirstOnes(U, k)[i] = IF Rank(U, i) <= k THEN 1 ELSE 0 BY DEF FirstOnes
    <3>3. i \in T BY DEF U
    <3>4. f[i] = IF Rank(T, i) <= n THEN 1 ELSE 0 BY <3>3 DEF FirstOnes
    <3> QED BY <3>1, <3>2, <3>4
  <2> HIDE DEF f, k, U
  <2> QED BY <1>8, <2>1, SumsAreEqual
<1>16. SumFunctionOnSet(FirstOnes(U, k), U) = k
  <2> HIDE DEF k, U
  <2> QED BY <1>7, <1>14
<1>17. SumFunctionOnSet(f, T) # n BY <1>2
<1> HIDE DEF f
<1> QED BY <1>2, <1>8, <1>12, <1>13, <1>14, <1>15, <1>16, <1>17

=============================================================================
