----------------------------- MODULE SumLemmas -----------------------------
(***************************************************************************)
(* What MapThenSumSet of the community modules gives for the values of a   *)
(* function on a finite set: it does not depend on the order in which the  *)
(* members are chosen, so that one member, or a part of the set, can be    *)
(* taken out of it.  The proofs of the components that add up balances or  *)
(* prices rest on these facts.  And what putting a finite set of numbers   *)
(* in order gives: the indexes of the backend and of the chain are such    *)
(* orders.                                                                 *)
(***************************************************************************)
EXTENDS Integers, Sequences, FiniteSets, FiniteSetsExt, FiniteSetTheorems,
        WellFoundedInduction, NaturalsInduction, TLAPS

\* The sum of the values of f on S.
SumOver(f, S) == MapThenSumSet(LAMBDA x : f[x], S)

-----------------------------------------------------------------------------
(* The fold is the function that MapThenFoldSet chooses.                   *)

Picked(T) == CHOOSE x \in T : TRUE

Unfolds(it, f, S) ==
    it = [T \in SUBSET S |-> IF T = {} THEN 0 ELSE f[Picked(T)] + it[T \ {Picked(T)}]]

Fold(f, S) == CHOOSE it : Unfolds(it, f, S)

\* The sum is the fold.
LEMMA SumIsFold ==
    ASSUME NEW f, NEW S
    PROVE  SumOver(f, S) = Fold(f, S)[S]
BY Zenon DEF SumOver, MapThenSumSet, MapThenFoldSet, Fold, Unfolds, Picked

-----------------------------------------------------------------------------
(* Some sum of the subsets of S does not depend on the order: the smallest  *)
(* set without one would have one.                                         *)

Additive(g, f, S) ==
    /\ g = [T \in SUBSET S |-> g[T]]
    /\ g[{}] = 0
    /\ \A T \in SUBSET S : g[T] \in Int
    /\ \A T \in SUBSET S : \A x \in T : g[T] = f[x] + g[T \ {x}]

Numeric(f, S) == \A x \in S : f[x] \in Int

\* A set of numbers that is not empty has a least one.
LEMMA SmallestNumber ==
    ASSUME NEW N, N \subseteq Nat, N # {}
    PROVE  \E n \in N : \A m \in N : ~ (m < n)
<1>1. IsWellFoundedOn({p \in Nat \X Nat : p[1] < p[2]}, Nat)
  BY NatLessThanWellFounded, Zenon DEF OpToRel
<1>2. PICK n \in N : \A m \in N : ~ (<<m, n>> \in {p \in Nat \X Nat : p[1] < p[2]})
  BY <1>1, WFMin
<1>3. ASSUME NEW m \in N PROVE ~ (m < n)
  <2>1. m \in Nat /\ n \in Nat
    OBVIOUS
  <2> QED
    BY <1>2, <2>1
<1> QED
  BY <1>3

\* Of a collection of finite sets that is not empty, a member of least size.
LEMMA SmallestSet ==
    ASSUME NEW C, C # {}, \A T \in C : IsFiniteSet(T)
    PROVE  \E T \in C : \A U \in C : ~ (Cardinality(U) < Cardinality(T))
<1> DEFINE sizes == {Cardinality(T) : T \in C}
<1>1. sizes \subseteq Nat /\ sizes # {}
  BY FS_CardinalityType
<1>2. PICK n \in sizes : \A m \in sizes : ~ (m < n)
  BY <1>1, SmallestNumber
<1>3. PICK T \in C : n = Cardinality(T)
  BY <1>2
<1> QED
  BY <1>2, <1>3

\* A sum of the subsets of S without a gives one of the subsets of S.
LEMMA AdditiveExtends ==
    ASSUME NEW f, NEW S, Numeric(f, S), NEW a \in S, NEW h, Additive(h, f, S \ {a})
    PROVE  \E g : Additive(g, f, S)
<1> DEFINE g == [T \in SUBSET S |-> IF a \in T THEN f[a] + h[T \ {a}] ELSE h[T]]
<1>1. \A T \in SUBSET S : g[T] \in Int
  <2> TAKE T \in SUBSET S
  <2>1. f[a] \in Int /\ h[T \ {a}] \in Int
    BY DEF Numeric, Additive
  <2>2. a \notin T => h[T] \in Int
    BY DEF Additive
  <2> QED
    BY <2>1, <2>2
<1>2. ASSUME NEW T \in SUBSET S, NEW x \in T
      PROVE  g[T] = f[x] + g[T \ {x}]
  <2>0. T \ {x} \in SUBSET S /\ f[x] \in Int /\ f[a] \in Int
    BY DEF Numeric
  <2>1. CASE x = a
    <3>1. a \notin T \ {a} /\ a \in T
      BY <2>1
    <3> QED
      BY <2>0, <2>1, <3>1
  <2>2. CASE x # a /\ a \in T
    <3>1. T \ {a} \in SUBSET (S \ {a}) /\ x \in T \ {a}
      BY <2>2
    <3>2. h[T \ {a}] = f[x] + h[(T \ {a}) \ {x}]
      BY <3>1 DEF Additive
    <3>3. (T \ {a}) \ {x} = (T \ {x}) \ {a} /\ a \in T \ {x}
      BY <2>2
    <3>4. h[(T \ {x}) \ {a}] \in Int
      BY <3>1, <3>3 DEF Additive
    <3>5. g[T] = f[a] + h[T \ {a}] /\ g[T \ {x}] = f[a] + h[(T \ {x}) \ {a}]
      BY <2>0, <2>2, <3>3
    <3>6. \A p, q, r \in Int : p + (q + r) = q + (p + r)
      OBVIOUS
    <3> DEFINE rest == h[(T \ {x}) \ {a}]
    <3>7. g[T] = f[a] + (f[x] + rest) /\ g[T \ {x}] = f[a] + rest /\ rest \in Int
      BY <3>2, <3>3, <3>4, <3>5
    <3> HIDE DEF rest, g
    <3> QED
      BY <2>0, <3>6, <3>7
  <2>3. CASE a \notin T
    <3>1. T \in SUBSET (S \ {a}) /\ a \notin T \ {x}
      BY <2>3
    <3>2. h[T] = f[x] + h[T \ {x}]
      BY <3>1 DEF Additive
    <3> QED
      BY <2>0, <2>3, <3>1, <3>2
  <2> QED
    BY <2>1, <2>2, <2>3
<1>3. g[{}] = 0
  BY DEF Additive
<1>4. g = [T \in SUBSET S |-> g[T]]
  OBVIOUS
<1> HIDE DEF g
<1> QED
  BY <1>1, <1>2, <1>3, <1>4, Zenon DEF Additive

\* Every finite set has such a sum.
LEMMA AdditiveExists ==
    ASSUME NEW f, NEW S, IsFiniteSet(S), Numeric(f, S)
    PROVE  \E g : Additive(g, f, S)
<1> DEFINE C == {T \in SUBSET S : ~ \E g : Additive(g, f, T)}
<1> SUFFICES ASSUME C # {} PROVE FALSE
  OBVIOUS
<1>1. \A T \in C : IsFiniteSet(T)
  BY FS_Subset
<1>2. PICK T \in C : \A U \in C : ~ (Cardinality(U) < Cardinality(T))
  <2> HIDE DEF C
  <2> QED
    BY <1>1, SmallestSet
<1>3. T # {}
  <2> SUFFICES ASSUME T = {} PROVE FALSE
    OBVIOUS
  <2> DEFINE z == [U \in SUBSET {} |-> 0]
  <2>0. z = [U \in SUBSET {} |-> z[U]] /\ z[{}] = 0 /\ \A U \in SUBSET {} : z[U] \in Int
    OBVIOUS
  <2> HIDE DEF z
  <2>1. Additive(z, f, {})
    BY <2>0 DEF Additive
  <2> QED
    BY <2>1
<1>4. PICK a \in T : TRUE
  BY <1>3
<1>5. Cardinality(T \ {a}) = Cardinality(T) - 1 /\ Cardinality(T) \in Nat
  BY <1>1, FS_RemoveElement, FS_CardinalityType
<1>6. T \ {a} \notin C
  BY <1>2, <1>5
<1>7. PICK h : Additive(h, f, T \ {a})
  BY <1>6
<1>8. Numeric(f, T)
  BY DEF Numeric
<1>9. \E g : Additive(g, f, T)
  BY <1>7, <1>8, AdditiveExtends
<1> QED
  BY <1>9

\* Such a sum is a fold, whatever member is chosen first ...
LEMMA AdditiveUnfolds ==
    ASSUME NEW f, NEW S, NEW g, Additive(g, f, S)
    PROVE  Unfolds(g, f, S)
<1>1. \A T \in SUBSET S : g[T] = IF T = {} THEN 0 ELSE f[Picked(T)] + g[T \ {Picked(T)}]
  <2> TAKE T \in SUBSET S
  <2>1. CASE T = {}
    BY <2>1 DEF Additive
  <2>2. CASE T # {}
    <3>1. Picked(T) \in T
      BY <2>2 DEF Picked
    <3> QED
      BY <2>2, <3>1 DEF Additive
  <2> QED
    BY <2>1, <2>2
<1>2. g = [T \in SUBSET S |-> g[T]]
  BY Zenon DEF Additive
<1>3. g = [T \in SUBSET S |-> IF T = {} THEN 0 ELSE f[Picked(T)] + g[T \ {Picked(T)}]]
  BY <1>1, <1>2
<1> QED
  BY <1>3, Zenon DEF Unfolds

\* ... and every fold has its values.
LEMMA UnfoldsAdditive ==
    ASSUME NEW f, NEW S, IsFiniteSet(S), NEW g, Additive(g, f, S),
           NEW it, Unfolds(it, f, S)
    PROVE  \A T \in SUBSET S : it[T] = g[T]
<1> DEFINE C == {T \in SUBSET S : it[T] # g[T]}
<1> SUFFICES ASSUME C # {} PROVE FALSE
  OBVIOUS
<1>1. \A T \in C : IsFiniteSet(T)
  BY FS_Subset
<1>2. PICK T \in C : \A U \in C : ~ (Cardinality(U) < Cardinality(T))
  <2> HIDE DEF C
  <2> QED
    BY <1>1, SmallestSet
<1>3. it[T] = IF T = {} THEN 0 ELSE f[Picked(T)] + it[T \ {Picked(T)}]
  BY T \in SUBSET S, Zenon DEF Unfolds
<1>4. T # {}
  BY <1>3 DEF Additive
<1>5. Picked(T) \in T
  BY <1>4 DEF Picked
<1>6. Cardinality(T \ {Picked(T)}) = Cardinality(T) - 1 /\ Cardinality(T) \in Nat
  BY <1>1, <1>5, FS_RemoveElement, FS_CardinalityType
<1>7. T \ {Picked(T)} \notin C
  BY <1>2, <1>6
<1>8. it[T \ {Picked(T)}] = g[T \ {Picked(T)}]
  BY <1>7
<1>9. g[T] = f[Picked(T)] + g[T \ {Picked(T)}]
  BY <1>5 DEF Additive
<1> QED
  BY <1>3, <1>4, <1>8, <1>9

\* So the sums of the subsets are those that do not depend on the order.
LEMMA SumIsAdditive ==
    ASSUME NEW f, NEW S, IsFiniteSet(S), NEW g, Additive(g, f, S)
    PROVE  \A T \in SUBSET S : SumOver(f, T) = g[T]
<1> TAKE T \in SUBSET S
<1> DEFINE h == [U \in SUBSET T |-> g[U]]
<1>1. h[{}] = g[{}] /\ h[T] = g[T]
  OBVIOUS
<1>2. \A U \in SUBSET T : h[U] = g[U] /\ U \in SUBSET S /\ \A x \in U : U \ {x} \in SUBSET T
  OBVIOUS
<1>3. h = [U \in SUBSET T |-> h[U]]
  OBVIOUS
<1> HIDE DEF h
<1>4. h[{}] = 0 /\ \A U \in SUBSET T : h[U] \in Int
  BY <1>1, <1>2 DEF Additive
<1>5. ASSUME NEW U \in SUBSET T, NEW x \in U PROVE h[U] = f[x] + h[U \ {x}]
  <2>1. h[U] = g[U] /\ U \in SUBSET S /\ U \ {x} \in SUBSET T
    BY <1>2
  <2>2. h[U \ {x}] = g[U \ {x}]
    BY <1>2, <2>1
  <2> QED
    BY <2>1, <2>2 DEF Additive
<1>6. Additive(h, f, T)
  BY <1>3, <1>4, <1>5, Zenon DEF Additive
<1>7. IsFiniteSet(T)
  BY FS_Subset
<1>8. Unfolds(Fold(f, T), f, T)
  <2>1. Unfolds(h, f, T)
    BY <1>6, AdditiveUnfolds
  <2> QED
    BY <2>1, Zenon DEF Fold
<1>9. Fold(f, T)[T] = h[T]
  BY <1>6, <1>7, <1>8, UnfoldsAdditive
<1> QED
  BY <1>1, <1>9, SumIsFold

-----------------------------------------------------------------------------
(* The facts that the components use.                                      *)

\* The sum of no values.
LEMMA SumOfNothing ==
    ASSUME NEW f
    PROVE  SumOver(f, {}) = 0
<1>1. IsFiniteSet({}) /\ Numeric(f, {})
  BY FS_EmptySet DEF Numeric
<1>2. PICK g : Additive(g, f, {})
  BY <1>1, AdditiveExists
<1>3. SumOver(f, {}) = g[{}]
  BY <1>1, <1>2, SumIsAdditive
<1> QED
  BY <1>2, <1>3 DEF Additive

\* A sum of integers is one.
LEMMA SumType ==
    ASSUME NEW f, NEW S, IsFiniteSet(S), Numeric(f, S)
    PROVE  SumOver(f, S) \in Int
<1>1. PICK g : Additive(g, f, S)
  BY AdditiveExists
<1>2. SumOver(f, S) = g[S]
  BY <1>1, SumIsAdditive
<1> QED
  BY <1>1, <1>2 DEF Additive

\* Any member can be taken out of a sum.
LEMMA SumTakesOut ==
    ASSUME NEW f, NEW S, IsFiniteSet(S), Numeric(f, S), NEW x \in S
    PROVE  SumOver(f, S) = f[x] + SumOver(f, S \ {x})
<1>1. PICK g : Additive(g, f, S)
  BY AdditiveExists
<1>2. SumOver(f, S) = g[S] /\ SumOver(f, S \ {x}) = g[S \ {x}]
  BY <1>1, SumIsAdditive
<1> QED
  BY <1>1, <1>2 DEF Additive

\* The sum of a union of two sets that have no member in common.
LEMMA SumOfUnion ==
    ASSUME NEW f, NEW S, NEW T, IsFiniteSet(S), IsFiniteSet(T), S \cap T = {},
           Numeric(f, S), Numeric(f, T)
    PROVE  SumOver(f, S \cup T) = SumOver(f, S) + SumOver(f, T)
<1> DEFINE C == {U \in SUBSET T : SumOver(f, S \cup U) # SumOver(f, S) + SumOver(f, U)}
<1> SUFFICES ASSUME C # {} PROVE FALSE
  OBVIOUS
<1>1. \A U \in SUBSET T : IsFiniteSet(U) /\ Numeric(f, U) /\ IsFiniteSet(S \cup U)
                          /\ Numeric(f, S \cup U)
  BY FS_Subset, FS_Union DEF Numeric
<1>2. PICK U \in C : \A V \in C : ~ (Cardinality(V) < Cardinality(U))
  <2>1. \A U \in C : IsFiniteSet(U)
    BY <1>1
  <2> HIDE DEF C
  <2> QED
    BY <2>1, SmallestSet
<1>3. SumOver(f, S) \in Int
  BY SumType
<1>4. U # {}
  <2> SUFFICES ASSUME U = {} PROVE FALSE
    OBVIOUS
  <2>1. S \cup U = S
    OBVIOUS
  <2> QED
    BY <1>3, <2>1, SumOfNothing
<1>5. PICK x \in U : TRUE
  BY <1>4
<1>6. Cardinality(U \ {x}) = Cardinality(U) - 1 /\ Cardinality(U) \in Nat
  BY <1>1, FS_RemoveElement, FS_CardinalityType
<1>7. U \ {x} \notin C
  BY <1>2, <1>6
<1>8. SumOver(f, S \cup (U \ {x})) = SumOver(f, S) + SumOver(f, U \ {x})
  BY <1>7
<1>9. (S \cup U) \ {x} = S \cup (U \ {x})
  OBVIOUS
<1>10. SumOver(f, S \cup U) = f[x] + SumOver(f, (S \cup U) \ {x})
  BY <1>1, SumTakesOut
<1>11. SumOver(f, U) = f[x] + SumOver(f, U \ {x})
  BY <1>1, SumTakesOut
<1>12. f[x] \in Int /\ SumOver(f, U \ {x}) \in Int
  BY <1>1, SumType DEF Numeric
<1>13. SumOver(f, S \cup U) = f[x] + (SumOver(f, S) + SumOver(f, U \ {x}))
  BY <1>8, <1>9, <1>10
<1>14. \A a, b, c \in Int : a + (b + c) = b + (a + c)
  OBVIOUS
<1>15. SumOver(f, S \cup U) = SumOver(f, S) + SumOver(f, U)
  BY <1>3, <1>11, <1>12, <1>13, <1>14
<1> QED
  BY <1>15

\* Only the values on the set count.
LEMMA SumOfSame ==
    ASSUME NEW f, NEW g, NEW S, IsFiniteSet(S), Numeric(f, S),
           \A x \in S : g[x] = f[x]
    PROVE  SumOver(g, S) = SumOver(f, S)
<1>1. PICK a : Additive(a, f, S)
  BY AdditiveExists
<1>2. Additive(a, g, S)
  BY <1>1 DEF Additive
<1> QED
  BY <1>1, <1>2, SumIsAdditive

\* A sum of natural numbers is one.
LEMMA SumOfNats ==
    ASSUME NEW f, NEW S, IsFiniteSet(S), \A x \in S : f[x] \in Nat
    PROVE  SumOver(f, S) \in Nat
<1> DEFINE C == {U \in SUBSET S : SumOver(f, U) \notin Nat}
<1> SUFFICES ASSUME C # {} PROVE FALSE
  OBVIOUS
<1>1. \A U \in SUBSET S : IsFiniteSet(U) /\ Numeric(f, U)
  BY FS_Subset DEF Numeric
<1>2. PICK U \in C : \A V \in C : ~ (Cardinality(V) < Cardinality(U))
  <2>1. \A U \in C : IsFiniteSet(U)
    BY <1>1
  <2> HIDE DEF C
  <2> QED
    BY <2>1, SmallestSet
<1>3. U # {}
  BY SumOfNothing
<1>4. PICK x \in U : TRUE
  BY <1>3
<1>5. Cardinality(U \ {x}) = Cardinality(U) - 1 /\ Cardinality(U) \in Nat
  BY <1>1, FS_RemoveElement, FS_CardinalityType
<1>6. SumOver(f, U \ {x}) \in Nat
  BY <1>2, <1>5
<1>7. SumOver(f, U) = f[x] + SumOver(f, U \ {x})
  BY <1>1, SumTakesOut
<1> QED
  BY <1>6, <1>7

\* Part of the set gives no more than all of it.
LEMMA SumOfPart ==
    ASSUME NEW f, NEW S, IsFiniteSet(S), \A x \in S : f[x] \in Nat, NEW T \in SUBSET S
    PROVE  SumOver(f, T) <= SumOver(f, S)
<1>1. IsFiniteSet(T) /\ IsFiniteSet(S \ T) /\ T \cap (S \ T) = {} /\ T \cup (S \ T) = S
  BY FS_Subset
<1>2. Numeric(f, T) /\ Numeric(f, S \ T)
  BY DEF Numeric
<1>3. SumOver(f, S) = SumOver(f, T) + SumOver(f, S \ T)
  BY <1>1, <1>2, SumOfUnion
<1>4. SumOver(f, T) \in Nat /\ SumOver(f, S \ T) \in Nat
  BY <1>1, SumOfNats
<1> QED
  BY <1>3, <1>4

\* The same values summed over another set that counts the same members.
LEMMA SumReindexed ==
    ASSUME NEW f, NEW g, NEW h, NEW S, NEW T, IsFiniteSet(S), IsFiniteSet(T),
           \A x \in S : h[x] \in T /\ f[x] = g[h[x]],
           \A x, y \in S : h[x] = h[y] => x = y,
           \A y \in T : \E x \in S : h[x] = y,
           Numeric(g, T)
    PROVE  SumOver(f, S) = SumOver(g, T)
<1> DEFINE Im(U) == {h[x] : x \in U}
           C == {U \in SUBSET S : SumOver(f, U) # SumOver(g, Im(U))}
<1>0. Im(S) = T
  OBVIOUS
<1> SUFFICES ASSUME C # {} PROVE FALSE
  BY <1>0
<1>1. \A U \in SUBSET S : /\ IsFiniteSet(U) /\ Numeric(f, U)
                          /\ IsFiniteSet(Im(U)) /\ Numeric(g, Im(U))
  <2> TAKE U \in SUBSET S
  <2>1. Im(U) \in SUBSET T
    OBVIOUS
  <2>2. IsFiniteSet(U) /\ IsFiniteSet(Im(U))
    BY <2>1, FS_Subset
  <2>3. Numeric(f, U) /\ Numeric(g, Im(U))
    BY DEF Numeric
  <2> QED
    BY <2>2, <2>3
<1>2. PICK U \in C : \A V \in C : ~ (Cardinality(V) < Cardinality(U))
  <2>1. \A U \in C : IsFiniteSet(U)
    BY <1>1
  <2> HIDE DEF C
  <2> QED
    BY <2>1, SmallestSet
<1>3. U # {}
  <2> SUFFICES ASSUME U = {} PROVE FALSE
    OBVIOUS
  <2>1. Im(U) = {}
    OBVIOUS
  <2> QED
    BY <2>1, SumOfNothing
<1>4. PICK x \in U : TRUE
  BY <1>3
<1>5. Cardinality(U \ {x}) = Cardinality(U) - 1 /\ Cardinality(U) \in Nat
  BY <1>1, FS_RemoveElement, FS_CardinalityType
<1>6. SumOver(f, U \ {x}) = SumOver(g, Im(U \ {x}))
  BY <1>2, <1>5
<1>7. Im(U) \ {h[x]} = Im(U \ {x}) /\ h[x] \in Im(U)
  OBVIOUS
<1>8. SumOver(f, U) = f[x] + SumOver(f, U \ {x})
  BY <1>1, SumTakesOut
<1> HIDE DEF Im
<1>9. SumOver(g, Im(U)) = g[h[x]] + SumOver(g, Im(U) \ {h[x]})
  BY <1>1, <1>7, SumTakesOut
<1> QED
  BY <1>6, <1>7, <1>8, <1>9

\* A sum of the sums of classes is the sum of what they contain.
LEMMA SumOfClasses ==
    ASSUME NEW g, NEW R, IsFiniteSet(R), NEW P, NEW t,
           IsFiniteSet(UNION {P[x] : x \in R}), Numeric(g, UNION {P[x] : x \in R}),
           \A x \in R : t[x] = SumOver(g, P[x]),
           \A x, y \in R : x # y => P[x] \cap P[y] = {}
    PROVE  SumOver(t, R) = SumOver(g, UNION {P[x] : x \in R})
<1> DEFINE Un(U) == UNION {P[x] : x \in U}
           C == {U \in SUBSET R : SumOver(t, U) # SumOver(g, Un(U))}
<1> SUFFICES ASSUME C # {} PROVE FALSE
  OBVIOUS
<1>0. \A x \in R : IsFiniteSet(P[x]) /\ Numeric(g, P[x]) /\ t[x] \in Int
  <2> TAKE x \in R
  <2>1. P[x] \in SUBSET Un(R)
    OBVIOUS
  <2>2. IsFiniteSet(P[x])
    BY <2>1, FS_Subset
  <2>3. Numeric(g, P[x])
    BY <2>1 DEF Numeric
  <2> QED
    BY <2>2, <2>3, SumType
<1>1. \A U \in SUBSET R : /\ IsFiniteSet(U) /\ Numeric(t, U)
                          /\ IsFiniteSet(Un(U)) /\ Numeric(g, Un(U))
  <2> TAKE U \in SUBSET R
  <2>1. Un(U) \in SUBSET Un(R)
    OBVIOUS
  <2>2. IsFiniteSet(U) /\ IsFiniteSet(Un(U))
    BY <2>1, FS_Subset
  <2>3. Numeric(t, U) /\ Numeric(g, Un(U))
    BY <1>0, <2>1 DEF Numeric
  <2> QED
    BY <2>2, <2>3
<1>2. PICK U \in C : \A V \in C : ~ (Cardinality(V) < Cardinality(U))
  <2>1. \A U \in C : IsFiniteSet(U)
    BY <1>1
  <2> HIDE DEF C
  <2> QED
    BY <2>1, SmallestSet
<1>3. U # {}
  <2> SUFFICES ASSUME U = {} PROVE FALSE
    OBVIOUS
  <2>1. Un(U) = {}
    OBVIOUS
  <2> QED
    BY <2>1, SumOfNothing
<1>4. PICK x \in U : TRUE
  BY <1>3
<1>5. Cardinality(U \ {x}) = Cardinality(U) - 1 /\ Cardinality(U) \in Nat
  BY <1>1, FS_RemoveElement, FS_CardinalityType
<1> DEFINE rest == U \ {x}
<1>6. SumOver(t, rest) = SumOver(g, Un(rest)) /\ rest \in SUBSET R
  BY <1>2, <1>5
<1>7. Un(U) = P[x] \cup Un(rest) /\ P[x] \cap Un(rest) = {}
  OBVIOUS
<1>8. SumOver(t, U) = t[x] + SumOver(t, rest)
  <2>1. IsFiniteSet(U) /\ Numeric(t, U) /\ x \in U
    BY <1>1
  <2> HIDE DEF C, Un
  <2> QED
    BY <2>1, SumTakesOut
<1> HIDE DEF Un, rest
<1>9. SumOver(g, P[x] \cup Un(rest)) = SumOver(g, P[x]) + SumOver(g, Un(rest))
  BY <1>0, <1>1, <1>6, <1>7, SumOfUnion
<1>10. t[x] = SumOver(g, P[x])
  OBVIOUS
<1> QED
  BY <1>6, <1>7, <1>8, <1>9, <1>10
-----------------------------------------------------------------------------
(* Sets of numbers in the order of a key, and by number where it agrees.   *)

Earlier(key, x, y) == key[x] < key[y] \/ (key[x] = key[y] /\ x < y)

\* The order is total.
LEMMA EarlierTotal ==
    ASSUME NEW S, S \subseteq Nat, NEW key \in [S -> Nat]
    PROVE  /\ \A x, y \in S : x # y => Earlier(key, x, y) \/ Earlier(key, y, x)
           /\ \A x, y \in S : Earlier(key, x, y) => x # y /\ ~ Earlier(key, y, x)
           /\ \A x, y, z \in S : Earlier(key, x, y) /\ Earlier(key, y, z) => Earlier(key, x, z)
<1>1. \A x \in S : x \in Nat /\ key[x] \in Nat
  OBVIOUS
<1> QED
  BY <1>1 DEF Earlier

\* A set that is not empty has a first member.
LEMMA FirstExists ==
    ASSUME NEW S, S \subseteq Nat, NEW key \in [S -> Nat], S # {}
    PROVE  \E x \in S : \A y \in S : x # y => Earlier(key, x, y)
<1> DEFINE keys == {key[x] : x \in S}
<1>1. keys \subseteq Nat /\ keys # {}
  OBVIOUS
<1>2. PICK r \in keys : \A q \in keys : ~ (q < r)
  <2> HIDE DEF keys
  <2> QED
    BY <1>1, SmallestNumber
<1> DEFINE front == {x \in S : key[x] = r}
<1>3. front \subseteq Nat /\ front # {}
  BY <1>2
<1>4. PICK x \in front : \A y \in front : ~ (y < x)
  <2> HIDE DEF front
  <2> QED
    BY <1>3, SmallestNumber
<1>5. ASSUME NEW y \in S, x # y PROVE Earlier(key, x, y)
  <2>1. x \in S /\ x \in Nat /\ y \in Nat /\ key[x] = r /\ key[y] \in Nat /\ r \in Nat /\ ~ (key[y] < r)
    BY <1>1, <1>2, <1>4
  <2>2. key[y] = r => ~ (y < x)
    BY <1>4
  <2> QED
    BY <1>5, <2>1, <2>2 DEF Earlier
<1> QED
  BY <1>4, <1>5

\* The members in order.
Ordered(s, key, S) ==
    /\ s \in [1 .. Cardinality(S) -> S]
    /\ \A i, j \in DOMAIN s : i < j => Earlier(key, s[i], s[j])

\* A finite set can be listed in order: of the sets that cannot, a smallest
\* one would have a first member to start its list with.
LEMMA OrderExists ==
    ASSUME NEW S, S \subseteq Nat, IsFiniteSet(S), NEW key \in [S -> Nat]
    PROVE  \E s : Ordered(s, key, S)
<1> DEFINE C == {T \in SUBSET S : ~ \E s : Ordered(s, key, T)}
<1> SUFFICES ASSUME C # {} PROVE FALSE
  OBVIOUS
<1>1. \A T \in SUBSET S : IsFiniteSet(T) /\ T \subseteq Nat
  BY FS_Subset
<1>2. PICK T \in C : \A V \in C : ~ (Cardinality(V) < Cardinality(T))
  <2>1. \A T \in C : IsFiniteSet(T)
    BY <1>1
  <2> HIDE DEF C
  <2> QED
    BY <2>1, SmallestSet
<1> DEFINE n == Cardinality(T)
<1>3. n \in Nat /\ IsFiniteSet(T) /\ T \subseteq S /\ T \subseteq Nat
  BY <1>1, FS_CardinalityType
<1>4. T # {}
  <2> SUFFICES ASSUME T = {} PROVE FALSE
    OBVIOUS
  <2>1. n = 0
    BY FS_EmptySet
  <2> DEFINE e == [i \in 1 .. n |-> i]
  <2>2. e \in [1 .. n -> T] /\ DOMAIN e = {}
    BY <2>1
  <2>3. Ordered(e, key, T)
    BY <2>2 DEF Ordered
  <2> QED
    BY <2>3
<1>5. PICK first \in T : \A y \in T : y # first => Earlier(key, first, y)
  <2> DEFINE part == [x \in T |-> key[x]]
  <2>1. part \in [T -> Nat]
    BY <1>3
  <2>2. \A x, y \in T : Earlier(part, x, y) <=> Earlier(key, x, y)
    BY DEF Earlier
  <2> HIDE DEF part
  <2>3. \E x \in T : \A y \in T : x # y => Earlier(part, x, y)
    BY <1>3, <1>4, <2>1, FirstExists
  <2> QED
    BY <2>2, <2>3
<1> DEFINE rest == T \ {first}
<1>6. Cardinality(rest) = n - 1
  BY <1>3, FS_RemoveElement
<1>7. n - 1 \in Nat /\ n - 1 < n
  BY <1>3, <1>4, FS_EmptySet
<1>8. rest \notin C /\ rest \in SUBSET S
  BY <1>2, <1>6, <1>7
<1>9. PICK t : Ordered(t, key, rest)
  BY <1>8
<1>a. t \in [1 .. n - 1 -> rest] /\ \A i, j \in 1 .. n - 1 : i < j => Earlier(key, t[i], t[j])
  BY <1>6, <1>9 DEF Ordered
<1> HIDE DEF n
<1> DEFINE s == [i \in 1 .. n |-> IF i = 1 THEN first ELSE t[i - 1]]
<1>10. s \in [1 .. n -> T]
  <2>1. \A i \in 1 .. n : i # 1 => i - 1 \in 1 .. n - 1
    BY <1>3
  <2> QED
    BY <1>a, <2>1
<1>11. ASSUME NEW i \in 1 .. n, NEW j \in 1 .. n, i < j
       PROVE  Earlier(key, s[i], s[j])
  <2>1. j # 1 /\ j - 1 \in 1 .. n - 1 /\ s[j] = t[j - 1]
    BY <1>3, <1>11
  <2>2. s[j] \in rest
    BY <1>a, <2>1
  <2>3. CASE i = 1
    BY <1>5, <2>2, <2>3
  <2>4. CASE i # 1
    <3>1. i - 1 \in 1 .. n - 1 /\ i - 1 < j - 1 /\ s[i] = t[i - 1]
      BY <1>3, <1>11, <2>4
    <3> QED
      BY <1>a, <2>1, <3>1
  <2> QED
    BY <2>3, <2>4
<1>12. Ordered(s, key, T)
  <2> HIDE DEF s
  <2> QED
    BY <1>10, <1>11 DEF Ordered, n
<1> QED
  BY <1>2, <1>12

\* A list on which every member of a set stands.
Covers(s, S) == \A x \in S : \E i \in 1 .. Len(s) : s[i] = x

\* Each member stands in its list, once.
LEMMA OrderedIs ==
    ASSUME NEW S, S \subseteq Nat, IsFiniteSet(S), NEW key \in [S -> Nat],
           NEW s, Ordered(s, key, S)
    PROVE  /\ Cardinality(S) \in Nat /\ s \in Seq(S) /\ Len(s) = Cardinality(S)
           /\ \A i, j \in 1 .. Len(s) : s[i] = s[j] => i = j
           /\ Covers(s, S)
<1> DEFINE n == Cardinality(S)
<1>1. n \in Nat /\ s \in [1 .. n -> S]
  BY FS_CardinalityType DEF Ordered
<1>2. s \in Seq(S) /\ Len(s) = n /\ DOMAIN s = 1 .. n
  BY <1>1
<1>3. ASSUME NEW i \in 1 .. n, NEW j \in 1 .. n, s[i] = s[j] PROVE i = j
  <2>1. ~ Earlier(key, s[i], s[j]) /\ ~ Earlier(key, s[j], s[i])
    BY <1>1, <1>3, EarlierTotal
  <2>2. ~ (i < j) /\ ~ (j < i)
    BY <1>2, <2>1 DEF Ordered
  <2> QED
    BY <1>1, <2>2
<1>4. s \in Injection(1 .. n, S)
  BY <1>1, <1>3 DEF Injection, IsInjective
<1>5. s \in Surjection(1 .. n, S)
  <2>1. IsFiniteSet(1 .. n) /\ Cardinality(1 .. n) = n
    BY <1>1, FS_Interval
  <2> QED
    BY <1>4, <2>1, FS_Injection
<1>6. \A x \in S : \E i \in 1 .. n : s[i] = x
  BY <1>5 DEF Surjection
<1>7. Covers(s, S)
  BY <1>2, <1>6 DEF Covers
<1> QED
  BY <1>1, <1>2, <1>3, <1>7

-----------------------------------------------------------------------------
(* Places in a sequence.                                                   *)

\* The last of some places is the greatest.
LEMMA LastPlace ==
    ASSUME NEW n \in Nat, NEW T \in SUBSET (1 .. n), T # {}
    PROVE  Max(T) \in T /\ \A y \in T : y <= Max(T)
<1> DEFINE N == {n - x : x \in T}
<1>1. N \subseteq Nat /\ N # {}
  <2>1. \A x \in T : n - x \in Nat
    OBVIOUS
  <2> QED
    BY <2>1
<1>2. PICK m \in N : \A k \in N : ~ (k < m)
  <2> HIDE DEF N
  <2> QED
    BY <1>1, SmallestNumber
<1>3. PICK x \in T : m = n - x
  OBVIOUS
<1>4. \A y \in T : x >= y
  <2> TAKE y \in T
  <2>1. n - y \in N /\ y \in Nat /\ x \in Nat
    OBVIOUS
  <2> QED
    BY <1>2, <1>3, <2>1
<1>5. \E z \in T : \A y \in T : z >= y
  BY <1>4
<1>6. Max(T) \in T /\ \A y \in T : Max(T) >= y
  BY <1>5 DEF Max
<1>7. Max(T) \in Nat /\ \A y \in T : y \in Nat
  <2>1. \A y \in T : y \in Nat
    OBVIOUS
  <2> QED
    BY <1>6, <2>1
<1> DEFINE top == Max(T)
<1>8. top \in T /\ top \in Nat /\ \A y \in T : top >= y
  BY <1>6, <1>7
<1> HIDE DEF top
<1>9. top \in T /\ \A y \in T : y <= top
  BY <1>7, <1>8
<1> QED
  BY <1>9 DEF top
=============================================================================
