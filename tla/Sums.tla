-------------------------------- MODULE Sums --------------------------------
(***************************************************************************)
(* What a sum over the rows of a table is, for every finite table: the sum  *)
(* of no row, of a row more, of a row changed, of a table split in two.     *)
(* SumFunction is a fold that takes the rows in an order nobody knows; the  *)
(* first half shows that it is well defined and that the order is not seen. *)
(* Induction is over the subsets of a finite set, stated with a set of      *)
(* subsets in the place of a predicate.  The end says what the proofs of    *)
(* deadlock freedom need of finite sets.                                    *)
(***************************************************************************)
EXTENDS Integers, Functions, FiniteSetTheorems, TLAPS

LEMMA SubsetInduction ==
  ASSUME NEW D, IsFiniteSet(D), NEW G, G \subseteq SUBSET D,
         \A T \in SUBSET D : (\A U \in SUBSET T : U # T => U \in G) => T \in G
  PROVE  G = SUBSET D
<1> SUFFICES ASSUME G # SUBSET D PROVE FALSE
  OBVIOUS
<1> DEFINE Bad == (SUBSET D) \ G
<1>1. Bad \subseteq FiniteSubsetsOf(D) /\ Bad # {}
  BY FS_FiniteSubsetsOfFinite
<1>2. PICK T \in Bad : \A U \in Bad : ~(<<U, T>> \in StrictSubsetOrdering(D))
  <2> HIDE DEF Bad
  <2> QED BY <1>1, FS_StrictSubsetOrderingWellFounded, WFMin
<1>3. ASSUME NEW U \in SUBSET T, U # T PROVE U \in G
  <2>1. <<U, T>> \in StrictSubsetOrdering(D)
    BY <1>3 DEF StrictSubsetOrdering
  <2> QED BY <1>2, <2>1, <1>3
<1> QED
  BY <1>2, <1>3

\* Steps of one element are enough.
LEMMA RemovalInduction ==
  ASSUME NEW D, IsFiniteSet(D), NEW G, G \subseteq SUBSET D, {} \in G,
         \A T \in SUBSET D : \A x \in T : T \ {x} \in G => T \in G
  PROVE  D \in G
<1>1. ASSUME NEW T \in SUBSET D, \A U \in SUBSET T : U # T => U \in G PROVE T \in G
  <2>1. CASE T = {}
    BY <2>1
  <2>2. CASE T # {}
    <3>1. PICK x : x \in T
      BY <2>2
    <3>2. T \ {x} \in SUBSET T /\ T \ {x} # T
      BY <3>1
    <3>3. T \ {x} \in G
      BY <1>1, <3>2
    <3> QED BY <3>1, <3>3
  <2> QED BY <2>1, <2>2
<1>2. G = SUBSET D
  BY <1>1, SubsetInduction
<1> QED
  BY <1>2

LEMMA UpwardInduction ==
  ASSUME NEW G, G \subseteq Nat, 0 \in G, \A n \in G : n + 1 \in G
  PROVE  G = Nat
<1> SUFFICES ASSUME G # Nat PROVE FALSE
  OBVIOUS
<1> DEFINE Bad == Nat \ G
<1>1. Bad \subseteq Nat /\ Bad # {}
  OBVIOUS
<1>2. PICK n \in Bad : \A m \in Bad : ~(<<m, n>> \in OpToRel(<, Nat))
  <2> HIDE DEF Bad
  <2> QED BY <1>1, NatLessThanWellFounded, WFMin
<1>3. n \in Nat /\ n # 0 /\ n - 1 \in Nat /\ n - 1 < n /\ (n - 1) + 1 = n
  OBVIOUS
<1>4. n - 1 \in G
  <2>1. <<n - 1, n>> \in OpToRel(<, Nat)
    BY <1>3 DEF OpToRel
  <2> QED BY <1>2, <1>3, <2>1
<1> QED
  BY <1>2, <1>3, <1>4

-----------------------------------------------------------------------------
(* The fold.                                                               *)

Picked(S) == CHOOSE x \in S : TRUE
SumStep(g, f, S) == IF S = {} THEN 0 ELSE f[Picked(S)] + g[S \ {Picked(S)}]
Unfolds(g, f, D) == g = [S \in SUBSET D |-> SumStep(g, f, S)]
PartialSum(f, D) == CHOOSE g : Unfolds(g, f, D)

LEMMA SumIsPartial == ASSUME NEW f, NEW D PROVE SumFunctionOnSet(f, D) = PartialSum(f, D)[D]
BY DEF SumFunctionOnSet, FoldFunctionOnSet, MapThenFoldSet, PartialSum, Unfolds, SumStep, Picked

LEMMA PickedIn == ASSUME NEW S, S # {} PROVE Picked(S) \in S
BY DEF Picked

IntOn(f, D) == \A x \in D : f[x] \in Int

\* A function that unfolds the sums exists: the subsets are few enough to be
\* reached by the number of their elements.
LEMMA Exists ==
  ASSUME NEW D, IsFiniteSet(D), NEW f
  PROVE  \E g : Unfolds(g, f, D)
<1> DEFINE UpTo(g, n) == \A S \in SUBSET D : Cardinality(S) <= n => g[S] = SumStep(g, f, S)
           G == {n \in Nat : \E g : DOMAIN g = SUBSET D /\ g = [S \in SUBSET D |-> g[S]] /\ UpTo(g, n)}
<1>0. ASSUME NEW S \in SUBSET D
      PROVE  /\ Cardinality(S) \in Nat /\ Cardinality(S) <= Cardinality(D)
             /\ Cardinality(S) = 0 => S = {}
             /\ \A x \in S : Cardinality(S \ {x}) = Cardinality(S) - 1
  <2>1. IsFiniteSet(S) /\ Cardinality(S) <= Cardinality(D)
    BY FS_Subset
  <2> QED BY <2>1, FS_CardinalityType, FS_EmptySet, FS_RemoveElement
<1>1. 0 \in G
  <2> DEFINE g == [S \in SUBSET D |-> 0]
  <2>1. UpTo(g, 0)
    BY <1>0 DEF SumStep
  <2>2. DOMAIN g = SUBSET D /\ g = [S \in SUBSET D |-> g[S]]
    OBVIOUS
  <2> QED BY <2>1, <2>2
<1>2. ASSUME NEW n \in G PROVE n + 1 \in G
  <2>1. PICK g : DOMAIN g = SUBSET D /\ UpTo(g, n)
    OBVIOUS
  <2> DEFINE h == [S \in SUBSET D |-> SumStep(g, f, S)]
  <2>2. ASSUME NEW S \in SUBSET D, Cardinality(S) <= n + 1 PROVE h[S] = SumStep(h, f, S)
    <3>1. CASE S = {}
      BY <3>1 DEF SumStep
    <3>2. CASE S # {}
      <4> DEFINE R == S \ {Picked(S)}
      <4>1. R \in SUBSET D /\ Cardinality(R) <= n
        BY <1>0, <2>2, <3>2, PickedIn
      <4>2. h[R] = g[R]
        BY <2>1, <4>1
      <4> QED BY <3>2, <4>2 DEF SumStep
    <3> QED BY <3>1, <3>2
  <2>3. UpTo(h, n + 1) /\ DOMAIN h = SUBSET D /\ h = [S \in SUBSET D |-> h[S]]
    BY <2>2
  <2> HIDE DEF h, UpTo
  <2> QED BY <2>3
<1>3. G = Nat
  <2> HIDE DEF G
  <2>1. G \subseteq Nat
    BY DEF G
  <2> QED BY <1>1, <1>2, <2>1, UpwardInduction
<1>4. PICK g : g = [S \in SUBSET D |-> g[S]] /\ UpTo(g, Cardinality(D))
  BY <1>3, FS_CardinalityType
<1>5. \A S \in SUBSET D : g[S] = SumStep(g, f, S)
  BY <1>0, <1>4
<1> QED
  BY <1>4, <1>5 DEF Unfolds

LEMMA PartialUnfolds ==
  ASSUME NEW D, IsFiniteSet(D), NEW f, IntOn(f, D)
  PROVE  /\ \A S \in SUBSET D : PartialSum(f, D)[S] = SumStep(PartialSum(f, D), f, S)
         /\ \A S \in SUBSET D : PartialSum(f, D)[S] \in Int
<1> DEFINE g == PartialSum(f, D)
           G == {S \in SUBSET D : g[S] \in Int}
<1>1. Unfolds(g, f, D)
  BY Exists DEF PartialSum
<1>2. ASSUME NEW S \in SUBSET D PROVE g[S] = SumStep(g, f, S)
  BY <1>1 DEF Unfolds
<1> HIDE DEF g
<1>3. ASSUME NEW T \in SUBSET D, \A U \in SUBSET T : U # T => U \in G PROVE T \in G
  <2>0. g[T] = SumStep(g, f, T)
    BY <1>2
  <2>1. CASE T = {}
    <3>1. g[T] = 0
      BY <2>0, <2>1 DEF SumStep
    <3> QED BY <3>1
  <2>2. CASE T # {}
    <3>1. Picked(T) \in T /\ T \ {Picked(T)} \in SUBSET T /\ T \ {Picked(T)} # T
      BY <2>2, PickedIn
    <3>2. T \ {Picked(T)} \in G
      BY <1>3, <3>1
    <3> QED BY <2>0, <2>2, <3>1, <3>2 DEF SumStep, IntOn
  <2> QED BY <2>1, <2>2
<1>4. G = SUBSET D
  <2>1. G \subseteq SUBSET D
    OBVIOUS
  <2> HIDE DEF G
  <2> QED BY <1>3, <2>1, SubsetInduction
<1> QED
  BY <1>2, <1>4 DEF g

\* Any element may be taken out first.
LEMMA AnyFirst ==
  ASSUME NEW D, IsFiniteSet(D), NEW f, IntOn(f, D), NEW S \in SUBSET D, NEW x \in S
  PROVE  PartialSum(f, D)[S] = f[x] + PartialSum(f, D)[S \ {x}]
<1> DEFINE g == PartialSum(f, D)
           G == {T \in SUBSET D : \A y \in T : g[T] = f[y] + g[T \ {y}]}
<1>1. /\ \A T \in SUBSET D : g[T] = SumStep(g, f, T) /\ g[T] \in Int
      /\ \A y \in D : f[y] \in Int
  BY PartialUnfolds DEF IntOn
<1> HIDE DEF g
<1>2. ASSUME NEW T \in SUBSET D, \A U \in SUBSET T : U # T => U \in G PROVE T \in G
  <2> SUFFICES ASSUME NEW y \in T PROVE g[T] = f[y] + g[T \ {y}]
    OBVIOUS
  <2> DEFINE p == Picked(T)
  <2>1. p \in T /\ g[T] = f[p] + g[T \ {p}]
    BY <1>1, PickedIn DEF SumStep
  <2> HIDE DEF p
  <2>2. CASE y = p
    BY <2>1, <2>2
  <2>3. CASE y # p
    <3> DEFINE R == T \ {p, y}
    <3>1. T \ {p} \in G /\ T \ {y} \in G
      BY <1>2, <2>1
    <3>2. g[T \ {p}] = f[y] + g[R]
      <4>1. (T \ {p}) \ {y} = R /\ y \in T \ {p}
        BY <2>3
      <4> QED BY <3>1, <4>1
    <3>3. g[T \ {y}] = f[p] + g[R]
      <4>1. (T \ {y}) \ {p} = R /\ p \in T \ {y}
        BY <2>1, <2>3
      <4> QED BY <3>1, <4>1
    <3>4. g[R] \in Int /\ f[p] \in Int /\ f[y] \in Int
      BY <1>1, <2>1
    <3> HIDE DEF R
    <3> QED BY <2>1, <3>2, <3>3, <3>4
  <2> QED BY <2>2, <2>3
<1>3. G = SUBSET D
  <2>1. G \subseteq SUBSET D
    OBVIOUS
  <2> HIDE DEF G
  <2> QED BY <1>2, <2>1, SubsetInduction
<1> QED
  BY <1>3 DEF g

\* Only the values that are added count.
LEMMA Local ==
  ASSUME NEW D, IsFiniteSet(D), NEW E, IsFiniteSet(E), NEW f, NEW h, IntOn(f, D), IntOn(h, E),
         NEW S, S \subseteq D, S \subseteq E, \A x \in S : f[x] = h[x]
  PROVE  PartialSum(f, D)[S] = PartialSum(h, E)[S]
<1> DEFINE p == PartialSum(f, D)
           q == PartialSum(h, E)
           G == {T \in SUBSET S : p[T] = q[T]}
<1>1. \A T \in SUBSET S : p[T] = SumStep(p, f, T) /\ q[T] = SumStep(q, h, T)
  BY PartialUnfolds
<1> HIDE DEF p, q
<1>2. {} \in G
  BY <1>1 DEF SumStep
<1>3. ASSUME NEW T \in SUBSET S, \A U \in SUBSET T : U # T => U \in G PROVE T \in G
  <2>0. p[T] = SumStep(p, f, T) /\ q[T] = SumStep(q, h, T)
    BY <1>1
  <2>1. CASE T = {}
    BY <2>1, <1>2
  <2>2. CASE T # {}
    <3>1. Picked(T) \in T /\ T \ {Picked(T)} \in SUBSET T /\ T \ {Picked(T)} # T
      BY <2>2, PickedIn
    <3>2. T \ {Picked(T)} \in G /\ f[Picked(T)] = h[Picked(T)]
      BY <1>3, <3>1
    <3> QED BY <2>0, <2>2, <3>1, <3>2 DEF SumStep
  <2> QED BY <2>1, <2>2
<1>4. G = SUBSET S
  <2>1. G \subseteq SUBSET S /\ IsFiniteSet(S)
    BY FS_Subset
  <2> HIDE DEF G
  <2> QED BY <1>3, <2>1, SubsetInduction
<1> QED
  BY <1>4 DEF p, q

-----------------------------------------------------------------------------
(* Sums over a set of indices.                                             *)

LEMMA SumOnEmpty == ASSUME NEW f PROVE SumFunctionOnSet(f, {}) = 0
<1>1. IsFiniteSet({}) /\ IntOn(f, {})
  BY FS_EmptySet DEF IntOn
<1>2. PartialSum(f, {})[{}] = SumStep(PartialSum(f, {}), f, {})
  BY <1>1, PartialUnfolds
<1> QED
  BY <1>2, SumIsPartial DEF SumStep

LEMMA SumOnType ==
  ASSUME NEW D, IsFiniteSet(D), NEW f, IntOn(f, D)
  PROVE  SumFunctionOnSet(f, D) \in Int
BY PartialUnfolds, SumIsPartial

LEMMA SumOnEqual ==
  ASSUME NEW D, IsFiniteSet(D), NEW f, NEW h, IntOn(f, D), \A x \in D : f[x] = h[x]
  PROVE  SumFunctionOnSet(f, D) = SumFunctionOnSet(h, D)
<1>1. IntOn(h, D)
  BY DEF IntOn
<1> QED
  BY <1>1, Local, SumIsPartial

\* One index less.
LEMMA SumOnRemove ==
  ASSUME NEW D, IsFiniteSet(D), NEW f, IntOn(f, D), NEW x \in D
  PROVE  SumFunctionOnSet(f, D) = f[x] + SumFunctionOnSet(f, D \ {x})
<1> DEFINE E == D \ {x}
<1>1. IsFiniteSet(E) /\ IntOn(f, E) /\ E \in SUBSET D
  BY FS_Subset DEF IntOn
<1>2. PartialSum(f, D)[D] = f[x] + PartialSum(f, D)[E]
  BY AnyFirst
<1>3. PartialSum(f, D)[E] = PartialSum(f, E)[E]
  <2> HIDE DEF E
  <2> QED BY <1>1, Local
<1> QED
  BY <1>2, <1>3, SumIsPartial

LEMMA SumOnAdd ==
  ASSUME NEW D, IsFiniteSet(D), NEW f, NEW x, x \notin D, IntOn(f, D \union {x})
  PROVE  SumFunctionOnSet(f, D \union {x}) = SumFunctionOnSet(f, D) + f[x]
<1> DEFINE E == D \union {x}
<1>1. IsFiniteSet(E) /\ x \in E /\ E \ {x} = D
  BY FS_AddElement
<1>2. IntOn(f, D) /\ f[x] \in Int
  BY DEF IntOn
<1>3. SumFunctionOnSet(f, E) = f[x] + SumFunctionOnSet(f, E \ {x})
  <2>1. IntOn(f, E)
    OBVIOUS
  <2> HIDE DEF E
  <2> QED BY <1>1, <2>1, SumOnRemove
<1>4. SumFunctionOnSet(f, E \ {x}) = SumFunctionOnSet(f, D)
  BY <1>1
<1>5. SumFunctionOnSet(f, D) \in Int
  BY <1>2, SumOnType
<1>6. SumFunctionOnSet(f, E) = SumFunctionOnSet(f, D) + f[x]
  <2> HIDE DEF E
  <2> QED BY <1>2, <1>3, <1>4, <1>5
<1> QED
  BY <1>6

\* Two tables added row by row.
LEMMA SumOnPlus ==
  ASSUME NEW D, IsFiniteSet(D), NEW f, NEW g, NEW h, IntOn(g, D), IntOn(h, D),
         \A x \in D : f[x] = g[x] + h[x]
  PROVE  SumFunctionOnSet(f, D) = SumFunctionOnSet(g, D) + SumFunctionOnSet(h, D)
<1> DEFINE S(k, T) == SumFunctionOnSet(k, T)
           G == {T \in SUBSET D : S(f, T) = S(g, T) + S(h, T)}
<1>1. {} \in G
  BY SumOnEmpty
<1>2. ASSUME NEW T \in SUBSET D, NEW x \in T, T \ {x} \in G PROVE T \in G
  <2>1. IsFiniteSet(T) /\ IsFiniteSet(T \ {x})
    BY FS_Subset
  <2>2. /\ IntOn(f, T) /\ IntOn(g, T) /\ IntOn(h, T)
        /\ IntOn(g, T \ {x}) /\ IntOn(h, T \ {x})
    BY DEF IntOn
  <2>3. S(f, T) = f[x] + S(f, T \ {x})
    BY <2>1, <2>2, SumOnRemove
  <2>4. S(g, T) = g[x] + S(g, T \ {x})
    BY <2>1, <2>2, SumOnRemove
  <2>5. S(h, T) = h[x] + S(h, T \ {x})
    BY <2>1, <2>2, SumOnRemove
  <2>6. S(f, T \ {x}) = S(g, T \ {x}) + S(h, T \ {x})
    BY <1>2
  <2>7. S(g, T \ {x}) \in Int /\ S(h, T \ {x}) \in Int
    BY <2>1, <2>2, SumOnType
  <2>8. f[x] = g[x] + h[x] /\ g[x] \in Int /\ h[x] \in Int
    BY DEF IntOn
  <2> HIDE DEF S
  <2>9. S(f, T) = S(g, T) + S(h, T)
    BY <2>3, <2>4, <2>5, <2>6, <2>7, <2>8
  <2> QED BY <2>9
<1>3. D \in G
  <2>1. G \subseteq SUBSET D
    OBVIOUS
  <2> HIDE DEF G
  <2> QED BY <1>1, <1>2, <2>1, RemovalInduction
<1> QED
  BY <1>3

\* A table split in two.
LEMMA SumOnSplit ==
  ASSUME NEW A, NEW B, IsFiniteSet(A), IsFiniteSet(B), A \intersect B = {},
         NEW f, IntOn(f, A \union B)
  PROVE  SumFunctionOnSet(f, A \union B) = SumFunctionOnSet(f, A) + SumFunctionOnSet(f, B)
<1> DEFINE S(T) == SumFunctionOnSet(f, T)
           G == {T \in SUBSET B : S(A \union T) = S(A) + S(T)}
<1>0. IntOn(f, A) /\ S(A) \in Int
  BY SumOnType DEF IntOn
<1>1. {} \in G
  <2>1. A \union {} = A /\ S({}) = 0
    BY SumOnEmpty
  <2> QED BY <1>0, <2>1
<1>2. ASSUME NEW T \in SUBSET B, NEW x \in T, T \ {x} \in G PROVE T \in G
  <2>1. IsFiniteSet(T) /\ IsFiniteSet(T \ {x})
    BY FS_Subset
  <2>2. IsFiniteSet(A \union T)
    BY <2>1, FS_Union
  <2>3. IntOn(f, T) /\ IntOn(f, A \union T) /\ IntOn(f, T \ {x}) /\ f[x] \in Int
    BY DEF IntOn
  <2>4. S(T) = f[x] + S(T \ {x})
    BY <2>1, <2>3, SumOnRemove
  <2>5. S(A \union T) = f[x] + S((A \union T) \ {x})
    BY <2>2, <2>3, SumOnRemove
  <2>6. (A \union T) \ {x} = A \union (T \ {x})
    OBVIOUS
  <2>7. S(A \union (T \ {x})) = S(A) + S(T \ {x})
    BY <1>2
  <2>8. S(T \ {x}) \in Int
    BY <2>1, <2>3, SumOnType
  <2>9. S(A \union T) = f[x] + (S(A) + S(T \ {x}))
    BY <2>5, <2>6, <2>7
  <2> HIDE DEF S
  <2>10. S(A \union T) = S(A) + S(T)
    BY <1>0, <2>3, <2>4, <2>8, <2>9
  <2> QED BY <2>10
<1>3. B \in G
  <2>1. G \subseteq SUBSET B
    OBVIOUS
  <2> HIDE DEF G
  <2> QED BY <1>1, <1>2, <2>1, RemovalInduction
<1> QED
  BY <1>3

LEMMA SumOnZero ==
  ASSUME NEW D, IsFiniteSet(D), NEW f, \A x \in D : f[x] = 0
  PROVE  SumFunctionOnSet(f, D) = 0
<1> DEFINE G == {T \in SUBSET D : SumFunctionOnSet(f, T) = 0}
<1>1. {} \in G
  BY SumOnEmpty
<1>2. ASSUME NEW T \in SUBSET D, NEW x \in T, T \ {x} \in G PROVE T \in G
  <2>1. IsFiniteSet(T) /\ IntOn(f, T) /\ f[x] = 0
    BY FS_Subset DEF IntOn
  <2>2. SumFunctionOnSet(f, T) = f[x] + SumFunctionOnSet(f, T \ {x})
    BY <2>1, SumOnRemove
  <2>3. SumFunctionOnSet(f, T \ {x}) = 0
    BY <1>2
  <2> QED BY <2>1, <2>2, <2>3
<1>3. D \in G
  <2>1. G \subseteq SUBSET D
    OBVIOUS
  <2> HIDE DEF G
  <2> QED BY <1>1, <1>2, <2>1, RemovalInduction
<1> QED
  BY <1>3

\* One value changed.
LEMMA SumOnChange ==
  ASSUME NEW D, IsFiniteSet(D), NEW f, NEW h, IntOn(f, D), IntOn(h, D),
         NEW x \in D, \A y \in D \ {x} : h[y] = f[y]
  PROVE  SumFunctionOnSet(h, D) = (SumFunctionOnSet(f, D) - f[x]) + h[x]
<1> DEFINE E == D \ {x}
<1>1. IsFiniteSet(E) /\ IntOn(f, E) /\ f[x] \in Int /\ h[x] \in Int
  BY FS_Subset DEF IntOn
<1>2. SumFunctionOnSet(f, D) = f[x] + SumFunctionOnSet(f, E)
  BY SumOnRemove
<1>3. SumFunctionOnSet(h, D) = h[x] + SumFunctionOnSet(h, E)
  BY SumOnRemove
<1>4. \A y \in E : f[y] = h[y]
  OBVIOUS
<1> HIDE DEF E
<1>5. SumFunctionOnSet(f, E) = SumFunctionOnSet(h, E)
  BY <1>1, <1>4, SumOnEqual
<1>6. SumFunctionOnSet(f, E) \in Int
  BY <1>1, SumOnType
<1> QED
  BY <1>1, <1>2, <1>3, <1>5, <1>6

\* A sum over a whole table is the sum over its domain.
LEMMA SumIsOnDomain ==
  ASSUME NEW f PROVE SumFunction(f) = SumFunctionOnSet(f, DOMAIN f)
BY DEF SumFunction, SumFunctionOnSet

\* The same values under other names: b names each row of A by one of B.
Renames(b, A, B) ==
  /\ b \in [A -> B]
  /\ \A x, y \in A : b[x] = b[y] => x = y
  /\ \A z \in B : \E x \in A : z = b[x]

LEMMA SumOnRenamed ==
  ASSUME NEW A, NEW B, IsFiniteSet(A), NEW f, NEW h, IntOn(f, A),
         NEW b, Renames(b, A, B), \A x \in A : h[b[x]] = f[x]
  PROVE  IsFiniteSet(B) /\ SumFunctionOnSet(h, B) = SumFunctionOnSet(f, A)
<1> DEFINE Image(T) == {b[x] : x \in T}
           G == {T \in SUBSET A : /\ IsFiniteSet(Image(T))
                                   /\ SumFunctionOnSet(h, Image(T)) = SumFunctionOnSet(f, T)}
<1>1. {} \in G
  <2>1. Image({}) = {}
    OBVIOUS
  <2> QED BY <2>1, SumOnEmpty, FS_EmptySet
<1>2. ASSUME NEW T \in SUBSET A, NEW x \in T, T \ {x} \in G PROVE T \in G
  <2> DEFINE R == T \ {x}
  <2>1. IsFiniteSet(T) /\ IntOn(f, T) /\ IsFiniteSet(R) /\ IntOn(f, R)
    BY FS_Subset DEF IntOn
  <2>2. SumFunctionOnSet(f, T) = f[x] + SumFunctionOnSet(f, R)
    BY <2>1, SumOnRemove
  <2> DEFINE E == Image(R)
             e == b[x]
  <2>3. Image(T) = E \union {e}
    OBVIOUS
  <2>10. e \notin E
    BY DEF Renames
  <2>4. IsFiniteSet(E) /\ SumFunctionOnSet(h, E) = SumFunctionOnSet(f, R)
    BY <1>2
  <2>5. IntOn(h, E \union {e}) /\ h[e] = f[x] /\ f[x] \in Int
    BY DEF IntOn
  <2>6. SumFunctionOnSet(f, R) \in Int
    BY <2>1, SumOnType
  <2> HIDE DEF Image, R, E, e
  <2>11. SumFunctionOnSet(h, E \union {e}) = SumFunctionOnSet(h, E) + h[e]
    BY <2>10, <2>4, <2>5, SumOnAdd
  <2>7. SumFunctionOnSet(h, Image(T)) = SumFunctionOnSet(h, E) + h[e]
    BY <2>3, <2>11
  <2>8. IsFiniteSet(Image(T))
    BY <2>3, <2>4, FS_AddElement
  <2>9. SumFunctionOnSet(h, Image(T)) = SumFunctionOnSet(f, T)
    BY <2>2, <2>4, <2>5, <2>6, <2>7
  <2> QED BY <2>8, <2>9
<1>3. A \in G
  <2>1. G \subseteq SUBSET A
    OBVIOUS
  <2> HIDE DEF G
  <2> QED BY <1>1, <1>2, <2>1, RemovalInduction
<1>4. Image(A) = B
  BY DEF Renames
<1> HIDE DEF Image
<1> QED
  BY <1>3, <1>4

LEMMA SumOnNegated ==
  ASSUME NEW D, IsFiniteSet(D), NEW f, NEW h, IntOn(f, D), \A x \in D : h[x] = -f[x]
  PROVE  SumFunctionOnSet(h, D) = -SumFunctionOnSet(f, D)
<1> DEFINE z == [x \in D |-> 0]
<1>1. IntOn(h, D) /\ \A x \in D : z[x] = f[x] + h[x]
  BY DEF IntOn
<1>2. \A x \in D : z[x] = 0
  OBVIOUS
<1> HIDE DEF z
<1>3. SumFunctionOnSet(z, D) = SumFunctionOnSet(f, D) + SumFunctionOnSet(h, D)
  BY <1>1, SumOnPlus
<1>4. SumFunctionOnSet(z, D) = 0
  BY <1>2, SumOnZero
<1>5. SumFunctionOnSet(f, D) \in Int /\ SumFunctionOnSet(h, D) \in Int
  BY <1>1, SumOnType
<1> QED
  BY <1>3, <1>4, <1>5

LEMMA SumOnNat ==
  ASSUME NEW D, IsFiniteSet(D), NEW f, \A x \in D : f[x] \in Nat
  PROVE  SumFunctionOnSet(f, D) \in Nat
<1> DEFINE G == {T \in SUBSET D : SumFunctionOnSet(f, T) \in Nat}
<1>1. {} \in G
  BY SumOnEmpty
<1>2. ASSUME NEW T \in SUBSET D, NEW x \in T, T \ {x} \in G PROVE T \in G
  <2>1. IsFiniteSet(T) /\ IntOn(f, T) /\ f[x] \in Nat
    BY FS_Subset DEF IntOn
  <2>2. SumFunctionOnSet(f, T) = f[x] + SumFunctionOnSet(f, T \ {x})
    BY <2>1, SumOnRemove
  <2> QED BY <1>2, <2>1, <2>2
<1>3. D \in G
  <2>1. G \subseteq SUBSET D
    OBVIOUS
  <2> HIDE DEF G
  <2> QED BY <1>1, <1>2, <2>1, RemovalInduction
<1> QED
  BY <1>3

LEMMA SumOnMinus ==
  ASSUME NEW D, IsFiniteSet(D), NEW f, NEW g, NEW h, IntOn(g, D), IntOn(h, D),
         \A x \in D : f[x] = g[x] - h[x]
  PROVE  SumFunctionOnSet(f, D) = SumFunctionOnSet(g, D) - SumFunctionOnSet(h, D)
<1>1. IntOn(f, D) /\ \A x \in D : g[x] = f[x] + h[x]
  BY DEF IntOn
<1>2. SumFunctionOnSet(g, D) = SumFunctionOnSet(f, D) + SumFunctionOnSet(h, D)
  BY <1>1, SumOnPlus
<1>3. SumFunctionOnSet(f, D) \in Int /\ SumFunctionOnSet(g, D) \in Int /\ SumFunctionOnSet(h, D) \in Int
  BY <1>1, SumOnType
<1> QED
  BY <1>2, <1>3

LEMMA SumOnOne == ASSUME NEW f, NEW x, f[x] \in Int PROVE SumFunctionOnSet(f, {x}) = f[x]
<1>1. IsFiniteSet({x}) /\ IntOn(f, {x}) /\ {x} \ {x} = {}
  BY FS_Singleton DEF IntOn
<1>2. SumFunctionOnSet(f, {x}) = f[x] + SumFunctionOnSet(f, {x} \ {x})
  BY <1>1, SumOnRemove
<1> QED
  BY <1>1, <1>2, SumOnEmpty

\* Rows counted one by one.
LEMMA SumOnOnes ==
  ASSUME NEW D, IsFiniteSet(D), NEW f, \A x \in D : f[x] = 1
  PROVE  SumFunctionOnSet(f, D) = Cardinality(D)
<1> DEFINE G == {T \in SUBSET D : SumFunctionOnSet(f, T) = Cardinality(T)}
<1>1. {} \in G
  BY SumOnEmpty, FS_EmptySet
<1>2. ASSUME NEW T \in SUBSET D, NEW x \in T, T \ {x} \in G PROVE T \in G
  <2>1. IsFiniteSet(T) /\ IntOn(f, T) /\ f[x] = 1
    BY FS_Subset DEF IntOn
  <2>2. SumFunctionOnSet(f, T) = f[x] + SumFunctionOnSet(f, T \ {x})
    BY <2>1, SumOnRemove
  <2>3. Cardinality(T \ {x}) = Cardinality(T) - 1 /\ Cardinality(T) \in Nat
    BY <2>1, FS_RemoveElement, FS_CardinalityType
  <2>4. SumFunctionOnSet(f, T \ {x}) = Cardinality(T \ {x})
    BY <1>2
  <2>5. SumFunctionOnSet(f, T) = Cardinality(T)
    BY <2>1, <2>2, <2>3, <2>4
  <2> QED BY <2>5
<1>3. D \in G
  <2>1. G \subseteq SUBSET D
    OBVIOUS
  <2> HIDE DEF G
  <2> QED BY <1>1, <1>2, <2>1, RemovalInduction
<1> QED
  BY <1>3

\* A table split in parts named by N, each with its own sum.
PartAt(D, part, n) == {x \in D : part[x] = n}

LEMMA SumOnParts ==
  ASSUME NEW D, IsFiniteSet(D), NEW N, IsFiniteSet(N), NEW f, IntOn(f, D),
         NEW part, \A x \in D : part[x] \in N,
         NEW g, \A n \in N : g[n] = SumFunctionOnSet(f, PartAt(D, part, n))
  PROVE  SumFunctionOnSet(g, N) = SumFunctionOnSet(f, D)
<1> DEFINE Part(T, n) == PartAt(T, part, n)
           Of(T) == [n \in N |-> SumFunctionOnSet(f, Part(T, n))]
           G == {T \in SUBSET D : SumFunctionOnSet(Of(T), N) = SumFunctionOnSet(f, T)}
<1>0. ASSUME NEW T \in SUBSET D
      PROVE  IsFiniteSet(T) /\ IntOn(f, T) /\ IntOn(Of(T), N)
             /\ \A n \in N : IsFiniteSet(Part(T, n)) /\ IntOn(f, Part(T, n))
  <2>1. IsFiniteSet(T) /\ IntOn(f, T)
    BY FS_Subset DEF IntOn
  <2>2. ASSUME NEW n \in N
        PROVE  /\ IsFiniteSet(Part(T, n)) /\ IntOn(f, Part(T, n))
               /\ SumFunctionOnSet(f, Part(T, n)) \in Int
    <3>1. Part(T, n) \subseteq T
      BY DEF PartAt
    <3> HIDE DEF Part
    <3>2. IsFiniteSet(Part(T, n))
      BY <2>1, <3>1, FS_Subset
    <3>3. IntOn(f, Part(T, n))
      BY <2>1, <3>1 DEF IntOn
    <3> QED BY <3>2, <3>3, SumOnType
  <2> HIDE DEF Part
  <2>3. IntOn(Of(T), N)
    BY <2>2 DEF IntOn
  <2> QED BY <2>1, <2>2, <2>3
<1>1. {} \in G
  <2>1. \A n \in N : Part({}, n) = {}
    BY DEF PartAt
  <2> HIDE DEF Part
  <2>2. \A n \in N : Of({})[n] = 0
    BY <2>1, SumOnEmpty
  <2> HIDE DEF Of
  <2>3. SumFunctionOnSet(Of({}), N) = 0
    BY <2>2, SumOnZero
  <2> QED BY <2>3, SumOnEmpty
<1>2. ASSUME NEW T \in SUBSET D, NEW x \in T, T \ {x} \in G PROVE T \in G
  <2> DEFINE R == T \ {x}
  <2> PICK n : n = part[x]
    OBVIOUS
  <2>1. R \in SUBSET D /\ n \in N /\ f[x] \in Int
    BY DEF IntOn
  <2>2. ASSUME NEW k \in N \ {n} PROVE Of(T)[k] = Of(R)[k]
    <3>1. Part(T, k) = Part(R, k)
      BY DEF PartAt
    <3> HIDE DEF Part
    <3> QED BY <3>1
  <2>3. Part(T, n) \ {x} = Part(R, n) /\ x \in Part(T, n)
    BY DEF PartAt
  <2>4. /\ IsFiniteSet(T) /\ IntOn(f, T) /\ IntOn(Of(T), N)
        /\ IsFiniteSet(Part(T, n)) /\ IntOn(f, Part(T, n))
    BY <1>0, <2>1
  <2>5. IsFiniteSet(R) /\ IntOn(f, R) /\ IntOn(Of(R), N)
        /\ IsFiniteSet(Part(R, n)) /\ IntOn(f, Part(R, n))
    BY <1>0, <2>1
  <2>6. SumFunctionOnSet(f, T) = f[x] + SumFunctionOnSet(f, R)
    BY <2>4, SumOnRemove
  <2> HIDE DEF Part
  <2>7. SumFunctionOnSet(f, Part(T, n)) = f[x] + SumFunctionOnSet(f, Part(R, n))
    <3>1. SumFunctionOnSet(f, Part(T, n)) = f[x] + SumFunctionOnSet(f, Part(T, n) \ {x})
      <4>1. IsFiniteSet(Part(T, n)) /\ IntOn(f, Part(T, n)) /\ x \in Part(T, n)
        BY <2>3, <2>4
      <4> QED BY <4>1, SumOnRemove
    <3> QED BY <2>3, <3>1
  <2>8. Of(T)[n] = f[x] + Of(R)[n] /\ Of(R)[n] \in Int
    BY <2>1, <2>5, <2>7, SumOnType
  <2>9. SumFunctionOnSet(Of(R), N) = SumFunctionOnSet(f, R)
    BY <1>2
  <2> HIDE DEF Of, R
  <2>10. SumFunctionOnSet(Of(T), N) = (SumFunctionOnSet(Of(R), N) - Of(R)[n]) + Of(T)[n]
    BY <2>1, <2>2, <2>4, <2>5, SumOnChange
  <2>11. SumFunctionOnSet(f, R) \in Int
    BY <2>5, SumOnType
  <2>12. SumFunctionOnSet(Of(T), N) = SumFunctionOnSet(f, T)
    BY <2>1, <2>6, <2>8, <2>9, <2>10, <2>11
  <2> QED BY <2>12
<1>3. D \in G
  <2>1. G \subseteq SUBSET D
    OBVIOUS
  <2> HIDE DEF G
  <2> QED BY <1>1, <1>2, <2>1, RemovalInduction
<1>4. \A n \in N : Of(D)[n] = g[n]
  OBVIOUS
<1>5. IntOn(Of(D), N)
  BY <1>0
<1>6. SumFunctionOnSet(Of(D), N) = SumFunctionOnSet(f, D)
  BY <1>3
<1> HIDE DEF Of
<1> QED
  BY <1>4, <1>5, <1>6, SumOnEqual

\* The rows and the columns of a rectangular table add up to the same.
ColumnOf(f, A, y) == [x \in A |-> f[x][y]]

LEMMA SumOnSwap ==
  ASSUME NEW A, NEW B, IsFiniteSet(A), IsFiniteSet(B),
         NEW f, \A x \in A : \A y \in B : f[x][y] \in Int,
         NEW g, \A x \in A : g[x] = SumFunctionOnSet(f[x], B),
         NEW h, \A y \in B : h[y] = SumFunctionOnSet(ColumnOf(f, A, y), A)
  PROVE  SumFunctionOnSet(g, A) = SumFunctionOnSet(h, B)
<1> DEFINE Column(y) == ColumnOf(f, A, y)
           Down(T) == [y \in B |-> SumFunctionOnSet(Column(y), T)]
           G == {T \in SUBSET A : SumFunctionOnSet(g, T) = SumFunctionOnSet(Down(T), B)}
<1>0. /\ \A x \in A : IntOn(f[x], B) /\ g[x] \in Int
      /\ \A T \in SUBSET A : IsFiniteSet(T) /\ IntOn(g, T)
  <2>1. \A x \in A : IntOn(f[x], B)
    BY DEF IntOn
  <2>2. \A x \in A : g[x] \in Int
    BY <2>1, SumOnType
  <2>3. \A T \in SUBSET A : IsFiniteSet(T)
    BY FS_Subset
  <2> QED BY <2>1, <2>2, <2>3 DEF IntOn
<1>7. ASSUME NEW T \in SUBSET A PROVE IntOn(Down(T), B) /\ \A y \in B : IntOn(Column(y), T)
  <2>1. \A y \in B : IntOn(Column(y), T)
    BY DEF IntOn, ColumnOf
  <2> HIDE DEF Column
  <2>2. \A y \in B : Down(T)[y] \in Int
    BY <1>0, <2>1, SumOnType
  <2> QED BY <2>1, <2>2 DEF IntOn
<1>1. {} \in G
  <2>1. \A y \in B : Down({})[y] = 0
    BY SumOnEmpty
  <2> HIDE DEF Down
  <2>2. SumFunctionOnSet(Down({}), B) = 0
    BY <2>1, SumOnZero
  <2> QED BY <2>2, SumOnEmpty
<1>2. ASSUME NEW T \in SUBSET A, NEW x \in T, T \ {x} \in G PROVE T \in G
  <2> DEFINE R == T \ {x}
  <2>1. R \in SUBSET A /\ SumFunctionOnSet(g, R) = SumFunctionOnSet(Down(R), B)
    BY <1>2
  <2>2. SumFunctionOnSet(g, T) = g[x] + SumFunctionOnSet(g, R)
    BY <1>0, SumOnRemove
  <2>3. ASSUME NEW y \in B PROVE Down(T)[y] = f[x][y] + Down(R)[y]
    <3>1. SumFunctionOnSet(Column(y), T) = Column(y)[x] + SumFunctionOnSet(Column(y), R)
      <4>1. IntOn(Column(y), T) /\ IsFiniteSet(T)
        BY <1>0, <1>7
      <4> HIDE DEF Column
      <4> QED BY <4>1, SumOnRemove
    <3>2. Column(y)[x] = f[x][y]
      BY DEF ColumnOf
    <3> HIDE DEF Column
    <3> QED BY <3>1, <3>2
  <2>4. IntOn(f[x], B) /\ IntOn(Down(R), B)
    BY <1>0, <1>7, <2>1
  <2> HIDE DEF Down, R
  <2>5. SumFunctionOnSet(Down(T), B) = SumFunctionOnSet(f[x], B) + SumFunctionOnSet(Down(R), B)
    BY <2>3, <2>4, SumOnPlus
  <2>6. SumFunctionOnSet(g, T) = SumFunctionOnSet(Down(T), B)
    BY <2>1, <2>2, <2>5
  <2> QED BY <2>6
<1>3. A \in G
  <2>1. G \subseteq SUBSET A
    OBVIOUS
  <2> HIDE DEF G
  <2> QED BY <1>1, <1>2, <2>1, RemovalInduction
<1>4. \A y \in B : Down(A)[y] = h[y]
  OBVIOUS
<1>5. IntOn(Down(A), B) /\ SumFunctionOnSet(g, A) = SumFunctionOnSet(Down(A), B)
  BY <1>3, <1>7
<1> HIDE DEF Down
<1>6. SumFunctionOnSet(Down(A), B) = SumFunctionOnSet(h, B)
  BY <1>4, <1>5, SumOnEqual
<1> QED
  BY <1>5, <1>6

\* A value found under one name only.
LEMMA SumOnWhere ==
  ASSUME NEW D, IsFiniteSet(D), NEW f, NEW x \in D, f[x] \in Int, \A y \in D \ {x} : f[y] = 0
  PROVE  SumFunctionOnSet(f, D) = f[x]
<1> DEFINE E == D \ {x}
<1>1. IsFiniteSet(E) /\ IntOn(f, D)
  BY FS_Subset DEF IntOn
<1>2. SumFunctionOnSet(f, D) = f[x] + SumFunctionOnSet(f, E)
  BY <1>1, SumOnRemove
<1>3. \A y \in E : f[y] = 0
  OBVIOUS
<1> HIDE DEF E
<1>4. SumFunctionOnSet(f, E) = 0
  BY <1>1, <1>3, SumOnZero
<1> QED
  BY <1>2, <1>4

\* The rows of a table appended to another.
LEMMA SumOnShifted ==
  ASSUME NEW A, IsFiniteSet(A), A \subseteq Int, NEW f, IntOn(f, A), NEW n \in Int,
         NEW h, \A x \in A : h[n + x] = f[x]
  PROVE  /\ IsFiniteSet({n + x : x \in A})
         /\ SumFunctionOnSet(h, {n + x : x \in A}) = SumFunctionOnSet(f, A)
<1> PICK B : B = {n + x : x \in A}
  OBVIOUS
<1> PICK b : b = [x \in A |-> n + x]
  OBVIOUS
<1>1. Renames(b, A, B)
  <2>1. \A x, y \in A : n + x = n + y => x = y
    OBVIOUS
  <2> QED BY <2>1 DEF Renames
<1>2. \A x \in A : h[b[x]] = f[x]
  OBVIOUS
<1>3. IsFiniteSet(A) /\ IntOn(f, A)
  OBVIOUS
<1>4. IsFiniteSet(B) /\ SumFunctionOnSet(h, B) = SumFunctionOnSet(f, A)
  BY ONLY <1>1, <1>2, <1>3, SumOnRenamed
<1> QED
  BY <1>4

(***************************************************************************)
(* Finite sets.                                                            *)
(***************************************************************************)
LEMMA FiniteImage ==
  ASSUME NEW S, IsFiniteSet(S), NEW f
  PROVE  IsFiniteSet({f[x] : x \in S})
<1> PICK T : T = {f[x] : x \in S}
  OBVIOUS
<1> PICK h : h = [x \in S |-> f[x]]
  OBVIOUS
<1>1. h \in Surjection(S, T)
  BY DEF Surjection
<1> QED
  BY <1>1, FS_Surjection

\* Where each of finitely many waits for another, some wait for each other:
\* each of them for one of them, and one of them for each.
LEMMA CircleExists ==
  ASSUME NEW P, IsFiniteSet(P), P # {}, NEW R, \A x \in P : \E y \in P : <<x, y>> \in R
  PROVE  \E S \in SUBSET P :
           /\ S # {}
           /\ \A x \in S : (\E y \in S : <<x, y>> \in R) /\ (\E y \in S : <<y, x>> \in R)
<1> DEFINE Closed(S) == \A x \in S : \E y \in S : <<x, y>> \in R
           Bad == {S \in SUBSET P : S # {} /\ Closed(S)}
<1>1. Bad \subseteq FiniteSubsetsOf(P) /\ P \in Bad
  BY FS_FiniteSubsetsOfFinite
<1>2. PICK S \in Bad : \A U \in Bad : ~(<<U, S>> \in StrictSubsetOrdering(P))
  <2> HIDE DEF Bad
  <2> QED BY <1>1, FS_StrictSubsetOrderingWellFounded, WFMin
<1>3. ASSUME NEW x \in S PROVE \E y \in S : <<y, x>> \in R
  <2> SUFFICES ASSUME \A y \in S : <<y, x>> \notin R PROVE FALSE
    OBVIOUS
  <2>1. PICK z \in S : <<x, z>> \in R
    BY <1>2, <1>3
  <2>2. Closed(S \ {x}) /\ S \ {x} # {}
    BY <1>2, <2>1
  <2>3. S \ {x} \in Bad /\ <<S \ {x}, S>> \in StrictSubsetOrdering(P)
    BY <1>2, <1>3, <2>2 DEF StrictSubsetOrdering
  <2> QED BY <1>2, <2>3
<1> QED
  BY <1>2, <1>3
=============================================================================
