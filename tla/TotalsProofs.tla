---------------------------- MODULE TotalsProofs ----------------------------
(***************************************************************************)
(* What Total computes, for any finite set: the order in which the terms   *)
(* are added does not matter, so a sum can be split at any of its terms,   *)
(* bounded term by term, and taken over another set of keys.  The library  *)
(* defines a fold by a recursive function on the subsets; a smallest       *)
(* subset for which a fact fails stands in for induction.                  *)
(***************************************************************************)
EXTENDS Totals, FiniteSetTheorems, WellFoundedInduction, TLAPS

\* Of sets of subsets of a finite set one is minimal.
LEMMA SmallestSet ==
  ASSUME NEW S, IsFiniteSet(S), NEW Bad, Bad \subseteq SUBSET S, Bad # {}
  PROVE  \E U \in Bad : \A V \in Bad : V \subseteq U => V = U
  <1>1. Bad \subseteq FiniteSubsetsOf(S)
    BY FS_Subset DEF FiniteSubsetsOf
  <1>2. PICK U \in Bad : \A V \in Bad : <<V, U>> \notin StrictSubsetOrdering(S)
    BY <1>1, WFMin, FS_StrictSubsetOrderingWellFounded
  <1>3. ASSUME NEW V \in Bad, V \subseteq U, V # U PROVE FALSE
    <2>1. <<V, U>> \in StrictSubsetOrdering(S)
      BY <1>3 DEF StrictSubsetOrdering
    <2> QED
      BY <1>2, <2>1
  <1> QED
    BY <1>3

-----------------------------------------------------------------------------
(* The recursive function *)

First(V) == CHOOSE x \in V : TRUE

\* f is the function by which the sum over S is defined.
IsTotal(f, w, S) ==
  f = [V \in SUBSET S |-> IF V = {} THEN 0 ELSE w[First(V)] + f[V \ {First(V)}]]

\* Total is the value at S of the function that the library's fold chooses.
LEMMA TotalIs == ASSUME NEW w, NEW S PROVE Total(w, S) = (CHOOSE f : IsTotal(f, w, S))[S]
  BY DEF Total, MapThenSumSet, MapThenFoldSet, IsTotal, First

\* ... which takes away one element after the other.
LEMMA IsTotalAt ==
  ASSUME NEW S, NEW w, NEW f, IsTotal(f, w, S), NEW V, V \subseteq S
  PROVE  f[V] = IF V = {} THEN 0 ELSE w[First(V)] + f[V \ {First(V)}]
  BY DEF IsTotal

LEMMA FirstOf == ASSUME NEW V, V # {} PROVE First(V) \in V
  BY DEF First

\* There is one such function at most, and those of two sets agree on both.
LEMMA TotalsAgree ==
  ASSUME NEW S, IsFiniteSet(S), NEW T, NEW w, NEW f, NEW g, IsTotal(f, w, S), IsTotal(g, w, T),
         NEW V, V \subseteq S, V \subseteq T
  PROVE  f[V] = g[V]
  <1> DEFINE Bad == {U \in SUBSET S : U \subseteq T /\ f[U] # g[U]}
  <1>1. SUFFICES ASSUME Bad # {} PROVE FALSE
    OBVIOUS
  <1>2. PICK U \in Bad : \A W \in Bad : W \subseteq U => W = U
    <2>1. Bad \subseteq SUBSET S
      OBVIOUS
    <2> HIDE DEF Bad
    <2> QED
      BY <1>1, <2>1, SmallestSet
  <1>3. U # {}
    BY <1>2, IsTotalAt
  <1> DEFINE W == U \ {First(U)}
  <1>4. f[U] = w[First(U)] + f[W] /\ g[U] = w[First(U)] + g[W]
    BY <1>2, <1>3, IsTotalAt
  <1>5. W \subseteq U /\ W # U
    BY <1>3, FirstOf
  <1>6. f[W] = g[W]
    BY <1>2, <1>5
  <1> QED
    BY <1>2, <1>4, <1>6

\* There is one: on a smallest set without, it is put together from those of its subsets.
LEMMA TotalExists ==
  ASSUME NEW S, IsFiniteSet(S), NEW w
  PROVE  \E f : IsTotal(f, w, S)
  <1> DEFINE Bad == {U \in SUBSET S : ~\E f : IsTotal(f, w, U)}
  <1>1. SUFFICES ASSUME Bad # {} PROVE FALSE
    OBVIOUS
  <1>2. PICK U \in Bad : \A W \in Bad : W \subseteq U => W = U
    <2>1. Bad \subseteq SUBSET S
      OBVIOUS
    <2> HIDE DEF Bad
    <2> QED
      BY <1>1, <2>1, SmallestSet
  <1> DEFINE F(V) == CHOOSE f : IsTotal(f, w, V)
             Rest(V) == V \ {First(V)}
             g == [V \in SUBSET U |-> IF V = {} THEN 0 ELSE w[First(V)] + F(Rest(V))[Rest(V)]]
  <1>3. ASSUME NEW V, V \subseteq U, V # U PROVE IsTotal(F(V), w, V)
    <2>1. V \notin Bad
      BY <1>2, <1>3
    <2>2. \E f : IsTotal(f, w, V)
      BY <1>2, <1>3, <2>1
    <2> QED
      BY <2>2
  <1>4. ASSUME NEW V, V \subseteq U, V # U PROVE g[V] = F(V)[V]
    <2>1. F(V)[V] = IF V = {} THEN 0 ELSE w[First(V)] + F(V)[Rest(V)]
      BY <1>3, <1>4, IsTotalAt
    <2>2. CASE V = {}
      BY <2>1, <2>2
    <2>3. CASE V # {}
      <3>1. Rest(V) \subseteq V /\ Rest(V) \subseteq U /\ Rest(V) # U
        BY <1>4
      <3>2. IsTotal(F(V), w, V) /\ IsTotal(F(Rest(V)), w, Rest(V))
        BY <1>3, <1>4, <3>1
      <3>3. IsFiniteSet(V)
        BY <1>2, <1>4, FS_Subset
      <3> HIDE DEF F, Rest
      <3>4. F(V)[Rest(V)] = F(Rest(V))[Rest(V)]
        BY <3>1, <3>2, <3>3, TotalsAgree
      <3> QED
        BY <1>4, <2>1, <2>3, <3>4
    <2> QED
      BY <2>2, <2>3
  <1>5. ASSUME NEW V \in SUBSET U, V # {} PROVE g[Rest(V)] = F(Rest(V))[Rest(V)]
    <2>1. Rest(V) \subseteq U /\ Rest(V) # U
      BY <1>5, FirstOf
    <2> HIDE DEF g, F, Rest
    <2> QED
      BY <1>4, <2>1
  <1>6. g = [V \in SUBSET U |-> IF V = {} THEN 0 ELSE w[First(V)] + g[Rest(V)]]
    <2> HIDE DEF F, Rest
    <2>1. g = [V \in SUBSET U |-> g[V]]
      OBVIOUS
    <2>2. \A V \in SUBSET U : g[V] = IF V = {} THEN 0 ELSE w[First(V)] + g[Rest(V)]
      BY <1>5
    <2> HIDE DEF g
    <2> QED
      BY <2>1, <2>2
  <1>7. IsTotal(g, w, U)
    <2> HIDE DEF g
    <2> QED
      BY <1>6 DEF IsTotal
  <1> QED
    BY <1>2, <1>7

\* Nothing sums to zero.
LEMMA TotalEmpty == ASSUME NEW w PROVE Total(w, {}) = 0
  <1> DEFINE f == CHOOSE f : IsTotal(f, w, {})
  <1>1. IsTotal(f, w, {})
    BY TotalExists, FS_EmptySet
  <1>2. Total(w, {}) = f[{}]
    BY TotalIs
  <1> HIDE DEF f
  <1> QED
    BY <1>1, <1>2, IsTotalAt

\* A sum is the term of the element that is chosen first and the sum of the others.
LEMMA TotalFirst ==
  ASSUME NEW S, IsFiniteSet(S), S # {}, NEW w
  PROVE  Total(w, S) = w[First(S)] + Total(w, S \ {First(S)})
  <1> DEFINE T == S \ {First(S)}
             f == CHOOSE f : IsTotal(f, w, S)
             g == CHOOSE g : IsTotal(g, w, T)
  <1>1. T \subseteq S /\ IsFiniteSet(T)
    BY FS_Subset
  <1>2. IsTotal(f, w, S)
    BY TotalExists
  <1>3. IsTotal(g, w, T)
    <2> HIDE DEF T
    <2> QED
      BY <1>1, TotalExists
  <1>4. Total(w, S) = f[S] /\ Total(w, T) = g[T]
    BY TotalIs
  <1>5. f[S] = w[First(S)] + f[T]
    <2> HIDE DEF f
    <2> QED
      BY <1>2, IsTotalAt
  <1>6. f[T] = g[T]
    <2> HIDE DEF f, g, T
    <2> QED
      BY <1>1, <1>2, <1>3, TotalsAgree
  <1> QED
    BY <1>4, <1>5, <1>6

-----------------------------------------------------------------------------
(* Sums of integers *)

Terms(w, S, Num) == \A x \in S : w[x] \in Num

\* Integers sum to an integer.
LEMMA TotalInt ==
  ASSUME NEW S, IsFiniteSet(S), NEW w, Terms(w, S, Int)
  PROVE  Total(w, S) \in Int
  <1> DEFINE Bad == {U \in SUBSET S : Total(w, U) \notin Int}
  <1>1. SUFFICES ASSUME Bad # {} PROVE FALSE
    OBVIOUS
  <1>2. PICK U \in Bad : \A W \in Bad : W \subseteq U => W = U
    <2>1. Bad \subseteq SUBSET S
      OBVIOUS
    <2> HIDE DEF Bad
    <2> QED
      BY <1>1, <2>1, SmallestSet
  <1>3. U # {} /\ IsFiniteSet(U) /\ U \subseteq S
    <2>1. Total(w, {}) \in Int
      BY TotalEmpty
    <2>2. U \subseteq S /\ Total(w, U) \notin Int
      BY <1>2
    <2> QED
      BY <2>1, <2>2, FS_Subset
  <1> DEFINE W == U \ {First(U)}
  <1>4. First(U) \in U /\ W \subseteq U /\ W # U
    BY <1>3, FirstOf
  <1>5. Total(w, W) \in Int
    BY <1>2, <1>3, <1>4
  <1>6. Total(w, U) = w[First(U)] + Total(w, W)
    BY <1>3, TotalFirst
  <1> QED
    BY <1>2, <1>3, <1>4, <1>5, <1>6 DEF Terms

\* A sum can be split at any of its terms.
LEMMA TotalSplit ==
  ASSUME NEW S, IsFiniteSet(S), NEW w, Terms(w, S, Int), NEW x \in S
  PROVE  Total(w, S) = w[x] + Total(w, S \ {x})
  <1> DEFINE Bad == {U \in SUBSET S : \E y \in U : Total(w, U) # w[y] + Total(w, U \ {y})}
  <1>1. SUFFICES ASSUME Bad # {} PROVE FALSE
    OBVIOUS
  <1>2. PICK U \in Bad : \A W \in Bad : W \subseteq U => W = U
    <2>1. Bad \subseteq SUBSET S
      OBVIOUS
    <2> HIDE DEF Bad
    <2> QED
      BY <1>1, <2>1, SmallestSet
  <1>3. PICK y \in U : Total(w, U) # w[y] + Total(w, U \ {y})
    BY <1>2
  <1> DEFINE z == First(U)
  <1>4. z \in U /\ U \subseteq S /\ IsFiniteSet(U)
    BY <1>2, FirstOf, FS_Subset
  <1>5. Total(w, U) = w[z] + Total(w, U \ {z})
    BY <1>4, TotalFirst
  <1> HIDE DEF z
  <1>6. y # z
    BY <1>3, <1>5
  <1> DEFINE A == U \ {z}
             B == U \ {y}
             C == U \ {y, z}
  <1>7. A \ {y} = C /\ B \ {z} = C /\ y \in A /\ z \in B
        /\ A \subseteq U /\ A # U /\ B \subseteq U /\ B # U /\ C \subseteq U
    BY <1>4, <1>6
  <1>8. A \notin Bad /\ B \notin Bad
    BY <1>2, <1>7
  <1>9. Total(w, A) = w[y] + Total(w, C) /\ Total(w, B) = w[z] + Total(w, C)
    <2>1. A \in SUBSET S /\ B \in SUBSET S
      BY <1>4, <1>7
    <2> QED
      BY <1>7, <1>8, <2>1
  <1>10. Total(w, C) \in Int /\ w[y] \in Int /\ w[z] \in Int
    <2>1. IsFiniteSet(C) /\ Terms(w, C, Int)
      BY <1>4, <1>7, FS_Subset DEF Terms
    <2> QED
      BY <1>4, <2>1, TotalInt DEF Terms
  <1> HIDE DEF A, B, C
  <1>11. Total(w, U) = w[z] + Total(w, A) /\ Total(w, U) # w[y] + Total(w, B)
    BY <1>3, <1>5 DEF A, B
  <1> QED
    BY <1>9, <1>10, <1>11

\* Bounds that hold term by term hold of the sums.
LEMMA TotalWithin ==
  ASSUME NEW S, IsFiniteSet(S), NEW w, Terms(w, S, Int), NEW v, Terms(v, S, Int),
         NEW lo \in Int, NEW hi \in Int,
         \A x \in S : lo * v[x] <= w[x] /\ w[x] <= hi * v[x]
  PROVE  lo * Total(v, S) <= Total(w, S) /\ Total(w, S) <= hi * Total(v, S)
  <1> DEFINE Fits(U) == lo * Total(v, U) <= Total(w, U) /\ Total(w, U) <= hi * Total(v, U)
             Bad == {U \in SUBSET S : ~Fits(U)}
  <1>1. SUFFICES ASSUME Bad # {} PROVE FALSE
    OBVIOUS
  <1>2. PICK U \in Bad : \A W \in Bad : W \subseteq U => W = U
    <2>1. Bad \subseteq SUBSET S
      OBVIOUS
    <2> HIDE DEF Bad
    <2> QED
      BY <1>1, <2>1, SmallestSet
  <1>3. U \subseteq S /\ IsFiniteSet(U) /\ ~Fits(U)
    BY <1>2, FS_Subset
  <1>4. CASE U = {}
    <2>1. Total(v, U) = 0 /\ Total(w, U) = 0
      BY <1>4, TotalEmpty
    <2>2. lo * 0 = 0 /\ hi * 0 = 0
      OBVIOUS
    <2> QED
      BY <1>3, <2>1, <2>2
  <1>5. CASE U # {}
    <2>1. PICK x \in U : TRUE
      BY <1>5
    <2> DEFINE W == U \ {x}
    <2>2. W \subseteq U /\ W # U /\ IsFiniteSet(W) /\ Terms(w, U, Int) /\ Terms(v, U, Int)
          /\ Terms(w, W, Int) /\ Terms(v, W, Int)
      BY <1>3, <2>1, FS_Subset DEF Terms
    <2>3. Total(w, U) = w[x] + Total(w, W) /\ Total(v, U) = v[x] + Total(v, W)
      BY <1>3, <2>1, <2>2, TotalSplit
    <2>4. Total(w, W) \in Int /\ Total(v, W) \in Int /\ w[x] \in Int /\ v[x] \in Int
      BY <2>1, <2>2, TotalInt DEF Terms
    <2>5. Fits(W)
      <3>1. W \notin Bad /\ W \in SUBSET S
        BY <1>2, <1>3, <2>2
      <3> QED
        BY <3>1
    <2>6. lo * v[x] <= w[x] /\ w[x] <= hi * v[x]
      BY <1>3, <2>1
    <2>7. Fits(U)
      <3>1. ASSUME NEW a \in Int, NEW b \in Int, NEW c \in Int, NEW d \in Int,
                   lo * a <= b, b <= hi * a, lo * c <= d, d <= hi * c
            PROVE  lo * (a + c) <= b + d /\ b + d <= hi * (a + c)
        <4>1. lo * (a + c) = lo * a + lo * c /\ hi * (a + c) = hi * a + hi * c
          OBVIOUS
        <4>2. lo * a \in Int /\ lo * c \in Int /\ hi * a \in Int /\ hi * c \in Int
          OBVIOUS
        <4> QED
          BY <3>1, <4>1, <4>2
      <3> DEFINE A == Total(w, W)
                 B == Total(v, W)
      <3>2. A \in Int /\ B \in Int /\ lo * B <= A /\ A <= hi * B
        BY <2>4, <2>5
      <3>3. Total(w, U) = w[x] + A /\ Total(v, U) = v[x] + B
        BY <2>3
      <3> HIDE DEF A, B
      <3>4. lo * (v[x] + B) <= w[x] + A /\ w[x] + A <= hi * (v[x] + B)
        BY <2>4, <2>6, <3>1, <3>2
      <3> QED
        BY <3>3, <3>4
    <2> QED
      BY <1>3, <2>7
  <1> QED
    BY <1>4, <1>5

\* Natural numbers sum to a natural number.
LEMMA TotalNat ==
  ASSUME NEW S, IsFiniteSet(S), NEW w, Terms(w, S, Nat)
  PROVE  Total(w, S) \in Nat
  <1> DEFINE Bad == {U \in SUBSET S : Total(w, U) \notin Nat}
  <1>1. SUFFICES ASSUME Bad # {} PROVE FALSE
    OBVIOUS
  <1>2. PICK U \in Bad : \A W \in Bad : W \subseteq U => W = U
    <2>1. Bad \subseteq SUBSET S
      OBVIOUS
    <2> HIDE DEF Bad
    <2> QED
      BY <1>1, <2>1, SmallestSet
  <1>3. U # {} /\ IsFiniteSet(U) /\ U \subseteq S
    <2>1. Total(w, {}) \in Nat
      BY TotalEmpty
    <2>2. U \subseteq S /\ Total(w, U) \notin Nat
      BY <1>2
    <2> QED
      BY <2>1, <2>2, FS_Subset
  <1> DEFINE W == U \ {First(U)}
  <1>4. First(U) \in U /\ W \subseteq U /\ W # U
    BY <1>3, FirstOf
  <1>5. Total(w, W) \in Nat
    BY <1>2, <1>3, <1>4
  <1>6. Total(w, U) = w[First(U)] + Total(w, W)
    BY <1>3, TotalFirst
  <1> QED
    BY <1>2, <1>3, <1>4, <1>5, <1>6 DEF Terms

\* Terms that are zero may be left out.
LEMMA TotalZero ==
  ASSUME NEW T, IsFiniteSet(T), NEW v, Terms(v, T, Int), NEW R, R \subseteq T,
         \A x \in T \ R : v[x] = 0
  PROVE  Total(v, T) = Total(v, R)
  <1> DEFINE Bad == {D \in SUBSET (T \ R) : Total(v, R \cup D) # Total(v, R)}
  <1>1. SUFFICES ASSUME Bad # {} PROVE FALSE
    <2>1. R \cup (T \ R) = T /\ T \ R \in SUBSET (T \ R)
      OBVIOUS
    <2>2. T \ R \notin Bad
      BY <1>1
    <2>3. Total(v, R \cup (T \ R)) = Total(v, R)
      BY <2>1, <2>2
    <2> QED
      BY <2>1, <2>3
  <1>2. PICK D \in Bad : \A W \in Bad : W \subseteq D => W = D
    <2>1. Bad \subseteq SUBSET (T \ R) /\ IsFiniteSet(T \ R)
      BY FS_Subset
    <2> HIDE DEF Bad
    <2> QED
      BY <1>1, <2>1, SmallestSet
  <1>3. D # {}
    <2>1. R \cup {} = R
      OBVIOUS
    <2> QED
      BY <1>2, <2>1
  <1>4. PICK x \in D : TRUE
    BY <1>3
  <1> DEFINE W == D \ {x}
             U == R \cup D
  <1>5. W \notin Bad /\ W \in SUBSET (T \ R) /\ x \in U /\ U \subseteq T /\ U \ {x} = R \cup W
    BY <1>2, <1>4
  <1>6. IsFiniteSet(U) /\ IsFiniteSet(R) /\ Terms(v, U, Int) /\ Terms(v, R, Int)
    BY <1>5, FS_Subset DEF Terms
  <1> HIDE DEF U
  <1>7. Total(v, U) = v[x] + Total(v, U \ {x})
    BY <1>5, <1>6, TotalSplit
  <1>8. Total(v, R \cup W) = Total(v, R) /\ v[x] = 0 /\ Total(v, R) \in Int
    BY <1>2, <1>4, <1>5, <1>6, TotalInt
  <1>9. Total(v, U) = Total(v, R)
    BY <1>5, <1>7, <1>8
  <1> QED
    BY <1>2, <1>9 DEF U

\* The same terms under other keys, beside terms that are zero, have the same sum.
LEMMA TotalRekeyed ==
  ASSUME NEW S, IsFiniteSet(S), NEW T, IsFiniteSet(T), NEW w, NEW v, Terms(v, T, Int),
         NEW key \in [S -> T], \A x, y \in S : key[x] = key[y] => x = y,
         \A x \in S : w[x] = v[key[x]],
         \A y \in T : v[y] # 0 => \E x \in S : y = key[x]
  PROVE  Total(w, S) = Total(v, T)
  <1> DEFINE Image(U) == {key[x] : x \in U}
             Bad == {U \in SUBSET S : Total(w, U) # Total(v, Image(U))}
  <1>1. Total(v, T) = Total(v, Image(S))
    <2>1. Image(S) \subseteq T /\ \A y \in T \ Image(S) : v[y] = 0
      OBVIOUS
    <2> HIDE DEF Image
    <2> QED
      BY <2>1, TotalZero
  <1>2. SUFFICES ASSUME Bad # {} PROVE FALSE
    BY <1>1
  <1>3. PICK U \in Bad : \A W \in Bad : W \subseteq U => W = U
    <2>1. Bad \subseteq SUBSET S
      OBVIOUS
    <2> HIDE DEF Bad
    <2> QED
      BY <1>2, <2>1, SmallestSet
  <1>4. U # {}
    <2>1. Image({}) = {}
      OBVIOUS
    <2>2. Total(w, {}) = Total(v, Image({}))
      BY <2>1, TotalEmpty
    <2> QED
      BY <1>3, <2>2
  <1>5. PICK x \in U : TRUE
    BY <1>4
  <1> DEFINE W == U \ {x}
  <1>6. /\ U \subseteq S /\ W \in SUBSET S /\ W \notin Bad /\ IsFiniteSet(U)
        /\ key[x] \in Image(U) /\ Image(U) \ {key[x]} = Image(W)
        /\ Image(U) \subseteq T
    BY <1>3, <1>5, FS_Subset
  <1>7. Total(w, W) = Total(v, Image(W))
    BY <1>6
  <1>8. Total(w, U) = w[x] + Total(w, W)
    <2>1. Terms(w, U, Int)
      BY <1>6 DEF Terms
    <2> QED
      BY <1>5, <1>6, <2>1, TotalSplit
  <1>9. Total(v, Image(U)) = v[key[x]] + Total(v, Image(W))
    <2>1. IsFiniteSet(Image(U)) /\ Terms(v, Image(U), Int)
      BY <1>6, FS_Subset DEF Terms
    <2> HIDE DEF Image
    <2>2. Total(v, Image(U)) = v[key[x]] + Total(v, Image(U) \ {key[x]})
      BY <1>6, <2>1, TotalSplit
    <2> QED
      BY <1>6, <2>2
  <1>10. w[x] = v[key[x]]
    BY <1>5, <1>6
  <1> HIDE DEF Image
  <1>11. Total(w, U) = Total(v, Image(U))
    BY <1>7, <1>8, <1>9, <1>10
  <1> QED
    BY <1>3, <1>11
=============================================================================
