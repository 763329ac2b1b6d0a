---------------------------------- MODULE Sums ----------------------------------
(***************************************************************************)
(* Sums over finite sets, as the modules take them: MapThenSumSet adds up  *)
(* h[x] over the elements of S, one element after the other.  The lemmas   *)
(* say that such a sum exists, that the order does not matter, and what    *)
(* becomes of it when the set or one of the addends changes.               *)
(***************************************************************************)
EXTENDS Integers, FiniteSets, FiniteSetsExt, FiniteSetTheorems,
        WellFoundedInduction, TLAPS

\* The sum of h over S.
SumOver(h, S) == MapThenSumSet(LAMBDA x : h[x], S)

\* The element of S that is added last.
LastOf(S) == CHOOSE x \in S : TRUE

\* f adds h up over every subset of S.
AddsUp(h, S, f) ==
    f = [s \in SUBSET S |-> IF s = {} THEN 0 ELSE h[LastOf(s)] + f[s \ {LastOf(s)}]]

-----------------------------------------------------------------------------
\* Induction, said of the set of those that are good.

\* Induction over the subsets of a finite set, C those that are good.
LEMMA SubsetsAre ==
    ASSUME NEW S, IsFiniteSet(S), NEW C,
           \A T \in SUBSET S : (\A U \in SUBSET T : U # T => U \in C) => T \in C
    PROVE  S \in C
<1>1. SUFFICES ASSUME S \notin C PROVE FALSE
  OBVIOUS
<1> DEFINE B == (SUBSET S) \ C
<1>2. IsWellFoundedOn(StrictSubsetOrdering(S), SUBSET S)
  BY FS_StrictSubsetOrderingWellFounded, FS_FiniteSubsetsOfFinite
<1>3. PICK T \in B : \A U \in B : ~(<<U, T>> \in StrictSubsetOrdering(S))
  <2> HIDE DEF B
  <2>1. B # {} /\ B \subseteq SUBSET S
    BY <1>1 DEF B
  <2> QED BY <1>2, <2>1, WFMin
<1>4. \A U \in SUBSET T : U # T => U \in C
  BY <1>3 DEF StrictSubsetOrdering
<1> QED BY <1>3, <1>4

\* Induction over the numbers, C those that are good.
LEMMA NumbersAre ==
    ASSUME NEW C, 0 \in C, \A k \in Nat : k \in C => k + 1 \in C
    PROVE  Nat \subseteq C
<1> SUFFICES ASSUME NEW n \in Nat PROVE n \in C
  OBVIOUS
<1> DEFINE D == 0 .. n
           G == {T \in SUBSET D : \A k \in Nat : T = 0 .. k => k \in C}
<1>1. ASSUME NEW T \in SUBSET D, \A U \in SUBSET T : U # T => U \in G
      PROVE  T \in G
  <2> SUFFICES ASSUME NEW k \in Nat, T = 0 .. k PROVE k \in C
    OBVIOUS
  <2>1. CASE k = 0
    BY <2>1
  <2>2. CASE k # 0
    <3>1. k - 1 \in Nat /\ (k - 1) + 1 = k
      BY <2>2
    <3>2. 0 .. k - 1 \in SUBSET T /\ 0 .. k - 1 # T
      <4>1. k \in T /\ k \notin 0 .. k - 1
        OBVIOUS
      <4> QED BY <4>1
    <3>3. 0 .. k - 1 \in G
      <4> HIDE DEF G
      <4> QED BY <1>1, <3>2
    <3> QED BY <3>1, <3>3
  <2> QED BY <2>1, <2>2
<1>2. D \in G
  <2>1. IsFiniteSet(D)
    BY FS_Interval
  <2> HIDE DEF D, G
  <2> QED BY <1>1, <2>1, SubsetsAre
<1> QED BY <1>2

\* u gives every number up to n a value of S: a to 0, and to each other one
\* what F makes of it and the value before.
Recurs(u, S, a, F, n) ==
    /\ u \in [0 .. n -> S]
    /\ u[0] = a
    /\ \A k \in 1 .. n : u[k] = F[<<u[k - 1], k>>]

\* There is such a u.
LEMMA RecursionExists ==
    ASSUME NEW S, NEW a \in S, NEW F \in [S \X Nat -> S], NEW n \in Nat
    PROVE  \E u : Recurs(u, S, a, F, n)
<1> DEFINE C == {m \in Nat : \E u : Recurs(u, S, a, F, m)}
<1>1. 0 \in C
  <2> DEFINE u == [k \in 0 .. 0 |-> a]
  <2>1. Recurs(u, S, a, F, 0)
    BY DEF Recurs
  <2> QED BY <2>1
<1>2. ASSUME NEW m \in Nat, m \in C PROVE m + 1 \in C
  <2>1. PICK u : Recurs(u, S, a, F, m)
    BY <1>2
  <2> DEFINE w == [k \in 0 .. m + 1 |-> IF k =< m THEN u[k] ELSE F[<<u[m], m + 1>>]]
  <2>2. F[<<u[m], m + 1>>] \in S
    BY <2>1 DEF Recurs
  <2>3. \A k \in 0 .. m : w[k] = u[k] /\ u[k] \in S
    BY <2>1 DEF Recurs
  <2>4. w[m + 1] = F[<<u[m], m + 1>>]
    OBVIOUS
  <2>5. w \in [0 .. m + 1 -> S]
    <3>1. ASSUME NEW k \in 0 .. m + 1 PROVE w[k] \in S
      <4>1. k \in 0 .. m \/ k = m + 1
        OBVIOUS
      <4> HIDE DEF w
      <4> QED BY <2>2, <2>3, <2>4, <4>1
    <3> QED BY <3>1
  <2> HIDE DEF w
  <2>6. ASSUME NEW k \in 1 .. m + 1 PROVE w[k] = F[<<w[k - 1], k>>]
    <3>1. CASE k = m + 1
      <4>1. k - 1 = m /\ m \in 0 .. m
        BY <3>1
      <4> QED BY <2>3, <2>4, <3>1, <4>1
    <3>2. CASE k # m + 1
      <4>1. k \in 1 .. m /\ k \in 0 .. m /\ k - 1 \in 0 .. m
        BY <3>2
      <4>2. u[k] = F[<<u[k - 1], k>>]
        BY <2>1, <4>1 DEF Recurs
      <4> QED BY <2>3, <4>1, <4>2
    <3> QED BY <3>1, <3>2
  <2>7. w[0] = a
    BY <2>1, <2>3 DEF Recurs
  <2>8. Recurs(w, S, a, F, m + 1)
    BY <2>5, <2>6, <2>7 DEF Recurs
  <2> QED BY <2>8
<1> HIDE DEF C
<1>3. n \in C
  BY <1>1, <1>2, NumbersAre
<1> QED BY <1>3 DEF C

-----------------------------------------------------------------------------
\* The sum exists.

\* Two functions that add h up agree where both do.
LEMMA AddsOnce ==
    ASSUME NEW h, NEW S, NEW T, IsFiniteSet(T), T \subseteq S,
           NEW f, AddsUp(h, S, f), NEW g, AddsUp(h, T, g)
    PROVE  f[T] = g[T]
<1> DEFINE C == {U \in SUBSET T : f[U] = g[U]}
<1>1. ASSUME NEW U \in SUBSET T, \A W \in SUBSET U : W # U => W \in C
      PROVE  U \in C
  <2>1. CASE U = {}
    BY <2>1 DEF AddsUp
  <2>2. CASE U # {}
    <3>1. LastOf(U) \in U
      BY <2>2 DEF LastOf
    <3>2. U \ {LastOf(U)} \in C
      BY <1>1, <3>1
    <3>3. f[U] = h[LastOf(U)] + f[U \ {LastOf(U)}]
      BY <2>2 DEF AddsUp
    <3>4. g[U] = h[LastOf(U)] + g[U \ {LastOf(U)}]
      BY <2>2 DEF AddsUp
    <3> QED BY <3>2, <3>3, <3>4
  <2> QED BY <2>1, <2>2
<1> HIDE DEF C
<1>2. T \in C
  BY <1>1, SubsetsAre
<1> QED BY <1>2 DEF C

\* There is a function that adds h up.
LEMMA AddsExists ==
    ASSUME NEW h, NEW S, IsFiniteSet(S)
    PROVE  \E f : AddsUp(h, S, f)
<1> DEFINE C == {T \in SUBSET S : \E f : AddsUp(h, T, f)}
<1>1. ASSUME NEW T \in SUBSET S, \A U \in SUBSET T : U # T => U \in C
      PROVE  T \in C
  <2> DEFINE F(U) == CHOOSE f : AddsUp(h, U, f)
             f == [s \in SUBSET T |->
                     IF s = {} THEN 0 ELSE h[LastOf(s)] + F(s \ {LastOf(s)})[s \ {LastOf(s)}]]
  <2>1. ASSUME NEW U \in SUBSET T, U # T PROVE AddsUp(h, U, F(U))
    BY <1>1, <2>1
  <2>2. ASSUME NEW U \in SUBSET T, U # T PROVE f[U] = F(U)[U]
    <3>1. CASE U = {}
      <4>1. F(U)[U] = 0
        <5>1. AddsUp(h, U, F(U))
          BY <2>1, <2>2
        <5> HIDE DEF F
        <5> QED BY <3>1, <5>1 DEF AddsUp
      <4> QED BY <3>1, <4>1
    <3>2. CASE U # {}
      <4> DEFINE W == U \ {LastOf(U)}
      <4>1. LastOf(U) \in U
        BY <3>2 DEF LastOf
      <4>2. W \in SUBSET T /\ W # T /\ W \subseteq U /\ IsFiniteSet(W)
        BY <4>1, FS_Subset
      <4>3. AddsUp(h, U, F(U)) /\ AddsUp(h, W, F(W))
        BY <2>1, <2>2, <4>2
      <4>4. F(U)[W] = F(W)[W]
        <5> HIDE DEF F, W
        <5> QED BY <4>2, <4>3, AddsOnce
      <4>5. F(U)[U] = h[LastOf(U)] + F(U)[W]
        <5> HIDE DEF F
        <5> QED BY <3>2, <4>3 DEF AddsUp
      <4>6. f[U] = h[LastOf(U)] + F(W)[W]
        BY <3>2
      <4> QED BY <4>4, <4>5, <4>6
    <3> QED BY <3>1, <3>2
  <2>3. ASSUME NEW U \in SUBSET T, U # {}
        PROVE  F(U \ {LastOf(U)})[U \ {LastOf(U)}] = f[U \ {LastOf(U)}]
    <3>1. LastOf(U) \in U
      BY <2>3 DEF LastOf
    <3>2. U \ {LastOf(U)} \in SUBSET T /\ U \ {LastOf(U)} # T
      BY <3>1
    <3> HIDE DEF f, F
    <3> QED BY <2>2, <3>2
  <2>4. AddsUp(h, T, f)
    <3> DEFINE g == [s \in SUBSET T |->
                       IF s = {} THEN 0 ELSE h[LastOf(s)] + f[s \ {LastOf(s)}]]
    <3>1. ASSUME NEW s \in SUBSET T PROVE f[s] = g[s]
      <4>1. CASE s = {}
        BY <4>1
      <4>2. CASE s # {}
        <5>1. f[s] = h[LastOf(s)] + F(s \ {LastOf(s)})[s \ {LastOf(s)}]
          BY <4>2
        <5>2. g[s] = h[LastOf(s)] + f[s \ {LastOf(s)}]
          <6> HIDE DEF f
          <6> QED BY <4>2
        <5> HIDE DEF f, F, g
        <5> QED BY <2>3, <4>2, <5>1, <5>2
      <4> QED BY <4>1, <4>2
    <3>2. f = g
      <4> DEFINE D == SUBSET T
      <4>1. f = [s \in D |-> f[s]] /\ g = [s \in D |-> g[s]]
        OBVIOUS
      <4> HIDE DEF f, g
      <4> QED BY <3>1, <4>1
    <3> HIDE DEF f
    <3> QED BY <3>2 DEF AddsUp
  <2> HIDE DEF f
  <2> QED BY <2>4
<1> HIDE DEF C
<1>2. S \in C
  BY <1>1, SubsetsAre
<1> QED BY <1>2 DEF C

\* So the sum is what it is written to be.
LEMMA SumStep ==
    ASSUME NEW h, NEW S, IsFiniteSet(S)
    PROVE  SumOver(h, S) =
             IF S = {} THEN 0 ELSE h[LastOf(S)] + SumOver(h, S \ {LastOf(S)})
<1> DEFINE F(U) == CHOOSE f : AddsUp(h, U, f)
           W == S \ {LastOf(S)}
<1>1. SumOver(h, S) = F(S)[S] /\ SumOver(h, W) = F(W)[W]
  BY DEF SumOver, MapThenSumSet, MapThenFoldSet, AddsUp, LastOf
<1>2. W \subseteq S /\ IsFiniteSet(W)
  BY FS_Subset
<1>3. AddsUp(h, S, F(S)) /\ AddsUp(h, W, F(W))
  BY <1>2, AddsExists
<1>4. F(S)[W] = F(W)[W]
  <2> HIDE DEF F, W
  <2> QED BY <1>2, <1>3, AddsOnce
<1>5. F(S)[S] = IF S = {} THEN 0 ELSE h[LastOf(S)] + F(S)[W]
  <2> HIDE DEF F
  <2> QED BY <1>3 DEF AddsUp
<1> HIDE DEF F
<1> QED BY <1>1, <1>4, <1>5

-----------------------------------------------------------------------------
\* What the sum is.

\* Nothing adds up to zero.
LEMMA SumNone == ASSUME NEW h PROVE SumOver(h, {}) = 0
  BY SumStep, FS_EmptySet

\* A sum of natural numbers is one.
LEMMA SumType ==
    ASSUME NEW h, NEW S, IsFiniteSet(S), \A x \in S : h[x] \in Nat
    PROVE  SumOver(h, S) \in Nat
<1> DEFINE C == {T \in SUBSET S : SumOver(h, T) \in Nat}
<1>1. ASSUME NEW T \in SUBSET S, \A U \in SUBSET T : U # T => U \in C
      PROVE  T \in C
  <2>1. CASE T = {}
    BY <2>1, SumNone
  <2>2. CASE T # {}
    <3>1. LastOf(T) \in T
      BY <2>2 DEF LastOf
    <3>2. SumOver(h, T \ {LastOf(T)}) \in Nat
      BY <1>1, <3>1
    <3>3. SumOver(h, T) = h[LastOf(T)] + SumOver(h, T \ {LastOf(T)})
      BY <2>2, SumStep, FS_Subset
    <3> QED BY <3>1, <3>2, <3>3
  <2> QED BY <2>1, <2>2
<1> HIDE DEF C
<1>2. S \in C
  BY <1>1, SubsetsAre
<1> QED BY <1>2 DEF C

\* Any element may be the last.
LEMMA SumRemove ==
    ASSUME NEW h, NEW S, IsFiniteSet(S), \A x \in S : h[x] \in Nat, NEW a \in S
    PROVE  SumOver(h, S) = h[a] + SumOver(h, S \ {a})
<1> DEFINE C == {T \in SUBSET S :
                    \A b \in T : SumOver(h, T) = h[b] + SumOver(h, T \ {b})}
<1>1. ASSUME NEW T \in SUBSET S, \A U \in SUBSET T : U # T => U \in C, NEW b \in T
      PROVE  SumOver(h, T) = h[b] + SumOver(h, T \ {b})
  <2> DEFINE z == LastOf(T)
  <2>1. z \in T
    BY DEF LastOf
  <2>2. SumOver(h, T) = h[z] + SumOver(h, T \ {z})
    BY SumStep, FS_Subset
  <2>3. CASE b = z
    BY <2>2, <2>3
  <2>4. CASE b # z
    <3> HIDE DEF z
    <3>1. SumOver(h, T \ {z}) = h[b] + SumOver(h, (T \ {z}) \ {b})
      BY <1>1, <2>1, <2>4
    <3>2. SumOver(h, T \ {b}) = h[z] + SumOver(h, (T \ {b}) \ {z})
      BY <1>1, <2>1, <2>4
    <3>3. (T \ {z}) \ {b} = (T \ {b}) \ {z}
      OBVIOUS
    <3>4. SumOver(h, (T \ {b}) \ {z}) \in Nat
      BY SumType, FS_Subset
    <3> QED BY <2>1, <2>2, <3>1, <3>2, <3>3, <3>4
  <2> QED BY <2>3, <2>4
<1>2. ASSUME NEW T \in SUBSET S, \A U \in SUBSET T : U # T => U \in C
      PROVE  T \in C
  BY <1>1, <1>2
<1> HIDE DEF C
<1>3. S \in C
  BY <1>2, SubsetsAre
<1> QED BY <1>3 DEF C

\* One more element adds its own.
LEMMA SumAdd ==
    ASSUME NEW h, NEW S, IsFiniteSet(S), NEW a, a \notin S,
           \A x \in S \cup {a} : h[x] \in Nat
    PROVE  SumOver(h, S \cup {a}) = h[a] + SumOver(h, S)
<1>1. IsFiniteSet(S \cup {a}) /\ (S \cup {a}) \ {a} = S
  BY FS_AddElement
<1> QED BY <1>1, SumRemove

\* Equal addends, equal sums.
LEMMA SumSame ==
    ASSUME NEW h, NEW g, NEW S, IsFiniteSet(S), \A x \in S : h[x] = g[x]
    PROVE  SumOver(h, S) = SumOver(g, S)
<1> DEFINE C == {T \in SUBSET S : SumOver(h, T) = SumOver(g, T)}
<1>1. ASSUME NEW T \in SUBSET S, \A U \in SUBSET T : U # T => U \in C
      PROVE  T \in C
  <2>1. CASE T = {}
    BY <2>1, SumNone
  <2>2. CASE T # {}
    <3>1. LastOf(T) \in T
      BY <2>2 DEF LastOf
    <3>2. SumOver(h, T \ {LastOf(T)}) = SumOver(g, T \ {LastOf(T)})
      BY <1>1, <3>1
    <3>3. /\ SumOver(h, T) = h[LastOf(T)] + SumOver(h, T \ {LastOf(T)})
          /\ SumOver(g, T) = g[LastOf(T)] + SumOver(g, T \ {LastOf(T)})
      BY <2>2, SumStep, FS_Subset
    <3> QED BY <3>1, <3>2, <3>3
  <2> QED BY <2>1, <2>2
<1> HIDE DEF C
<1>2. S \in C
  BY <1>1, SubsetsAre
<1> QED BY <1>2 DEF C

\* When one addend changes, the sum changes by as much.
LEMMA SumOneChanges ==
    ASSUME NEW h, NEW g, NEW S, IsFiniteSet(S), NEW a \in S,
           \A x \in S : h[x] \in Nat /\ g[x] \in Nat,
           \A x \in S \ {a} : h[x] = g[x]
    PROVE  SumOver(g, S) + h[a] = SumOver(h, S) + g[a]
<1>1. SumOver(h, S) = h[a] + SumOver(h, S \ {a}) /\ SumOver(g, S) = g[a] + SumOver(g, S \ {a})
  BY SumRemove
<1>2. SumOver(h, S \ {a}) = SumOver(g, S \ {a}) /\ SumOver(h, S \ {a}) \in Nat
  BY SumSame, SumType, FS_Subset
<1> QED BY <1>1, <1>2

\* As by an assignment to one place of the function.
LEMMA SumExcept ==
    ASSUME NEW S, IsFiniteSet(S), NEW h \in [S -> Nat], NEW a \in S, NEW v \in Nat
    PROVE  /\ SumOver([h EXCEPT ![a] = v], S) + h[a] = SumOver(h, S) + v
           /\ SumOver([h EXCEPT ![a] = v], S) \in Nat
<1> DEFINE g == [h EXCEPT ![a] = v]
<1>1. /\ \A x \in S : h[x] \in Nat /\ g[x] \in Nat
      /\ \A x \in S \ {a} : h[x] = g[x]
      /\ g[a] = v
  OBVIOUS
<1> HIDE DEF g
<1>2. SumOver(g, S) + h[a] = SumOver(h, S) + g[a]
  BY <1>1, SumOneChanges
<1>3. SumOver(g, S) \in Nat
  BY <1>1, SumType
<1> QED BY <1>1, <1>2, <1>3 DEF g

\* The sum over two sets apart is that of their sums.
LEMMA SumApart ==
    ASSUME NEW h, NEW S, NEW T, IsFiniteSet(S), IsFiniteSet(T), S \cap T = {},
           \A x \in S \cup T : h[x] \in Nat
    PROVE  SumOver(h, S \cup T) = SumOver(h, S) + SumOver(h, T)
<1> DEFINE C == {U \in SUBSET T : SumOver(h, S \cup U) = SumOver(h, S) + SumOver(h, U)}
<1>0. SumOver(h, S) \in Nat
  BY SumType
<1>1. ASSUME NEW U \in SUBSET T, \A W \in SUBSET U : W # U => W \in C
      PROVE  U \in C
  <2>1. CASE U = {}
    BY <1>0, <2>1, SumNone
  <2>2. CASE U # {}
    <3>1. PICK a \in U : TRUE
      BY <2>2
    <3>2. /\ IsFiniteSet(U \ {a}) /\ IsFiniteSet(U) /\ IsFiniteSet(S \cup U)
          /\ (S \cup U) \ {a} = S \cup (U \ {a})
      BY FS_Subset, FS_Union
    <3>3. SumOver(h, S \cup U) = h[a] + SumOver(h, S \cup (U \ {a}))
      <4>1. a \in S \cup U /\ \A x \in S \cup U : h[x] \in Nat
        OBVIOUS
      <4> QED BY <3>2, <4>1, SumRemove
    <3>4. SumOver(h, U) = h[a] + SumOver(h, U \ {a})
      BY <3>2, SumRemove
    <3>5. SumOver(h, S \cup (U \ {a})) = SumOver(h, S) + SumOver(h, U \ {a})
      BY <1>1
    <3>6. SumOver(h, U \ {a}) \in Nat /\ h[a] \in Nat
      BY <3>2, SumType
    <3> QED BY <1>0, <3>3, <3>4, <3>5, <3>6
  <2> QED BY <2>1, <2>2
<1> HIDE DEF C
<1>2. T \in C
  BY <1>1, SubsetsAre
<1> QED BY <1>2 DEF C

\* Part of a sum, and one more than the rest.
LEMMA SumPart ==
    ASSUME NEW h, NEW S, IsFiniteSet(S), NEW T \in SUBSET S, \A x \in S : h[x] \in Nat
    PROVE  /\ SumOver(h, S) = SumOver(h, T) + SumOver(h, S \ T)
           /\ SumOver(h, T) \in Nat /\ SumOver(h, S \ T) \in Nat
           /\ SumOver(h, T) <= SumOver(h, S)
<1>1. IsFiniteSet(T) /\ IsFiniteSet(S \ T) /\ T \cup (S \ T) = S /\ T \cap (S \ T) = {}
  BY FS_Subset
<1>2. SumOver(h, T) \in Nat /\ SumOver(h, S \ T) \in Nat
  BY <1>1, SumType
<1>3. SumOver(h, S) = SumOver(h, T) + SumOver(h, S \ T)
  <2>1. \A x \in T \cup (S \ T) : h[x] \in Nat
    OBVIOUS
  <2>2. SumOver(h, T \cup (S \ T)) = SumOver(h, T) + SumOver(h, S \ T)
    BY <1>1, <2>1, SumApart
  <2> QED BY <1>1, <2>2
<1> QED BY <1>2, <1>3

\* Zeros add up to zero.
LEMMA SumZeros ==
    ASSUME NEW h, NEW S, IsFiniteSet(S), \A x \in S : h[x] = 0
    PROVE  SumOver(h, S) = 0
<1> DEFINE C == {T \in SUBSET S : SumOver(h, T) = 0}
<1>1. ASSUME NEW T \in SUBSET S, \A U \in SUBSET T : U # T => U \in C
      PROVE  T \in C
  <2>1. CASE T = {}
    BY <2>1, SumNone
  <2>2. CASE T # {}
    <3>1. PICK a \in T : TRUE
      BY <2>2
    <3>2. SumOver(h, T) = h[a] + SumOver(h, T \ {a})
      BY FS_Subset, SumRemove
    <3>3. SumOver(h, T \ {a}) = 0
      BY <1>1
    <3> QED BY <3>2, <3>3
  <2> QED BY <2>1, <2>2
<1> HIDE DEF C
<1>2. S \in C
  BY <1>1, SubsetsAre
<1> QED BY <1>2 DEF C

-----------------------------------------------------------------------------
\* Sums of several functions.

\* Functions add up place by place.
LEMMA SumPlus ==
    ASSUME NEW S, IsFiniteSet(S), NEW f \in [S -> Nat], NEW g \in [S -> Nat]
    PROVE  SumOver([x \in S |-> f[x] + g[x]], S) = SumOver(f, S) + SumOver(g, S)
<1> DEFINE h == [x \in S |-> f[x] + g[x]]
           C == {T \in SUBSET S : SumOver(h, T) = SumOver(f, T) + SumOver(g, T)}
<1>0. h \in [S -> Nat] /\ \A x \in S : h[x] = f[x] + g[x]
  OBVIOUS
<1> HIDE DEF h
<1>1. ASSUME NEW T \in SUBSET S, \A U \in SUBSET T : U # T => U \in C
      PROVE  T \in C
  <2>1. CASE T = {}
    BY <2>1, SumNone
  <2>2. CASE T # {}
    <3>1. PICK a \in T : TRUE
      BY <2>2
    <3>2. IsFiniteSet(T) /\ IsFiniteSet(T \ {a})
      BY FS_Subset
    <3>3. ASSUME NEW k \in [S -> Nat]
          PROVE  SumOver(k, T) = k[a] + SumOver(k, T \ {a}) /\ SumOver(k, T \ {a}) \in Nat
      <4>1. \A x \in T : k[x] \in Nat
        OBVIOUS
      <4>2. SumOver(k, T) = k[a] + SumOver(k, T \ {a})
        BY <3>2, <4>1, SumRemove
      <4>3. SumOver(k, T \ {a}) \in Nat
        BY <3>2, <4>1, SumType
      <4> QED BY <4>2, <4>3
    <3>4. SumOver(h, T \ {a}) = SumOver(f, T \ {a}) + SumOver(g, T \ {a})
      BY <1>1
    <3>5. /\ SumOver(h, T) = h[a] + SumOver(h, T \ {a})
          /\ SumOver(f, T) = f[a] + SumOver(f, T \ {a}) /\ SumOver(f, T \ {a}) \in Nat
          /\ SumOver(g, T) = g[a] + SumOver(g, T \ {a}) /\ SumOver(g, T \ {a}) \in Nat
      BY <1>0, <3>3
    <3>6. h[a] = f[a] + g[a] /\ f[a] \in Nat /\ g[a] \in Nat
      BY <1>0
    <3> QED BY <3>4, <3>5, <3>6
  <2> QED BY <2>1, <2>2
<1> HIDE DEF C
<1>2. S \in C
  BY <1>1, SubsetsAre
<1> QED BY <1>2 DEF C, h

\* Smaller addends, a smaller sum.
LEMMA SumLeq ==
    ASSUME NEW S, IsFiniteSet(S), NEW f \in [S -> Nat], NEW g \in [S -> Nat],
           \A x \in S : f[x] <= g[x]
    PROVE  SumOver(f, S) <= SumOver(g, S)
<1> DEFINE d == [x \in S |-> g[x] - f[x]]
           s == [x \in S |-> f[x] + d[x]]
<1>1. d \in [S -> Nat] /\ \A x \in S : g[x] = f[x] + d[x]
  OBVIOUS
<1> HIDE DEF d
<1>2. SumOver(s, S) = SumOver(f, S) + SumOver(d, S)
  BY <1>1, SumPlus
<1>3. SumOver(g, S) = SumOver(s, S)
  BY <1>1, SumSame
<1>4. SumOver(f, S) \in Nat /\ SumOver(d, S) \in Nat
  BY <1>1, SumType
<1> QED BY <1>2, <1>3, <1>4

\* The same with three functions on either side.
LEMMA SumOrder ==
    ASSUME NEW S, IsFiniteSet(S),
           NEW f \in [S -> Nat], NEW g \in [S -> Nat], NEW a \in [S -> Nat],
           NEW h \in [S -> Nat], NEW e \in [S -> Nat], NEW b \in [S -> Nat],
           \A x \in S : f[x] + g[x] + a[x] <= h[x] + e[x] + b[x]
    PROVE  SumOver(f, S) + SumOver(g, S) + SumOver(a, S)
             <= SumOver(h, S) + SumOver(e, S) + SumOver(b, S)
<1>1. ASSUME NEW u \in [S -> Nat], NEW v \in [S -> Nat], NEW w \in [S -> Nat]
      PROVE  /\ [x \in S |-> u[x] + v[x] + w[x]] \in [S -> Nat]
             /\ SumOver([x \in S |-> u[x] + v[x] + w[x]], S)
                  = SumOver(u, S) + SumOver(v, S) + SumOver(w, S)
  <2> DEFINE k == [x \in S |-> u[x] + v[x]]
             m == [x \in S |-> k[x] + w[x]]
             l == [x \in S |-> u[x] + v[x] + w[x]]
  <2>1. k \in [S -> Nat] /\ l \in [S -> Nat] /\ \A x \in S : m[x] = l[x]
    OBVIOUS
  <2>2. SumOver(k, S) = SumOver(u, S) + SumOver(v, S)
    BY SumPlus
  <2>3. SumOver(m, S) = SumOver(k, S) + SumOver(w, S)
    <3> HIDE DEF k
    <3> QED BY <2>1, SumPlus
  <2>4. SumOver(l, S) = SumOver(m, S)
    <3> HIDE DEF l, m
    <3> QED BY <2>1, SumSame
  <2> HIDE DEF k, l, m
  <2>5. l \in [S -> Nat] /\ SumOver(l, S) = SumOver(u, S) + SumOver(v, S) + SumOver(w, S)
    BY <2>1, <2>2, <2>3, <2>4
  <2> QED BY <2>5 DEF l
<1> DEFINE l == [x \in S |-> f[x] + g[x] + a[x]]
           r == [x \in S |-> h[x] + e[x] + b[x]]
<1>2. l \in [S -> Nat] /\ SumOver(l, S) = SumOver(f, S) + SumOver(g, S) + SumOver(a, S)
  BY <1>1
<1>3. r \in [S -> Nat] /\ SumOver(r, S) = SumOver(h, S) + SumOver(e, S) + SumOver(b, S)
  BY <1>1
<1>4. \A x \in S : l[x] <= r[x]
  OBVIOUS
<1> HIDE DEF l, r
<1>5. SumOver(l, S) <= SumOver(r, S)
  BY <1>2, <1>3, <1>4, SumLeq
<1> QED BY <1>2, <1>3, <1>5

\* The sum over a part, as one over the whole with nothing elsewhere.
LEMMA SumWhere ==
    ASSUME NEW S, IsFiniteSet(S), NEW T \in SUBSET S, NEW h, \A x \in S : h[x] \in Nat
    PROVE  SumOver(h, T) = SumOver([x \in S |-> IF x \in T THEN h[x] ELSE 0], S)
<1> DEFINE g == [x \in S |-> IF x \in T THEN h[x] ELSE 0]
<1>1. \A x \in S : g[x] \in Nat
  OBVIOUS
<1>2. \A x \in T : h[x] = g[x]
  OBVIOUS
<1>3. \A x \in S \ T : g[x] = 0
  OBVIOUS
<1>4. IsFiniteSet(T) /\ IsFiniteSet(S \ T)
  BY FS_Subset
<1> HIDE DEF g
<1>5. SumOver(h, T) = SumOver(g, T)
  BY <1>2, <1>4, SumSame
<1>6. SumOver(g, S \ T) = 0
  BY <1>3, <1>4, SumZeros
<1>7. SumOver(g, S) = SumOver(g, T) + SumOver(g, S \ T)
  BY <1>1, SumPart
<1>8. SumOver(g, T) \in Nat
  BY <1>1, <1>4, SumType
<1> QED BY <1>5, <1>6, <1>7, <1>8 DEF g

=============================================================================
