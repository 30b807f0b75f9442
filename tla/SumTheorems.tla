----------------------------- MODULE SumTheorems -----------------------------
(***************************************************************************)
(* Sums over finite sets: facts about SumFunctionOnSet of the community    *)
(* module Functions, with which RollingAvg adds up ratings and the upserts *)
(* add up profit and loss.                                                 *)
(*                                                                         *)
(* SumFunctionOnSet is a fold: a recursive function chosen as a solution   *)
(* of its equation.  To reason about it one shows that over a finite set   *)
(* the equation has a solution and only one.                               *)
(***************************************************************************)
EXTENDS Integers, FiniteSets, Functions, FiniteSetTheorems, WellFoundedInduction, TLAPS

\* A set of naturals that is not empty has a least element.
LEMMA Least ==
    ASSUME NEW N, N \subseteq Nat, N # {}
    PROVE  \E n \in N : \A m \in N : n <= m
    <1> DEFINE R == {p \in Nat \X Nat : p[1] < p[2]}
    <1>1. IsWellFoundedOn(R, Nat)
      BY NatLessThanWellFounded, Zenon DEF OpToRel
    <1>2. \A m, n \in Nat : <<m, n>> \in R <=> m < n
      OBVIOUS
    <1> HIDE DEF R
    <1>3. PICK n \in N : \A m \in N : ~(<<m, n>> \in R)
      BY <1>1, WFMin
    <1>4. ASSUME NEW m \in N PROVE n <= m
      <2>1. m \in Nat /\ n \in Nat /\ ~(m < n)
        BY <1>2, <1>3
      <2> QED BY <2>1
    <1> QED BY <1>4

\* Induction over the subsets of a finite set, for a set B of them: what holds of a
\* subset when it holds of it less any one element holds of the whole set.
LEMMA SetInduction ==
    ASSUME NEW S, IsFiniteSet(S), NEW B,
           \A T \in SUBSET S : (\A x \in T : T \ {x} \in B) => T \in B
    PROVE  S \in B
    <1> SUFFICES ASSUME S \notin B PROVE FALSE
      OBVIOUS
    <1> DEFINE C == {T \in SUBSET S : T \notin B}
               N == {Cardinality(T) : T \in C}
    <1>1. \A T \in C : IsFiniteSet(T) /\ Cardinality(T) \in Nat
      BY FS_Subset, FS_CardinalityType
    <1>2. PICK T \in C : \A U \in C : Cardinality(T) <= Cardinality(U)
      <2>1. N \subseteq Nat /\ N # {}
        BY <1>1
      <2>2. PICK n \in N : \A m \in N : n <= m
        BY <2>1, Least
      <2> QED BY <2>2
    <1>3. PICK x \in T : T \ {x} \notin B
      BY <1>2
    <1>4. T \ {x} \in C /\ Cardinality(T \ {x}) = Cardinality(T) - 1
      BY <1>1, <1>2, <1>3, FS_RemoveElement
    <1> QED BY <1>1, <1>2, <1>4

\* The element the fold takes first, and the equation of which it computes a solution.
FirstOf(s) == CHOOSE x \in s : TRUE
OneMore(f, g, s) == IF s = {} THEN 0 ELSE f[FirstOf(s)] + g[s \ {FirstOf(s)}]
SumEquation(f, g, S) == g = [s \in SUBSET S |-> OneMore(f, g, s)]

\* The fold computes a solution of the equation.
LEMMA SumIs == \A f, S : SumFunctionOnSet(f, S) = (CHOOSE g : SumEquation(f, g, S))[S]
    BY DEF SumFunctionOnSet, FoldFunctionOnSet, MapThenFoldSet, SumEquation, OneMore, FirstOf

\* Two solutions agree wherever both are defined.
LEMMA EquationUnique ==
    ASSUME NEW f, NEW g, NEW h, NEW S, NEW U, SumEquation(f, g, S), SumEquation(f, h, U),
           NEW T, IsFiniteSet(T), T \subseteq S, T \subseteq U
    PROVE  g[T] = h[T]
    <1> DEFINE B == {s \in SUBSET T : g[s] = h[s]}
    <1>1. ASSUME NEW s \in SUBSET T, \A x \in s : s \ {x} \in B
          PROVE  s \in B
      <2>1. g[s] = OneMore(f, g, s) /\ h[s] = OneMore(f, h, s)
        <3>1. s \in SUBSET S /\ s \in SUBSET U
          OBVIOUS
        <3> QED BY <3>1 DEF SumEquation
      <2>2. s # {} => FirstOf(s) \in s
        BY DEF FirstOf
      <2> QED BY <1>1, <2>1, <2>2 DEF OneMore
    <1>2. T \in B
      <2> HIDE DEF B
      <2> QED BY <1>1, SetInduction
    <1> QED BY <1>2

\* There is a solution over every finite set.
LEMMA EquationSolvable ==
    ASSUME NEW f, NEW S, IsFiniteSet(S)
    PROVE  \E g : SumEquation(f, g, S)
    <1> DEFINE B == {T \in SUBSET S : \E g : SumEquation(f, g, T)}
    <1>1. ASSUME NEW T \in SUBSET S, \A x \in T : T \ {x} \in B
          PROVE  T \in B
      <2> DEFINE G(s) == CHOOSE g : SumEquation(f, g, s)
                 g == [s \in SUBSET T |-> IF s = {} THEN 0 ELSE f[FirstOf(s)] + G(s \ {FirstOf(s)})[s \ {FirstOf(s)}]]
      <2>1. \A s \in SUBSET T : s # {} => FirstOf(s) \in s
         BY DEF FirstOf
      <2>2. ASSUME NEW s \in SUBSET T, s # T PROVE SumEquation(f, G(s), s)
        <3>1. PICK x \in T : x \notin s
          BY <2>2
        <3>2. PICK h : SumEquation(f, h, T \ {x})
          BY <1>1
        <3>3. SumEquation(f, [u \in SUBSET s |-> h[u]], s)
          <4>1. \A u \in SUBSET s : h[u] = OneMore(f, h, u)
            BY <3>1, <3>2 DEF SumEquation
          <4>2. \A u \in SUBSET s : OneMore(f, h, u) = OneMore(f, [v \in SUBSET s |-> h[v]], u)
            BY DEF OneMore
          <4> QED BY <4>1, <4>2 DEF SumEquation
        <3> QED BY <3>3
      <2>3. ASSUME NEW s \in SUBSET T, s # {} PROVE g[s \ {FirstOf(s)}] = G(s \ {FirstOf(s)})[s \ {FirstOf(s)}]
        <3> DEFINE u == s \ {FirstOf(s)}
        <3>0. u \in SUBSET T /\ u # T
          BY <2>1, <2>3
        <3>1. SumEquation(f, G(u), u)
          BY <2>2, <3>0
        <3>2. G(u)[u] = OneMore(f, G(u), u)
          BY <3>1 DEF SumEquation
        <3>3. CASE u = {}
          BY <3>0, <3>2, <3>3 DEF OneMore
        <3>4. CASE u # {}
          <4> DEFINE v == u \ {FirstOf(u)}
          <4>1. v \in SUBSET T /\ v # T /\ v \subseteq u /\ IsFiniteSet(v)
            BY <3>0, FS_Subset
          <4>2. SumEquation(f, G(v), v)
            BY <2>2, <4>1
          <4>3. G(u)[v] = G(v)[v]
            <5> HIDE DEF u, v, G
            <5> QED BY <3>1, <4>1, <4>2, EquationUnique
          <4>4. g[u] = f[FirstOf(u)] + G(v)[v]
            BY <3>0, <3>4
          <4>5. G(u)[u] = f[FirstOf(u)] + G(u)[v]
            BY <3>2, <3>4 DEF OneMore
          <4> HIDE DEF G, g
          <4> QED BY <4>3, <4>4, <4>5
        <3> QED BY <3>3, <3>4
      <2>4. SumEquation(f, g, T)
        <3>1. \A s \in SUBSET T : g[s] = OneMore(f, g, s)
          <4>1. \A s \in SUBSET T : g[s] = IF s = {} THEN 0 ELSE f[FirstOf(s)] + G(s \ {FirstOf(s)})[s \ {FirstOf(s)}]
            OBVIOUS
          <4> HIDE DEF g, G
          <4> QED BY <2>3, <4>1 DEF OneMore
        <3> QED BY <3>1 DEF SumEquation
      <2> HIDE DEF g
      <2> QED BY <2>4
    <1>2. S \in B
      <2> HIDE DEF B
      <2> QED BY <1>1, SetInduction
    <1> QED BY <1>2

\* What one step of the fold does.
LEMMA SumStep ==
    ASSUME NEW f, NEW S, IsFiniteSet(S)
    PROVE  SumFunctionOnSet(f, S) =
             IF S = {} THEN 0 ELSE f[FirstOf(S)] + SumFunctionOnSet(f, S \ {FirstOf(S)})
    <1> DEFINE G(s) == CHOOSE g : SumEquation(f, g, s)
               T == S \ {FirstOf(S)}
    <1>1. SumEquation(f, G(S), S) /\ SumEquation(f, G(T), T)
      BY EquationSolvable, FS_Subset
    <1>2. SumFunctionOnSet(f, S) = G(S)[S] /\ SumFunctionOnSet(f, T) = G(T)[T]
      BY SumIs
    <1>3. G(S)[S] = OneMore(f, G(S), S)
      BY <1>1 DEF SumEquation
    <1>4. G(S)[T] = G(T)[T]
      <2> HIDE DEF G, T
      <2>1. T \subseteq S /\ IsFiniteSet(T)
        BY FS_Subset DEF T
      <2> QED BY <1>1, <2>1, EquationUnique
    <1> HIDE DEF G
    <1> QED BY <1>2, <1>3, <1>4 DEF OneMore

\* A sum of nothing is 0.
LEMMA SumEmpty == \A f : SumFunctionOnSet(f, {}) = 0
    BY SumStep, FS_EmptySet

\* Some element of a set that is not empty goes first.
LEMMA SumFirst ==
    ASSUME NEW f, NEW S, IsFiniteSet(S), S # {}
    PROVE  \E c \in S : SumFunctionOnSet(f, S) = f[c] + SumFunctionOnSet(f, S \ {c})
    <1>1. FirstOf(S) \in S
      BY DEF FirstOf
    <1> QED BY <1>1, SumStep

\* Arithmetic that the solvers are better given than left to find.
LEMMA Distribute == \A a, n \in Int : a * (n + 1) = a * n + a /\ a * n \in Int
    OBVIOUS

\* A sum of integers is one.
LEMMA SumInt ==
    ASSUME NEW f, NEW S, IsFiniteSet(S), \A x \in S : f[x] \in Int
    PROVE  SumFunctionOnSet(f, S) \in Int
    <1> DEFINE B == {T \in SUBSET S : SumFunctionOnSet(f, T) \in Int}
    <1>1. ASSUME NEW T \in SUBSET S, \A x \in T : T \ {x} \in B
          PROVE  T \in B
      <2>1. CASE T = {}
        BY <2>1, SumEmpty
      <2>2. CASE T # {}
        <3>1. PICK c \in T : SumFunctionOnSet(f, T) = f[c] + SumFunctionOnSet(f, T \ {c})
          BY <2>2, SumFirst, FS_Subset
        <3>2. f[c] \in Int /\ SumFunctionOnSet(f, T \ {c}) \in Int
          BY <1>1
        <3> QED BY <3>1, <3>2
      <2> QED BY <2>1, <2>2
    <1> HIDE DEF B
    <1>2. S \in B
      BY <1>1, SetInduction
    <1> QED BY <1>2 DEF B

\* Any element may be the one to go first.
LEMMA SumRemove ==
    ASSUME NEW f, NEW S, IsFiniteSet(S), \A x \in S : f[x] \in Int, NEW y \in S
    PROVE  SumFunctionOnSet(f, S) = f[y] + SumFunctionOnSet(f, S \ {y})
    <1> DEFINE Sum(T) == SumFunctionOnSet(f, T)
               B == {T \in SUBSET S : \A x \in T : Sum(T) = f[x] + Sum(T \ {x})}
    <1>1. ASSUME NEW T \in SUBSET S, \A x \in T : T \ {x} \in B
          PROVE  T \in B
      <2> DEFINE c == FirstOf(T)
      <2> SUFFICES ASSUME NEW x \in T PROVE Sum(T) = f[x] + Sum(T \ {x})
        OBVIOUS
      <2>1. c \in T
        BY DEF FirstOf
      <2>2. Sum(T) = f[c] + Sum(T \ {c})
        BY <2>1, SumStep, FS_Subset
      <2>3. CASE x = c
        BY <2>2, <2>3
      <2>4. CASE x # c
        <3>1. Sum(T \ {c}) = f[x] + Sum((T \ {c}) \ {x})
          BY <1>1, <2>1, <2>4
        <3>2. Sum(T \ {x}) = f[c] + Sum((T \ {x}) \ {c})
          BY <1>1, <2>1, <2>4
        <3>3. (T \ {c}) \ {x} = (T \ {x}) \ {c}
          OBVIOUS
        <3>4. f[x] \in Int /\ f[c] \in Int /\ Sum((T \ {x}) \ {c}) \in Int
          BY <2>1, SumInt, FS_Subset
        <3>5. Sum(T) = f[c] + (f[x] + Sum((T \ {x}) \ {c}))
          BY <2>2, <3>1, <3>3
        <3> HIDE DEF Sum, c
        <3>6. f[c] + (f[x] + Sum((T \ {x}) \ {c})) = f[x] + (f[c] + Sum((T \ {x}) \ {c}))
          BY <3>4
        <3> QED BY <3>2, <3>5, <3>6
      <2> QED BY <2>3, <2>4
    <1>2. S \in B
      <2> HIDE DEF B
      <2> QED BY <1>1, SetInduction
    <1> QED BY <1>2

\* One element more adds its value.
LEMMA SumAdd ==
    ASSUME NEW f, NEW S, IsFiniteSet(S), NEW y, y \notin S, \A x \in S \cup {y} : f[x] \in Int
    PROVE  SumFunctionOnSet(f, S \cup {y}) = SumFunctionOnSet(f, S) + f[y]
    <1>1. IsFiniteSet(S \cup {y}) /\ (S \cup {y}) \ {y} = S /\ SumFunctionOnSet(f, S) \in Int
      BY FS_AddElement, SumInt
    <1> QED BY <1>1, SumRemove

\* A sum depends only on the values it adds up.
LEMMA SumSame ==
    ASSUME NEW f, NEW g, NEW S, IsFiniteSet(S), \A x \in S : f[x] = g[x]
    PROVE  SumFunctionOnSet(f, S) = SumFunctionOnSet(g, S)
    <1> DEFINE B == {T \in SUBSET S : SumFunctionOnSet(f, T) = SumFunctionOnSet(g, T)}
    <1>1. ASSUME NEW T \in SUBSET S, \A x \in T : T \ {x} \in B
          PROVE  T \in B
      <2>1. CASE T = {}
        BY <2>1, SumEmpty
      <2>2. CASE T # {}
        <3> DEFINE c == FirstOf(T)
        <3>1. c \in T /\ IsFiniteSet(T)
          BY <2>2, FS_Subset DEF FirstOf
        <3>2. /\ SumFunctionOnSet(f, T) = f[c] + SumFunctionOnSet(f, T \ {c})
              /\ SumFunctionOnSet(g, T) = g[c] + SumFunctionOnSet(g, T \ {c})
          BY <2>2, <3>1, SumStep
        <3>3. SumFunctionOnSet(f, T \ {c}) = SumFunctionOnSet(g, T \ {c})
          BY <1>1, <3>1
        <3> QED BY <3>1, <3>2, <3>3
      <2> QED BY <2>1, <2>2
    <1>2. S \in B
      <2> HIDE DEF B
      <2> QED BY <1>1, SetInduction
    <1> QED BY <1>2

\* A sum lies between the size of the set times the least and the greatest value.
LEMMA SumBounds ==
    ASSUME NEW f, NEW S, IsFiniteSet(S), NEW lo \in Int, NEW hi \in Int,
           \A x \in S : f[x] \in lo..hi
    PROVE  /\ SumFunctionOnSet(f, S) \in Int
           /\ lo * Cardinality(S) <= SumFunctionOnSet(f, S)
           /\ SumFunctionOnSet(f, S) <= hi * Cardinality(S)
    <1> DEFINE Sum(T) == SumFunctionOnSet(f, T)
               B == {T \in SUBSET S : /\ lo * Cardinality(T) <= Sum(T)
                                      /\ Sum(T) <= hi * Cardinality(T)}
    <1>1. ASSUME NEW T \in SUBSET S, \A x \in T : T \ {x} \in B
          PROVE  T \in B
      <2>1. IsFiniteSet(T) /\ Cardinality(T) \in Nat
        BY FS_Subset, FS_CardinalityType
      <2>2. CASE T = {}
        BY <2>2, SumEmpty, FS_EmptySet
      <2>3. CASE T # {}
        <3> DEFINE c == FirstOf(T) U == T \ {FirstOf(T)} n == Cardinality(U)
        <3>1. c \in T
          BY <2>3 DEF FirstOf
        <3>2. Sum(T) = f[c] + Sum(U)
          BY <2>1, <2>3, SumStep
        <3>3. IsFiniteSet(U) /\ n \in Nat /\ Cardinality(T) = n + 1
          <4>1. IsFiniteSet(U) /\ n \in Nat /\ Cardinality(U) = Cardinality(T) - 1
            BY <2>1, <3>1, FS_RemoveElement, FS_CardinalityType
          <4> QED BY <2>1, <4>1
        <3>4. lo * n <= Sum(U) /\ Sum(U) <= hi * n
          BY <1>1, <3>1
        <3>5. Sum(U) \in Int /\ f[c] \in lo..hi
          BY <3>1, <3>3, SumInt
        <3> HIDE DEF c, U, n, Sum
        <3>6. lo * (n + 1) = lo * n + lo /\ hi * (n + 1) = hi * n + hi /\ lo * n \in Int /\ hi * n \in Int
          BY <3>3, Distribute
        <3>7. lo * (n + 1) <= Sum(T) /\ Sum(T) <= hi * (n + 1)
          BY <3>2, <3>4, <3>5, <3>6
        <3> QED BY <3>3, <3>7
      <2> QED BY <2>2, <2>3
    <1>2. S \in B
      <2> HIDE DEF B
      <2> QED BY <1>1, SetInduction
    <1> QED BY <1>2, SumInt

==============================================================================
