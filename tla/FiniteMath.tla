------------------------------ MODULE FiniteMath ------------------------------
(***************************************************************************)
(* Facts about finite data that the proofs about the modules need: least   *)
(* elements, and sums over finite sets.  No prover at hand can instantiate *)
(* an induction theorem; what they can do is take a smallest counterexam-  *)
(* ple, which the lemmas on least elements provide.                        *)
(***************************************************************************)
EXTENDS Integers, FiniteSetsExt, FiniteSetTheorems, WellFoundedInduction, TLAPS

----------------------------------------------------------------------------
(* Least elements.                                                         *)

\* A non-empty set of finite sets has one that no other is part of.
LEMMA MinimalSet ==
  ASSUME NEW S, NEW T, T \subseteq FiniteSubsetsOf(S), T # {}
  PROVE  \E x \in T : \A y \in T : y \subseteq x => y = x
<1>1. \E x \in T : \A y \in T : ~(<<y, x>> \in StrictSubsetOrdering(S))
  BY WFMin, FS_StrictSubsetOrderingWellFounded
<1>2. T \subseteq SUBSET S BY DEF FiniteSubsetsOf
<1> QED BY <1>1, <1>2 DEF StrictSubsetOrdering

\* A non-empty set of natural numbers has a least one.
LEMMA LeastNumber ==
  ASSUME NEW T \in SUBSET Nat, T # {}
  PROVE  \E n \in T : \A m \in T : n <= m
<1> DEFINE Below == {0..n : n \in T}
<1>1. Below \subseteq FiniteSubsetsOf(Nat)
  <2>1. \A n \in T : 0..n \in SUBSET Nat /\ IsFiniteSet(0..n) BY FS_Interval
  <2> QED BY <2>1 DEF FiniteSubsetsOf
<1>2. \E b \in Below : \A c \in Below : c \subseteq b => c = b
  <2>1. Below # {} OBVIOUS
  <2> HIDE DEF Below
  <2> QED BY <1>1, <2>1, MinimalSet
<1>3. PICK n \in T : \A c \in Below : c \subseteq 0..n => c = 0..n BY <1>2
<1>4. ASSUME NEW m \in T, m < n PROVE FALSE
  <2>1. 0..m \in Below /\ 0..m \subseteq 0..n BY <1>4
  <2>2. 0..m = 0..n BY <2>1, <1>3
  <2>3. n \in 0..m BY <2>2
  <2> QED BY <2>3, <1>4
<1> QED BY <1>4

\* ... and a bounded one has a greatest.
LEMMA GreatestNumber ==
  ASSUME NEW n \in Nat, NEW T \in SUBSET (0..n), T # {}
  PROVE  \E m \in T : \A k \in T : k <= m
<1> DEFINE U == {j \in 0..n : n - j \in T}
<1>1. U \in SUBSET Nat OBVIOUS
<1>2. ASSUME NEW k \in T PROVE n - k \in U
  <2>1. n - k \in 0..n /\ n - (n - k) = k OBVIOUS
  <2> QED BY <2>1
<1>3. PICK u \in U : \A v \in U : u <= v
  <2>1. U # {} BY <1>2
  <2> HIDE DEF U
  <2> QED BY <1>1, <2>1, LeastNumber
<1>4. n - u \in T /\ u \in 0..n BY <1>3
<1>5. ASSUME NEW k \in T PROVE k <= n - u
  <2>1. u <= n - k BY <1>2, <1>3
  <2> QED BY <1>4, <2>1
<1> QED BY <1>4, <1>5

\* Of a set of finite sets that is not all of them, the smallest one left out.
LEMMA SmallestMissing ==
  ASSUME NEW S, IsFiniteSet(S), NEW T \in SUBSET (SUBSET S), T # SUBSET S
  PROVE  \E s \in SUBSET S : s \notin T /\ \A u \in SUBSET s : u # s => u \in T
<1> DEFINE M == (SUBSET S) \ T
<1>1. M \subseteq FiniteSubsetsOf(S) /\ M # {} BY FS_FiniteSubsetsOfFinite
<1>2. \E s \in M : \A u \in M : u \subseteq s => u = s
  <2> HIDE DEF M
  <2> QED BY <1>1, MinimalSet
<1> QED BY <1>2

----------------------------------------------------------------------------
(* Sums over finite sets.                                                  *)

\* g sums the values of f over every subset of S.
Sums(g, f, S) ==
  /\ g \in [SUBSET S -> Nat] /\ g[{}] = 0
  /\ \A s \in SUBSET S : \A x \in s : g[s] = f[x] + g[s \ {x}]

\* h adds them up in some order.
AddsUp(h, f, S) ==
  /\ DOMAIN h = SUBSET S /\ h[{}] = 0
  /\ \A s \in SUBSET S : s # {} => \E x \in s : h[s] = f[x] + h[s \ {x}]

Sum(f, S) == (CHOOSE g : Sums(g, f, S))[S]

LEMMA SumsExist ==
  ASSUME NEW S, IsFiniteSet(S), NEW f, \A x \in S : f[x] \in Nat
  PROVE  \E g : Sums(g, f, S)
<1> DEFINE T == {s \in SUBSET S : \E g : Sums(g, f, s)}
<1>1. SUFFICES ASSUME T # SUBSET S PROVE FALSE
  <2>1. S \in T => \E g : Sums(g, f, S) OBVIOUS
  <2>2. S \in SUBSET S OBVIOUS
  <2> HIDE DEF T
  <2> QED BY <2>1, <2>2
<1>2. PICK s \in SUBSET S : s \notin T /\ \A u \in SUBSET s : u # s => u \in T
  <2>1. T \in SUBSET (SUBSET S) OBVIOUS
  <2> HIDE DEF T
  <2> QED BY <1>1, <2>1, SmallestMissing
<1>3. CASE s = {}
  <2>1. Sums([u \in SUBSET s |-> 0], f, s) BY <1>3 DEF Sums
  <2> QED BY <1>2, <2>1
<1>4. CASE s # {}
  <2>1. PICK x \in s : TRUE BY <1>4
  <2>2. s \ {x} \in T BY <1>2, <2>1
  <2>3. PICK h : Sums(h, f, s \ {x}) BY <2>2
  <2> DEFINE g == [u \in SUBSET s |-> IF x \in u THEN f[x] + h[u \ {x}] ELSE h[u]]
  <2>4. g \in [SUBSET s -> Nat] /\ g[{}] = 0
    <3>1. ASSUME NEW u \in SUBSET s PROVE g[u] \in Nat
      <4>1. f[x] \in Nat BY <2>1, <1>2
      <4>2. x \in u => u \ {x} \in SUBSET (s \ {x}) OBVIOUS
      <4>3. x \notin u => u \in SUBSET (s \ {x}) OBVIOUS
      <4> QED BY <4>1, <4>2, <4>3, <2>3 DEF Sums
    <3>2. g[{}] = 0 BY <2>3 DEF Sums
    <3> QED BY <3>1, <3>2
  <2>5. ASSUME NEW u \in SUBSET s, NEW y \in u PROVE g[u] = f[y] + g[u \ {y}]
    <3>1. f[x] \in Nat /\ f[y] \in Nat BY <2>1, <1>2
    <3>2. CASE y = x BY <3>2
    <3>3. CASE y # x /\ x \in u
      <4> DEFINE v == u \ {x}
      <4>1. v \in SUBSET (s \ {x}) /\ y \in v BY <3>3
      <4>2. h[v] = f[y] + h[v \ {y}] /\ h[v \ {y}] \in Nat
        <5>1. v \ {y} \in SUBSET (s \ {x}) BY <4>1
        <5> HIDE DEF v
        <5> QED BY <4>1, <5>1, <2>3 DEF Sums
      <4>3. v \ {y} = (u \ {y}) \ {x} OBVIOUS
      <4>4. g[u] = f[x] + h[v] BY <3>3
      <4>5. g[u \ {y}] = f[x] + h[v \ {y}] BY <3>3, <4>3
      <4> HIDE DEF v, g
      <4> QED BY <3>1, <4>2, <4>4, <4>5
    <3>4. CASE x \notin u
      <4>1. u \in SUBSET (s \ {x}) /\ u \ {y} \in SUBSET (s \ {x}) BY <3>4
      <4>2. h[u] = f[y] + h[u \ {y}] BY <4>1, <2>3 DEF Sums
      <4> QED BY <3>4, <4>2
    <3> QED BY <3>2, <3>3, <3>4
  <2>6. Sums(g, f, s)
    <3> HIDE DEF g
    <3> QED BY <2>4, <2>5 DEF Sums
  <2> QED BY <1>2, <2>6
<1> QED BY <1>3, <1>4

\* There is one sum: whatever satisfies the recursion of a fold on a finite set is it.
LEMMA SumsUnique ==
  ASSUME NEW S, IsFiniteSet(S), NEW f, NEW g, Sums(g, f, S), NEW h, AddsUp(h, f, S)
  PROVE  \A s \in SUBSET S : h[s] = g[s]
<1> DEFINE T == {s \in SUBSET S : h[s] = g[s]}
<1>1. SUFFICES ASSUME T # SUBSET S PROVE FALSE OBVIOUS
<1>2. PICK s \in SUBSET S : s \notin T /\ \A u \in SUBSET s : u # s => u \in T
  <2>1. T \in SUBSET (SUBSET S) OBVIOUS
  <2> HIDE DEF T
  <2> QED BY <1>1, <2>1, SmallestMissing
<1>3. s # {} BY <1>2 DEF Sums, AddsUp
<1>4. PICK x \in s : h[s] = f[x] + h[s \ {x}] BY <1>3 DEF AddsUp
<1>5. h[s \ {x}] = g[s \ {x}] BY <1>2
<1>6. g[s] = f[x] + g[s \ {x}] BY DEF Sums
<1> QED BY <1>2, <1>4, <1>5, <1>6

\* What a sum is, one element more, and that it grows with its set and its values.
LEMMA SumFacts ==
  ASSUME NEW S, IsFiniteSet(S), NEW f, \A x \in S : f[x] \in Nat
  PROVE  /\ Sum(f, S) \in Nat
         /\ \A x \in S : Sum(f, S) = f[x] + Sum(f, S \ {x})
<1> DEFINE G == CHOOSE g : Sums(g, f, S)
<1>1. Sums(G, f, S) BY SumsExist
<1>2. ASSUME NEW x \in S PROVE Sum(f, S) = f[x] + Sum(f, S \ {x})
  <2> DEFINE D == S \ {x}
             H == CHOOSE g : Sums(g, f, D)
             P == [s \in SUBSET D |-> G[s]]
  <2>1. IsFiniteSet(D) BY FS_Subset
  <2>2. Sums(H, f, D)
    <3>1. \A y \in D : f[y] \in Nat OBVIOUS
    <3> HIDE DEF D
    <3> QED BY <2>1, <3>1, SumsExist
  <2>3. AddsUp(P, f, D)
    <3>1. DOMAIN P = SUBSET D /\ P[{}] = 0 BY <1>1 DEF Sums
    <3>2. ASSUME NEW s \in SUBSET D, s # {} PROVE \E y \in s : P[s] = f[y] + P[s \ {y}]
      <4>1. PICK y \in s : TRUE BY <3>2
      <4>2. s \in SUBSET S /\ s \ {y} \in SUBSET D OBVIOUS
      <4> HIDE DEF G, D
      <4> QED BY <1>1, <4>1, <4>2 DEF Sums
    <3> QED BY <3>1, <3>2 DEF AddsUp
  <2>4. P[D] = H[D]
    <3>1. D \in SUBSET D OBVIOUS
    <3>2. \A s \in SUBSET D : P[s] = H[s]
      <4> HIDE DEF G, P, H, D
      <4> QED BY <2>1, <2>2, <2>3, SumsUnique
    <3> QED BY <3>1, <3>2
  <2>5. G[D] = H[D] BY <2>4
  <2>6. G[S] = f[x] + G[D] BY <1>1 DEF Sums
  <2> QED BY <2>5, <2>6 DEF Sum
<1>3. G[S] \in Nat BY <1>1 DEF Sums
<1> QED BY <1>2, <1>3 DEF Sum

LEMMA SumEmpty ==
  ASSUME NEW f
  PROVE  Sum(f, {}) = 0
<1>1. IsFiniteSet({}) BY FS_EmptySet
<1>2. \E g : Sums(g, f, {}) BY <1>1, SumsExist
<1>3. Sums(CHOOSE g : Sums(g, f, {}), f, {}) BY <1>2
<1> QED BY <1>3 DEF Sum, Sums

LEMMA SumMonotone ==
  ASSUME NEW S, IsFiniteSet(S), NEW f, NEW g, NEW U \in SUBSET S,
         \A x \in S : g[x] \in Nat, \A x \in U : f[x] \in Nat /\ f[x] <= g[x]
  PROVE  Sum(f, U) <= Sum(g, S)
<1> DEFINE T == {s \in SUBSET S : Sum(f, s \cap U) <= Sum(g, s)}
<1>1. SUFFICES ASSUME T # SUBSET S PROVE FALSE
  <2>1. S \in T => Sum(f, S \cap U) <= Sum(g, S) OBVIOUS
  <2>2. S \in SUBSET S /\ S \cap U = U OBVIOUS
  <2> HIDE DEF T
  <2> QED BY <2>1, <2>2
<1>2. PICK s \in SUBSET S : s \notin T /\ \A u \in SUBSET s : u # s => u \in T
  <2>1. T \in SUBSET (SUBSET S) OBVIOUS
  <2> HIDE DEF T
  <2> QED BY <1>1, <2>1, SmallestMissing
<1>3. CASE s = {}
  <2>1. s \cap U = {} BY <1>3
  <2>2. Sum(f, s \cap U) = 0 /\ Sum(g, s) = 0 BY <1>3, <2>1, SumEmpty
  <2> QED BY <1>2, <2>2
<1>4. CASE s # {}
  <2>1. PICK x \in s : TRUE BY <1>4
  <2>2. IsFiniteSet(s) /\ IsFiniteSet(s \cap U) /\ IsFiniteSet(s \ {x})
        /\ IsFiniteSet((s \ {x}) \cap U)
    <3>1. \A u \in SUBSET S : IsFiniteSet(u) BY FS_Subset
    <3> QED BY <3>1
  <2>3. /\ Sum(g, s) = g[x] + Sum(g, s \ {x}) /\ Sum(g, s \ {x}) \in Nat
        /\ g[x] \in Nat
    <3>1. \A y \in s : g[y] \in Nat BY <1>2
    <3>2. \A y \in s \ {x} : g[y] \in Nat BY <1>2
    <3> QED BY <2>1, <2>2, <3>1, <3>2, SumFacts
  <2>4. Sum(f, (s \ {x}) \cap U) <= Sum(g, s \ {x}) BY <1>2, <2>1
  <2>5. /\ Sum(f, (s \ {x}) \cap U) \in Nat
    <3>1. \A y \in (s \ {x}) \cap U : f[y] \in Nat OBVIOUS
    <3> QED BY <2>2, <3>1, SumFacts
  <2>6. CASE x \in U
    <3> DEFINE V == s \cap U
    <3>1. Sum(f, V) = f[x] + Sum(f, V \ {x})
      <4>1. \A y \in V : f[y] \in Nat OBVIOUS
      <4>2. x \in V /\ IsFiniteSet(V) BY <2>1, <2>2, <2>6
      <4> HIDE DEF V
      <4> QED BY <4>1, <4>2, SumFacts
    <3>2. V \ {x} = (s \ {x}) \cap U OBVIOUS
    <3>3. f[x] <= g[x] /\ f[x] \in Nat BY <2>6
    <3>4. Sum(f, V) <= Sum(g, s)
      <4>1. Sum(f, V \ {x}) <= Sum(g, s \ {x}) /\ Sum(f, V \ {x}) \in Nat BY <2>4, <2>5, <3>2
      <4> HIDE DEF V
      <4> QED BY <2>3, <3>1, <3>3, <4>1
    <3> QED BY <1>2, <3>4
  <2>7. CASE x \notin U
    <3>1. s \cap U = (s \ {x}) \cap U BY <2>7
    <3>2. Sum(f, s \cap U) <= Sum(g, s) BY <2>3, <2>4, <2>5, <3>1
    <3> QED BY <1>2, <3>2
  <2> QED BY <2>6, <2>7
<1> QED BY <1>3, <1>4
=============================================================================
