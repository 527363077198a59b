----------------------------- MODULE FiniteSums -----------------------------
(***************************************************************************)
(* Sums of functions over finite sets: what SumFunctionOnSet of the        *)
(* library computes, by induction over the subsets of its domain.  The     *)
(* induction is carried out on sets of counterexamples: one that is not    *)
(* empty has a least element.                                              *)
(***************************************************************************)
EXTENDS Integers, FiniteSets, Functions, FiniteSetTheorems, TLAPS

NatOrder == OpToRel(<, Nat)

\* A set of natural numbers that is not empty has a least element.
LEMMA LeastNumber ==
  ASSUME NEW T, T \subseteq Nat, T # {}
  PROVE  \E x \in T : \A y \in T : x <= y
<1>1. IsWellFoundedOn(NatOrder, Nat)
  BY NatLessThanWellFounded DEF NatOrder
<1>2. PICK x \in T : \A y \in T : ~ (<<y, x>> \in NatOrder)
  BY <1>1, WFMin
<1>3. \A y, z \in Nat : y < z => <<y, z>> \in NatOrder
  BY DEF NatOrder, OpToRel
<1>4. \A y \in T : ~(y < x)
  BY <1>2, <1>3
<1>5. QED BY <1>2, <1>4

\* A collection of subsets of a finite set that is not empty has a member
\* none of whose proper subsets is a member.
LEMMA SmallestSubset ==
  ASSUME NEW D, IsFiniteSet(D), NEW Q, Q \subseteq SUBSET D, Q # {}
  PROVE  \E s \in Q : \A t \in Q : t \subseteq s => t = s
<1> DEFINE Sizes == {Cardinality(s) : s \in Q}
<1>1. \A s \in Q : IsFiniteSet(s) /\ Cardinality(s) \in Nat
  BY FS_Subset, FS_CardinalityType
<1>2. PICK n \in Sizes : \A k \in Sizes : n <= k
  <2>1. Sizes \subseteq Nat /\ Sizes # {}
    BY <1>1
  <2> HIDE DEF Sizes
  <2>2. QED BY <2>1, LeastNumber
<1>3. PICK s \in Q : n = Cardinality(s)
  BY <1>2
<1>4. ASSUME NEW t \in Q, t \subseteq s PROVE t = s
  <2>1. Cardinality(s) <= Cardinality(t)
    BY <1>2, <1>3
  <2>2. Cardinality(t) <= Cardinality(s) /\ (Cardinality(s) = Cardinality(t) => s = t)
    BY <1>1, <1>4, FS_Subset
  <2>3. Cardinality(s) \in Nat /\ Cardinality(t) \in Nat
    BY <1>1
  <2>4. Cardinality(s) = Cardinality(t)
    BY <2>1, <2>2, <2>3
  <2>5. QED BY <2>2, <2>4
<1>5. QED BY <1>3, <1>4

\* Induction over the subsets of a finite set.
LEMMA SubsetInduction ==
  ASSUME NEW D, IsFiniteSet(D), NEW P,
         \A s \in SUBSET D :
           (\A t \in SUBSET s : t # s => t \in P) => s \in P
  PROVE  SUBSET D \subseteq P
<1> DEFINE Q == {s \in SUBSET D : s \notin P}
<1>1. SUFFICES ASSUME Q # {} PROVE FALSE
  OBVIOUS
<1>2. PICK s \in Q : \A t \in Q : t \subseteq s => t = s
  <2>1. Q \subseteq SUBSET D
    OBVIOUS
  <2> HIDE DEF Q
  <2>2. QED BY <1>1, <2>1, SmallestSubset
<1>3. \A t \in SUBSET s : t # s => t \in P
  BY <1>2
<1>4. QED BY <1>2, <1>3

-----------------------------------------------------------------------------
Chosen(s) == CHOOSE x \in s : TRUE

LEMMA ChosenIsIn == ASSUME NEW s, s # {} PROVE Chosen(s) \in s
BY DEF Chosen

\* Tally a holds the sum of f over each subset of D.
IsTally(a, f, D) ==
  a = [s \in SUBSET D |-> IF s = {} THEN 0 ELSE f[Chosen(s)] + a[s \ {Chosen(s)}]]

Tally(f, D) == CHOOSE a : IsTally(a, f, D)

\* The library's sum is read off such a tally.
LEMMA SumIsTallied ==
  ASSUME NEW f, NEW D
  PROVE  SumFunctionOnSet(f, D) = Tally(f, D)[D]
BY DEF SumFunctionOnSet, FoldFunctionOnSet, MapThenFoldSet, IsTally, Chosen, Tally

LEMMA TallyEntries ==
  ASSUME NEW a, NEW f, NEW D, IsTally(a, f, D), NEW s \in SUBSET D
  PROVE  a[s] = IF s = {} THEN 0 ELSE f[Chosen(s)] + a[s \ {Chosen(s)}]
BY DEF IsTally

\* Two tallies agree wherever both are defined and the functions agree.
LEMMA TalliesAgree ==
  ASSUME NEW D, IsFiniteSet(D), NEW C, NEW E, D \subseteq C, D \subseteq E,
         NEW f, NEW g, \A x \in D : f[x] = g[x],
         NEW a, NEW b, IsTally(a, f, C), IsTally(b, g, E)
  PROVE  a[D] = b[D]
<1> DEFINE P == {s \in SUBSET D : a[s] = b[s]}
<1>1. ASSUME NEW s \in SUBSET D, \A t \in SUBSET s : t # s => t \in P
      PROVE  s \in P
  <2>1. /\ a[s] = IF s = {} THEN 0 ELSE f[Chosen(s)] + a[s \ {Chosen(s)}]
        /\ b[s] = IF s = {} THEN 0 ELSE g[Chosen(s)] + b[s \ {Chosen(s)}]
    <3>1. s \in SUBSET C /\ s \in SUBSET E
      OBVIOUS
    <3>2. a[s] = IF s = {} THEN 0 ELSE f[Chosen(s)] + a[s \ {Chosen(s)}]
      BY <3>1 DEF IsTally
    <3>3. b[s] = IF s = {} THEN 0 ELSE g[Chosen(s)] + b[s \ {Chosen(s)}]
      BY <3>1 DEF IsTally
    <3>4. QED BY <3>2, <3>3
  <2>2. CASE s = {}
    BY <2>1, <2>2
  <2>3. CASE s # {}
    <3>1. Chosen(s) \in s
      BY <2>3, ChosenIsIn
    <3>2. s \ {Chosen(s)} \in P
      BY <1>1, <3>1
    <3>3. QED BY <2>1, <2>3, <3>1, <3>2
  <2>4. QED BY <2>2, <2>3
<1>2. SUBSET D \subseteq P
  <2> HIDE DEF P
  <2>1. QED BY <1>1, SubsetInduction
<1>3. QED BY <1>2

\* Every finite set has a tally.
LEMMA TallyExists ==
  ASSUME NEW D, IsFiniteSet(D), NEW f
  PROVE  IsTally(Tally(f, D), f, D)
<1> DEFINE P == {s \in SUBSET D : \E a : IsTally(a, f, s)}
<1>1. ASSUME NEW s \in SUBSET D, \A t \in SUBSET s : t # s => t \in P
      PROVE  s \in P
  <2> DEFINE V(t) == Tally(f, t)[t]
             rest == s \ {Chosen(s)}
             b == [t \in SUBSET s |-> IF t # s THEN V(t)
                                      ELSE IF s = {} THEN 0 ELSE f[Chosen(s)] + V(rest)]
  <2>1. ASSUME NEW t \in SUBSET s, t # s PROVE IsTally(Tally(f, t), f, t)
    BY <1>1, <2>1 DEF Tally
  <2>2. ASSUME NEW t \in SUBSET s, t # s, t # {}
        PROVE  V(t) = f[Chosen(t)] + V(t \ {Chosen(t)})
    <3> DEFINE u == t \ {Chosen(t)}
    <3>1. Chosen(t) \in t
      BY <2>2, ChosenIsIn
    <3>2. u \in SUBSET s /\ u # s /\ u \subseteq t /\ IsFiniteSet(u)
      BY <2>2, <3>1, FS_Subset
    <3>3. IsTally(Tally(f, t), f, t) /\ IsTally(Tally(f, u), f, u)
      BY <2>1, <2>2, <3>2
    <3>4. Tally(f, t)[u] = Tally(f, u)[u]
      BY <3>2, <3>3, TalliesAgree
    <3>5. Tally(f, t)[t] = f[Chosen(t)] + Tally(f, t)[u]
      BY <2>2, <3>3, TallyEntries
    <3>6. QED BY <3>4, <3>5
  <2>3. ASSUME NEW t \in SUBSET s, t = {}, t # s PROVE V(t) = 0
    BY <2>1, <2>3, TallyEntries
  <2>4. ASSUME NEW t \in SUBSET s
        PROVE  b[t] = IF t = {} THEN 0 ELSE f[Chosen(t)] + b[t \ {Chosen(t)}]
    <3>1. CASE t = {}
      BY <2>3, <3>1
    <3>2. CASE t # {}
      <4>1. Chosen(t) \in t
        BY <3>2, ChosenIsIn
      <4>2. t \ {Chosen(t)} \in SUBSET s /\ t \ {Chosen(t)} # s
        BY <4>1
      <4>3. b[t \ {Chosen(t)}] = V(t \ {Chosen(t)})
        BY <4>2
      <4>4. CASE t = s
        BY <3>2, <4>3, <4>4
      <4>5. CASE t # s
        <5>1. b[t] = V(t)
          BY <4>5
        <5>2. V(t) = f[Chosen(t)] + V(t \ {Chosen(t)})
          BY <2>2, <3>2, <4>5
        <5> HIDE DEF b, V
        <5>3. QED BY <3>2, <4>3, <5>1, <5>2
      <4>6. QED BY <4>4, <4>5
    <3>3. QED BY <3>1, <3>2
  <2>5. b = [t \in SUBSET s |-> b[t]]
    OBVIOUS
  <2> HIDE DEF b, V
  <2>6. IsTally(b, f, s)
    BY <2>4, <2>5 DEF IsTally
  <2>7. QED BY <2>6
<1>2. SUBSET D \subseteq P
  <2> HIDE DEF P
  <2>1. QED BY <1>1, SubsetInduction
<1>3. \E a : IsTally(a, f, D)
  BY <1>2
<1>4. QED BY <1>3 DEF Tally

-----------------------------------------------------------------------------
\* The sum over the empty set, and over one that is not.
LEMMA SumEmpty ==
  ASSUME NEW f
  PROVE  SumFunctionOnSet(f, {}) = 0
<1>1. IsFiniteSet({})
  BY FS_EmptySet
<1>2. Tally(f, {})[{}] = 0
  BY <1>1, TallyExists, TallyEntries
<1>3. QED BY <1>2, SumIsTallied

LEMMA SumChosen ==
  ASSUME NEW D, IsFiniteSet(D), D # {}, NEW f
  PROVE  SumFunctionOnSet(f, D) = f[Chosen(D)] + SumFunctionOnSet(f, D \ {Chosen(D)})
<1> DEFINE rest == D \ {Chosen(D)}
<1>1. IsFiniteSet(rest) /\ rest \subseteq D
  BY FS_Subset
<1>2. IsTally(Tally(f, D), f, D) /\ IsTally(Tally(f, rest), f, rest)
  BY <1>1, TallyExists
<1>3. Tally(f, D)[rest] = Tally(f, rest)[rest]
  BY <1>1, <1>2, TalliesAgree
<1>4. Tally(f, D)[D] = f[Chosen(D)] + Tally(f, D)[rest]
  BY <1>2, TallyEntries
<1>5. QED BY <1>3, <1>4, SumIsTallied

\* The sum depends on what f is on the set, and nowhere else.
LEMMA SumAgree ==
  ASSUME NEW D, IsFiniteSet(D), NEW f, NEW g, \A x \in D : f[x] = g[x]
  PROVE  SumFunctionOnSet(f, D) = SumFunctionOnSet(g, D)
<1>1. IsTally(Tally(f, D), f, D) /\ IsTally(Tally(g, D), g, D)
  BY TallyExists
<1>2. Tally(f, D)[D] = Tally(g, D)[D]
  BY <1>1, TalliesAgree
<1>3. QED BY <1>2, SumIsTallied

\* A sum of integers is one, and it is not negative when its terms are not.
LEMMA SumType ==
  ASSUME NEW D, IsFiniteSet(D), NEW f, \A x \in D : f[x] \in Int
  PROVE  /\ SumFunctionOnSet(f, D) \in Int
         /\ (\A x \in D : f[x] >= 0) => SumFunctionOnSet(f, D) >= 0
<1> DEFINE S(s) == SumFunctionOnSet(f, s)
           OK(s) == S(s) \in Int /\ ((\A x \in s : f[x] >= 0) => S(s) >= 0)
           P == {s \in SUBSET D : OK(s)}
<1>1. ASSUME NEW s \in SUBSET D, \A t \in SUBSET s : t # s => t \in P
      PROVE  s \in P
  <2>1. CASE s = {}
    <3>1. S(s) = 0
      BY <2>1, SumEmpty
    <3> HIDE DEF S
    <3>2. QED BY <3>1
  <2>2. CASE s # {}
    <3>1. Chosen(s) \in s /\ IsFiniteSet(s)
      BY <2>2, ChosenIsIn, FS_Subset
    <3>2. S(s) = f[Chosen(s)] + S(s \ {Chosen(s)})
      BY <2>2, <3>1, SumChosen
    <3>3. OK(s \ {Chosen(s)})
      BY <1>1, <3>1
    <3> HIDE DEF S
    <3>4. QED BY <3>1, <3>2, <3>3
  <2>3. QED BY <2>1, <2>2
<1>2. SUBSET D \subseteq P
  <2> HIDE DEF P
  <2>1. QED BY <1>1, SubsetInduction
<1>3. QED BY <1>2

\* Nothing adds up to nothing.
LEMMA SumZero ==
  ASSUME NEW D, IsFiniteSet(D), NEW f, \A x \in D : f[x] = 0
  PROVE  SumFunctionOnSet(f, D) = 0
<1> DEFINE P == {s \in SUBSET D : SumFunctionOnSet(f, s) = 0}
<1>1. ASSUME NEW s \in SUBSET D, \A t \in SUBSET s : t # s => t \in P
      PROVE  s \in P
  <2>1. CASE s = {}
    BY <2>1, SumEmpty
  <2>2. CASE s # {}
    <3>1. Chosen(s) \in s /\ IsFiniteSet(s)
      BY <2>2, ChosenIsIn, FS_Subset
    <3>2. SumFunctionOnSet(f, s) = f[Chosen(s)] + SumFunctionOnSet(f, s \ {Chosen(s)})
      BY <2>2, <3>1, SumChosen
    <3>3. SumFunctionOnSet(f, s \ {Chosen(s)}) = 0
      BY <1>1, <3>1
    <3>4. QED BY <3>1, <3>2, <3>3
  <2>3. QED BY <2>1, <2>2
<1>2. SUBSET D \subseteq P
  <2> HIDE DEF P
  <2>1. QED BY <1>1, SubsetInduction
<1>3. QED BY <1>2

\* Any element may be taken out first.
LEMMA SumSplit ==
  ASSUME NEW D, IsFiniteSet(D), NEW f, \A x \in D : f[x] \in Int, NEW y \in D
  PROVE  SumFunctionOnSet(f, D) = f[y] + SumFunctionOnSet(f, D \ {y})
<1> DEFINE S(s) == SumFunctionOnSet(f, s)
           P == {s \in SUBSET D : \A z \in s : S(s) = f[z] + S(s \ {z})}
<1>1. ASSUME NEW s \in SUBSET D, \A t \in SUBSET s : t # s => t \in P
      PROVE  s \in P
  <2> SUFFICES ASSUME NEW z \in s PROVE S(s) = f[z] + S(s \ {z})
    OBVIOUS
  <2> DEFINE x == Chosen(s)
  <2>1. x \in s /\ IsFiniteSet(s)
    BY ChosenIsIn, FS_Subset
  <2>2. S(s) = f[x] + S(s \ {x})
    BY <2>1, SumChosen
  <2>3. CASE z = x
    BY <2>2, <2>3
  <2>4. CASE z # x
    <3> DEFINE u == s \ {x}
               v == s \ {z}
               w == s \ {x, z}
    <3>1. /\ u \in P /\ z \in u /\ u \ {z} = w
          /\ v \in P /\ x \in v /\ v \ {x} = w
      BY <1>1, <2>1, <2>4
    <3>2. S(u) = f[z] + S(w) /\ S(v) = f[x] + S(w)
      BY <3>1
    <3>3. f[x] \in Int /\ f[z] \in Int /\ S(w) \in Int
      <4>1. w \in SUBSET D /\ IsFiniteSet(w)
        BY FS_Subset
      <4>2. QED BY <2>1, <4>1, SumType
    <3> HIDE DEF S, x
    <3>4. QED BY <2>2, <3>2, <3>3
  <2>5. QED BY <2>3, <2>4
<1>2. SUBSET D \subseteq P
  <2> HIDE DEF P
  <2>1. QED BY <1>1, SubsetInduction
<1>3. QED BY <1>2

\* A sum changes by what one of its terms changes by.
LEMMA SumUpdate ==
  ASSUME NEW D, IsFiniteSet(D), NEW y \in D,
         NEW f, \A x \in D : f[x] \in Int,
         NEW g, \A x \in D \ {y} : g[x] = f[x], g[y] \in Int
  PROVE  SumFunctionOnSet(g, D) = SumFunctionOnSet(f, D) + g[y] - f[y]
<1> DEFINE rest == D \ {y}
<1>1. IsFiniteSet(rest)
  BY FS_Subset
<1>2. SumFunctionOnSet(g, rest) = SumFunctionOnSet(f, rest)
  BY <1>1, SumAgree
<1>3. SumFunctionOnSet(f, D) = f[y] + SumFunctionOnSet(f, rest)
  BY SumSplit
<1>4. SumFunctionOnSet(g, D) = g[y] + SumFunctionOnSet(g, rest)
  <2>1. \A x \in D : g[x] \in Int
    OBVIOUS
  <2>2. QED BY <2>1, SumSplit
<1>5. SumFunctionOnSet(f, rest) \in Int /\ f[y] \in Int
  BY <1>1, SumType
<1> HIDE DEF rest
<1>6. QED BY <1>2, <1>3, <1>4, <1>5

\* The sum of two functions.
LEMMA SumPlus ==
  ASSUME NEW D, IsFiniteSet(D), NEW f, NEW g, NEW h,
         \A x \in D : f[x] \in Int /\ g[x] \in Int /\ h[x] = f[x] + g[x]
  PROVE  SumFunctionOnSet(h, D) = SumFunctionOnSet(f, D) + SumFunctionOnSet(g, D)
<1> DEFINE F(s) == SumFunctionOnSet(f, s)
           G(s) == SumFunctionOnSet(g, s)
           H(s) == SumFunctionOnSet(h, s)
           P == {s \in SUBSET D : H(s) = F(s) + G(s)}
<1>1. ASSUME NEW s \in SUBSET D, \A t \in SUBSET s : t # s => t \in P
      PROVE  s \in P
  <2>1. CASE s = {}
    <3>1. H(s) = 0 /\ F(s) = 0 /\ G(s) = 0
      BY <2>1, SumEmpty
    <3> HIDE DEF F, G, H
    <3>2. QED BY <3>1
  <2>2. CASE s # {}
    <3> DEFINE x == Chosen(s)
               rest == s \ {x}
    <3>1. x \in s /\ IsFiniteSet(s) /\ IsFiniteSet(rest)
      BY <2>2, ChosenIsIn, FS_Subset
    <3>2. F(s) = f[x] + F(rest) /\ G(s) = g[x] + G(rest) /\ H(s) = h[x] + H(rest)
      BY <2>2, <3>1, SumChosen
    <3>3. H(rest) = F(rest) + G(rest)
      BY <1>1, <3>1
    <3>4. F(rest) \in Int /\ G(rest) \in Int
      <4>1. \A y \in rest : f[y] \in Int /\ g[y] \in Int
        OBVIOUS
      <4>2. QED BY <3>1, <4>1, SumType
    <3>5. f[x] \in Int /\ g[x] \in Int /\ h[x] = f[x] + g[x]
      BY <3>1
    <3> HIDE DEF F, G, H, x, rest
    <3>6. QED BY <3>2, <3>3, <3>4, <3>5
  <2>3. QED BY <2>1, <2>2
<1>2. SUBSET D \subseteq P
  <2> HIDE DEF P
  <2>1. QED BY <1>1, SubsetInduction
<1>3. QED BY <1>2

\* Smaller terms, a smaller sum.
LEMMA SumLeq ==
  ASSUME NEW D, IsFiniteSet(D), NEW f, NEW g,
         \A x \in D : f[x] \in Int /\ g[x] \in Int /\ f[x] <= g[x]
  PROVE  SumFunctionOnSet(f, D) <= SumFunctionOnSet(g, D)
<1> DEFINE d == [x \in D |-> g[x] - f[x]]
<1>1. \A x \in D : d[x] \in Int /\ d[x] >= 0 /\ g[x] = f[x] + d[x]
  OBVIOUS
<1> HIDE DEF d
<1>2. SumFunctionOnSet(g, D) = SumFunctionOnSet(f, D) + SumFunctionOnSet(d, D)
  BY <1>1, SumPlus
<1>3. SumFunctionOnSet(d, D) \in Int /\ SumFunctionOnSet(d, D) >= 0
  BY <1>1, SumType
<1>4. SumFunctionOnSet(f, D) \in Int
  BY SumType
<1>5. QED BY <1>2, <1>3, <1>4

\* A sum over a part is a sum over the whole whose other terms are nothing.
LEMMA SumOfPart ==
  ASSUME NEW D, IsFiniteSet(D), NEW A \in SUBSET D, NEW f, \A x \in A : f[x] \in Int,
         NEW g, \A x \in D : g[x] = IF x \in A THEN f[x] ELSE 0
  PROVE  SumFunctionOnSet(f, A) = SumFunctionOnSet(g, D)
<1> DEFINE F(s) == SumFunctionOnSet(f, s)
           G(s) == SumFunctionOnSet(g, s)
           P == {s \in SUBSET D : F(s \cap A) = G(s)}
<1>1. ASSUME NEW s \in SUBSET D, \A t \in SUBSET s : t # s => t \in P
      PROVE  s \in P
  <2>1. CASE s = {}
    <3>1. s \cap A = {}
      BY <2>1
    <3>2. F(s \cap A) = 0 /\ G(s) = 0
      BY <2>1, <3>1, SumEmpty
    <3>3. QED BY <3>2
  <2>2. CASE s # {}
    <3> DEFINE x == Chosen(s)
               rest == s \ {x}
    <3>1. x \in s /\ IsFiniteSet(s) /\ IsFiniteSet(rest \cap A) /\ IsFiniteSet(s \cap A)
      BY <2>2, ChosenIsIn, FS_Subset
    <3>2. G(s) = g[x] + G(rest)
      BY <2>2, <3>1, SumChosen
    <3>3. F(rest \cap A) = G(rest)
      BY <1>1, <3>1
    <3>4. F(rest \cap A) \in Int
      <4>1. \A y \in rest \cap A : f[y] \in Int
        OBVIOUS
      <4>2. QED BY <3>1, <4>1, SumType
    <3>5. CASE x \in A
      <4>1. x \in s \cap A /\ (s \cap A) \ {x} = rest \cap A
        BY <3>1, <3>5
      <4>2. \A y \in s \cap A : f[y] \in Int
        OBVIOUS
      <4>3. F(s \cap A) = f[x] + F((s \cap A) \ {x})
        BY <3>1, <4>1, <4>2, SumSplit
      <4>4. g[x] = f[x]
        BY <3>1, <3>5
      <4> HIDE DEF F, G, x, rest
      <4>5. QED BY <3>2, <3>3, <4>1, <4>3, <4>4
    <3>6. CASE x \notin A
      <4>1. s \cap A = rest \cap A
        BY <3>6
      <4>2. g[x] = 0
        BY <3>1, <3>6
      <4>3. F(s \cap A) = F(rest \cap A)
        BY <4>1
      <4>4. G(s) = G(rest)
        <5> HIDE DEF F, G, x, rest
        <5>1. QED BY <3>2, <3>3, <3>4, <4>2
      <4> HIDE DEF F, G, x, rest
      <4>5. QED BY <3>3, <4>3, <4>4
    <3>7. QED BY <3>5, <3>6
  <2>3. QED BY <2>1, <2>2
<1>2. SUBSET D \subseteq P
  <2> HIDE DEF P
  <2>1. QED BY <1>1, SubsetInduction
<1>3. F(D \cap A) = G(D)
  BY <1>2
<1>4. D \cap A = A
  OBVIOUS
<1>5. QED BY <1>3, <1>4

\* As many times the same.
LEMMA SumConstant ==
  ASSUME NEW D, IsFiniteSet(D), NEW f, NEW c \in Int, \A x \in D : f[x] = c
  PROVE  SumFunctionOnSet(f, D) = c * Cardinality(D)
<1> DEFINE F(s) == SumFunctionOnSet(f, s)
           P == {s \in SUBSET D : F(s) = c * Cardinality(s)}
<1>1. ASSUME NEW s \in SUBSET D, \A t \in SUBSET s : t # s => t \in P
      PROVE  s \in P
  <2>1. CASE s = {}
    <3>1. F(s) = 0 /\ Cardinality(s) = 0
      BY <2>1, SumEmpty, FS_EmptySet
    <3> HIDE DEF F
    <3>2. QED BY <3>1
  <2>2. CASE s # {}
    <3> DEFINE x == Chosen(s)
               rest == s \ {x}
    <3>1. x \in s /\ IsFiniteSet(s)
      BY <2>2, ChosenIsIn, FS_Subset
    <3>2. F(s) = f[x] + F(rest)
      BY <2>2, <3>1, SumChosen
    <3>3. F(rest) = c * Cardinality(rest)
      BY <1>1, <3>1
    <3>4. Cardinality(rest) = Cardinality(s) - 1 /\ Cardinality(s) \in Nat
      BY <3>1, FS_RemoveElement, FS_CardinalityType
    <3>5. f[x] = c
      BY <3>1
    <3> HIDE DEF F, x, rest
    <3>6. c + c * (Cardinality(s) - 1) = c * Cardinality(s)
      BY <3>4
    <3>7. QED BY <3>2, <3>3, <3>4, <3>5, <3>6
  <2>3. QED BY <2>1, <2>2
<1>2. SUBSET D \subseteq P
  <2> HIDE DEF P
  <2>1. QED BY <1>1, SubsetInduction
<1>3. QED BY <1>2

\* A sum of multiples is the multiple of the sum.
LEMMA SumTimes ==
  ASSUME NEW D, IsFiniteSet(D), NEW k \in Int, NEW f, NEW g,
         \A x \in D : f[x] \in Int /\ g[x] = k * f[x]
  PROVE  SumFunctionOnSet(g, D) = k * SumFunctionOnSet(f, D)
<1> DEFINE F(s) == SumFunctionOnSet(f, s)
           G(s) == SumFunctionOnSet(g, s)
           P == {s \in SUBSET D : G(s) = k * F(s)}
<1>1. ASSUME NEW s \in SUBSET D, \A t \in SUBSET s : t # s => t \in P
      PROVE  s \in P
  <2>1. CASE s = {}
    <3>1. F(s) = 0 /\ G(s) = 0
      BY <2>1, SumEmpty
    <3> HIDE DEF F, G
    <3>2. QED BY <3>1
  <2>2. CASE s # {}
    <3> DEFINE x == Chosen(s)
               rest == s \ {x}
    <3>1. x \in s /\ IsFiniteSet(s) /\ IsFiniteSet(rest)
      BY <2>2, ChosenIsIn, FS_Subset
    <3>2. F(s) = f[x] + F(rest) /\ G(s) = g[x] + G(rest)
      BY <2>2, <3>1, SumChosen
    <3>3. G(rest) = k * F(rest)
      BY <1>1, <3>1
    <3>4. F(rest) \in Int
      <4>1. \A y \in rest : f[y] \in Int
        OBVIOUS
      <4>2. QED BY <3>1, <4>1, SumType
    <3>5. f[x] \in Int /\ g[x] = k * f[x]
      BY <3>1
    <3> HIDE DEF F, G, x, rest
    <3>6. k * (f[x] + F(rest)) = k * f[x] + k * F(rest)
      BY <3>4, <3>5
    <3>7. QED BY <3>2, <3>3, <3>5, <3>6
  <2>3. QED BY <2>1, <2>2
<1>2. SUBSET D \subseteq P
  <2> HIDE DEF P
  <2>1. QED BY <1>1, SubsetInduction
<1>3. QED BY <1>2

=============================================================================
