------------------------- MODULE SessionFeedProofs --------------------------
(***************************************************************************)
(* What the event feed promises, proved for any number of logs, blocks and *)
(* failing calls: no log is handed on twice, each channel keeps the order  *)
(* of the chain while the lags stay the same, and a stopped feed hands on  *)
(* nothing but what a replay under way still does.                         *)
(***************************************************************************)
EXTENDS SessionFeed, FiniteSetTheorems, SequenceTheorems, TLAPS

-----------------------------------------------------------------------------
(* Lists of logs.                                                          *)

IsList(s) == Len(s) \in Nat /\ \A m \in 1..Len(s) : s[m] \in Nat
Bounded(s, k) == \A m \in 1..Len(s) : s[m] < k
Distinct(s) == \A m, n \in 1..Len(s) : m < n => s[m] # s[n]
Increasing(s) == \A m, n \in 1..Len(s) : m < n => s[m] < s[n]
Apart(s, t) == \A m \in 1..Len(s), n \in 1..Len(t) : s[m] # t[n]
Below(s, t) == \A m \in 1..Len(s), n \in 1..Len(t) : s[m] < t[n]

\* u is s with k behind it; r is p without its n-th element.
Extends(u, s, k) ==
  /\ Len(u) = Len(s) + 1
  /\ \A m \in 1..Len(s) : u[m] = s[m]
  /\ u[Len(s) + 1] = k
Shrinks(r, p, n) ==
  /\ Len(r) = Len(p) - 1
  /\ \A m \in 1..(n - 1) : r[m] = p[m]
  /\ \A m \in n..(Len(p) - 1) : r[m] = p[m + 1]

LEMMA SeqIsList ==
  ASSUME NEW s \in Seq(Nat)
  PROVE  IsList(s)
BY DEF IsList

LEMMA AppendExtends ==
  ASSUME NEW s \in Seq(Nat), NEW k \in Nat
  PROVE  Append(s, k) \in Seq(Nat) /\ Extends(Append(s, k), s, k)
BY DEF Extends

LEMMA RemoveAtShrinks ==
  ASSUME NEW p \in Seq(Nat), NEW n \in 1..Len(p)
  PROVE  RemoveAt(p, n) \in Seq(Nat) /\ Shrinks(RemoveAt(p, n), p, n)
<1> DEFINE a == SubSeq(p, 1, n - 1)
           b == SubSeq(p, n + 1, Len(p))
           r == a \o b
<1>1. /\ a \in Seq(Nat) /\ Len(a) = n - 1
      /\ \A m \in 1..(n - 1) : a[m] = p[m]
  OBVIOUS
<1>2. /\ b \in Seq(Nat) /\ Len(b) = Len(p) - n
      /\ \A m \in 1..(Len(p) - n) : b[m] = p[n + m]
  OBVIOUS
<1>3. RemoveAt(p, n) = r
  BY DEF RemoveAt
<1>4. Len(p) \in Nat
  OBVIOUS
<1> HIDE DEF a, b
<1>5. /\ r \in Seq(Nat) /\ Len(r) = Len(a) + Len(b)
      /\ \A m \in 1..(Len(a) + Len(b)) : r[m] = IF m <= Len(a) THEN a[m] ELSE b[m - Len(a)]
  <2>1. a \in Seq(Nat) /\ b \in Seq(Nat)
    BY <1>1, <1>2
  <2> QED BY <2>1, ConcatProperties, Zenon
<1> HIDE DEF r
<1>a. Len(a) + Len(b) = Len(p) - 1
  BY <1>1, <1>2, <1>4
<1>6. \A m \in 1..(Len(p) - 1) : r[m] = IF m <= n - 1 THEN a[m] ELSE b[m - (n - 1)]
  BY <1>a, <1>5, <1>1, Zenon
<1>7. ASSUME NEW m \in 1..(n - 1)
      PROVE  r[m] = p[m]
  <2>1. m \in 1..(Len(p) - 1) /\ m <= n - 1
    BY <1>4
  <2> QED BY <1>1, <1>6, <2>1, Zenon
<1>8. ASSUME NEW m \in n..(Len(p) - 1)
      PROVE  r[m] = p[m + 1]
  <2>1. r[m] = b[m - (n - 1)]
    <3>1. m \in 1..(Len(p) - 1) /\ ~(m <= n - 1)
      BY <1>4
    <3> QED BY <1>6, <3>1, Zenon
  <2>2. m - (n - 1) \in 1..(Len(p) - n) /\ n + (m - (n - 1)) = m + 1
    BY <1>4
  <2>3. b[m - (n - 1)] = p[n + (m - (n - 1))]
    BY <1>2, <2>2, Zenon
  <2> QED BY <2>1, <2>2, <2>3, Zenon
<1>9. Shrinks(r, p, n)
  BY <1>a, <1>5, <1>7, <1>8, Zenon DEF Shrinks
<1> QED BY <1>3, <1>5, <1>9, Zenon

\* A log behind all others of its list keeps the list's order.
LEMMA ExtendingKeeps ==
  ASSUME NEW s, NEW u, NEW k \in Nat, IsList(s), Extends(u, s, k), Bounded(s, k)
  PROVE  /\ Bounded(u, k + 1)
         /\ Distinct(s) => Distinct(u)
         /\ Increasing(s) => Increasing(u)
<1>1. \A i \in 1..Len(u) : u[i] = IF i <= Len(s) THEN s[i] ELSE k
  BY DEF IsList, Extends
<1>2. Len(s) \in Nat /\ Len(u) = Len(s) + 1
  BY DEF IsList, Extends
<1>3. \A i \in 1..Len(s) : s[i] \in Nat /\ s[i] < k
  BY DEF IsList, Bounded
<1>4. Bounded(u, k + 1)
  BY <1>1, <1>2, <1>3 DEF Bounded
<1>5. ASSUME Distinct(s), NEW m \in 1..Len(u), NEW n \in 1..Len(u), m < n
      PROVE  u[m] # u[n]
  <2>1. m \in 1..Len(s) /\ u[m] = s[m] /\ u[n] = IF n <= Len(s) THEN s[n] ELSE k
    BY <1>1, <1>2, <1>5
  <2>2. CASE n <= Len(s)
    BY <1>2, <1>5, <2>1, <2>2 DEF Distinct
  <2>3. CASE ~(n <= Len(s))
    BY <1>3, <2>1, <2>3
  <2> QED BY <2>2, <2>3
<1>6. ASSUME Increasing(s), NEW m \in 1..Len(u), NEW n \in 1..Len(u), m < n
      PROVE  u[m] < u[n]
  <2>1. m \in 1..Len(s) /\ u[m] = s[m] /\ u[n] = IF n <= Len(s) THEN s[n] ELSE k
    BY <1>1, <1>2, <1>6
  <2>2. CASE n <= Len(s)
    BY <1>2, <1>6, <2>1, <2>2 DEF Increasing
  <2>3. CASE ~(n <= Len(s))
    BY <1>3, <2>1, <2>3
  <2> QED BY <2>2, <2>3
<1>7. Distinct(s) => Distinct(u)
  BY <1>5 DEF Distinct
<1>8. Increasing(s) => Increasing(u)
  BY <1>6 DEF Increasing
<1> QED BY <1>4, <1>7, <1>8

\* And the list's relation to another one, where that one has only earlier logs.
LEMMA ExtendingKeepsApart ==
  ASSUME NEW s, NEW t, NEW u, NEW k \in Nat, IsList(s), IsList(t), Extends(u, s, k),
         Bounded(t, k)
  PROVE  /\ Apart(s, t) => Apart(u, t)
         /\ Apart(t, s) => Apart(t, u)
         /\ Below(t, s) => Below(t, u)
<1>1. \A i \in 1..Len(u) : u[i] = IF i <= Len(s) THEN s[i] ELSE k
  BY DEF IsList, Extends
<1>2. Len(s) \in Nat /\ Len(u) = Len(s) + 1
  BY DEF IsList, Extends
<1>3. \A i \in 1..Len(t) : t[i] \in Nat /\ t[i] < k
  BY DEF IsList, Bounded
<1>4. ASSUME Apart(s, t), NEW m \in 1..Len(u), NEW n \in 1..Len(t)
      PROVE  u[m] # t[n]
  <2>1. u[m] = IF m <= Len(s) THEN s[m] ELSE k
    BY <1>1
  <2>2. CASE m <= Len(s)
    <3>1. m \in 1..Len(s) /\ u[m] = s[m]
      BY <1>2, <2>1, <2>2
    <3> QED BY <1>4, <3>1 DEF Apart
  <2>3. CASE ~(m <= Len(s))
    BY <1>3, <2>1, <2>3
  <2> QED BY <2>2, <2>3
<1>5. ASSUME Apart(t, s), NEW m \in 1..Len(t), NEW n \in 1..Len(u)
      PROVE  t[m] # u[n]
  <2>1. u[n] = IF n <= Len(s) THEN s[n] ELSE k
    BY <1>1
  <2>2. CASE n <= Len(s)
    <3>1. n \in 1..Len(s) /\ u[n] = s[n]
      BY <1>2, <2>1, <2>2
    <3> QED BY <1>5, <3>1 DEF Apart
  <2>3. CASE ~(n <= Len(s))
    BY <1>3, <2>1, <2>3
  <2> QED BY <2>2, <2>3
<1>6. Below(t, s) => Below(t, u)
  BY <1>1, <1>2, <1>3 DEF Below
<1>7. Apart(s, t) => Apart(u, t)
  BY <1>4 DEF Apart
<1>8. Apart(t, s) => Apart(t, u)
  BY <1>5 DEF Apart
<1> QED BY <1>6, <1>7, <1>8

\* An element taken out of a list leaves the order of the others.
LEMMA ShrinkingKeeps ==
  ASSUME NEW p, NEW r, NEW n \in 1..Len(p), NEW k \in Nat, IsList(p), Shrinks(r, p, n)
  PROVE  /\ Bounded(p, k) => Bounded(r, k)
         /\ Distinct(p) => Distinct(r)
         /\ Increasing(p) => Increasing(r)
<1>1. \A i \in 1..Len(r) : i \in 1..Len(p) /\ i + 1 \in 1..Len(p) /\ r[i] = IF i < n THEN p[i] ELSE p[i + 1]
  BY DEF IsList, Shrinks
<1>2. Len(p) \in Nat /\ Len(r) \in Nat
  BY DEF IsList, Shrinks
<1>3. Bounded(p, k) => Bounded(r, k)
  BY <1>1, <1>2 DEF Bounded
<1>4. Distinct(p) => Distinct(r)
  BY <1>1, <1>2 DEF Distinct
<1>5. Increasing(p) => Increasing(r)
  BY <1>1, <1>2 DEF Increasing
<1> QED BY <1>3, <1>4, <1>5

\* The element taken out goes behind the list d.
LEMMA MovingKeeps ==
  ASSUME NEW d, NEW p, NEW u, NEW r, NEW n \in 1..Len(p), NEW k \in Nat,
         IsList(d), IsList(p), Extends(u, d, p[n]), Shrinks(r, p, n),
         Bounded(d, k), Bounded(p, k), Distinct(d), Distinct(p), Apart(d, p)
  PROVE  Bounded(u, k) /\ Distinct(u) /\ Apart(u, r)
<1>1. \A i \in 1..Len(r) : i \in 1..Len(p) /\ i + 1 \in 1..Len(p) /\ r[i] = IF i < n THEN p[i] ELSE p[i + 1]
  BY DEF IsList, Shrinks
<1>2. \A i \in 1..Len(u) : u[i] = IF i <= Len(d) THEN d[i] ELSE p[n]
  BY DEF IsList, Extends
<1>3. Len(d) \in Nat /\ Len(u) = Len(d) + 1 /\ Len(p) \in Nat /\ Len(r) \in Nat
  BY DEF IsList, Extends, Shrinks
<1>4. Bounded(u, k)
  BY <1>2, <1>3 DEF Bounded
<1>5. ASSUME NEW m \in 1..Len(u), NEW l \in 1..Len(u), m < l
      PROVE  u[m] # u[l]
  <2>1. m \in 1..Len(d) /\ u[m] = d[m] /\ u[l] = IF l <= Len(d) THEN d[l] ELSE p[n]
    BY <1>2, <1>3, <1>5
  <2>2. CASE l <= Len(d)
    BY <1>3, <1>5, <2>1, <2>2 DEF Distinct
  <2>3. CASE ~(l <= Len(d))
    BY <2>1, <2>3 DEF Apart
  <2> QED BY <2>2, <2>3
<1>6. ASSUME NEW m \in 1..Len(u), NEW l \in 1..Len(r)
      PROVE  u[m] # r[l]
  <2>1. /\ u[m] = IF m <= Len(d) THEN d[m] ELSE p[n]
        /\ \E j \in 1..Len(p) : j # n /\ r[l] = p[j]
    BY <1>1, <1>2, <1>3
  <2>2. CASE m <= Len(d)
    <3>1. m \in 1..Len(d) /\ u[m] = d[m]
      BY <1>3, <2>1, <2>2
    <3> QED BY <2>1, <3>1 DEF Apart
  <2>3. CASE ~(m <= Len(d))
    <3>1. \A j \in 1..Len(p) : j # n => p[j] # p[n]
      BY <1>3 DEF Distinct
    <3> QED BY <2>1, <2>3, <3>1
  <2> QED BY <2>2, <2>3
<1>7. Distinct(u)
  BY <1>5 DEF Distinct
<1>8. Apart(u, r)
  BY <1>6 DEF Apart
<1> QED BY <1>4, <1>7, <1>8

\* The oldest element of p goes behind d, and d stays below p.
LEMMA MovingTheOldestKeeps ==
  ASSUME NEW d, NEW p, NEW u, NEW r, 1 \in 1..Len(p),
         IsList(d), IsList(p), Extends(u, d, p[1]), Shrinks(r, p, 1),
         Increasing(d), Increasing(p), Below(d, p)
  PROVE  Increasing(u) /\ Below(u, r)
<1>1. \A i \in 1..Len(r) : i + 1 \in 1..Len(p) /\ r[i] = p[i + 1]
  BY DEF IsList, Shrinks
<1>2. \A i \in 1..Len(u) : u[i] = IF i <= Len(d) THEN d[i] ELSE p[1]
  BY DEF IsList, Extends
<1>3. Len(d) \in Nat /\ Len(u) = Len(d) + 1 /\ Len(p) \in Nat /\ Len(r) \in Nat
  BY DEF IsList, Extends, Shrinks
<1>4. Increasing(u)
  BY <1>2, <1>3 DEF IsList, Increasing, Below
<1>5. Below(u, r)
  <2>1. \A i \in 1..Len(r) : p[1] < p[i + 1]
    BY <1>1, <1>3 DEF Increasing
  <2>2. \A i \in 1..Len(d), j \in 1..Len(r) : d[i] < p[j + 1]
    BY <1>1, <1>3 DEF Below
  <2>3. ASSUME NEW i \in 1..Len(u), NEW j \in 1..Len(r)
        PROVE  u[i] < r[j]
    <3>1. r[j] = p[j + 1]
      BY <1>1, Zenon
    <3>2. CASE i <= Len(d)
      <4>1. u[i] = d[i] /\ i \in 1..Len(d)
        BY <1>2, <1>3, <3>2
      <4> QED BY <2>2, <3>1, <4>1, Zenon
    <3>3. CASE ~(i <= Len(d))
      BY <1>2, <2>1, <3>1, <3>3, Zenon
    <3> QED BY <3>2, <3>3
  <2> QED BY <2>3, Zenon DEF Below
<1> QED BY <1>4, <1>5

-----------------------------------------------------------------------------
(* One channel: the logs delivered, and the logs whose timer is running.   *)

\* All are below k and no log is there twice; in order unless told otherwise.
Ordered(d, p, k, inOrder) ==
  /\ d \in Seq(Nat) /\ p \in Seq(Nat)
  /\ Bounded(d, k) /\ Bounded(p, k)
  /\ Distinct(d) /\ Distinct(p) /\ Apart(d, p)
  /\ inOrder => Increasing(d) /\ Increasing(p) /\ Below(d, p)

LEMMA EmptyList ==
  /\ <<>> \in Seq(Nat) /\ Distinct(<<>>) /\ Increasing(<<>>)
  /\ \A k : Bounded(<<>>, k)
  /\ \A d : Apart(d, <<>>) /\ Apart(<<>>, d) /\ Below(d, <<>>) /\ Below(<<>>, d)
BY DEF Bounded, Distinct, Increasing, Apart, Below

LEMMA BoundedWeakens ==
  ASSUME NEW s \in Seq(Nat), NEW k \in Nat, NEW l \in Nat, k <= l, Bounded(s, k)
  PROVE  Bounded(s, l)
<1>1. IsList(s)
  BY SeqIsList
<1> QED BY <1>1 DEF Bounded, IsList

\* A timer's log given out at once.
LEMMA DeliveringKeeps ==
  ASSUME NEW d, NEW p, NEW k \in Nat, NEW inOrder \in BOOLEAN,
         Ordered(d, p, k, inOrder), inOrder => p = <<>>
  PROVE  Ordered(Append(d, k), p, k + 1, inOrder)
<1>1. d \in Seq(Nat) /\ p \in Seq(Nat) /\ IsList(d) /\ IsList(p)
  BY SeqIsList DEF Ordered
<1> DEFINE u == Append(d, k)
<1>2. u \in Seq(Nat) /\ Extends(u, d, k)
  BY <1>1, AppendExtends
<1> HIDE DEF u
<1>3. /\ Bounded(u, k + 1) /\ Distinct(u)
      /\ inOrder => Increasing(u)
  BY <1>1, <1>2, ExtendingKeeps DEF Ordered
<1>4. Apart(u, p)
  BY <1>1, <1>2, ExtendingKeepsApart DEF Ordered
<1>5. Bounded(p, k + 1)
  BY <1>1, BoundedWeakens DEF Ordered
<1>6. inOrder => Below(u, p)
  BY EmptyList
<1> QED BY <1>1, <1>2, <1>3, <1>4, <1>5, <1>6, Zenon DEF Ordered, u

\* A timer armed.
LEMMA QueueingKeeps ==
  ASSUME NEW d, NEW p, NEW k \in Nat, NEW inOrder \in BOOLEAN, Ordered(d, p, k, inOrder)
  PROVE  Ordered(d, Append(p, k), k + 1, inOrder)
<1>1. d \in Seq(Nat) /\ p \in Seq(Nat) /\ IsList(d) /\ IsList(p)
  BY SeqIsList DEF Ordered
<1> DEFINE u == Append(p, k)
<1>2. u \in Seq(Nat) /\ Extends(u, p, k)
  BY <1>1, AppendExtends
<1> HIDE DEF u
<1>3. /\ Bounded(u, k + 1) /\ Distinct(u)
      /\ inOrder => Increasing(u)
  BY <1>1, <1>2, ExtendingKeeps DEF Ordered
<1>4. Apart(d, u) /\ (inOrder => Below(d, u))
  BY <1>1, <1>2, ExtendingKeepsApart DEF Ordered
<1>5. Bounded(d, k + 1)
  BY <1>1, BoundedWeakens DEF Ordered
<1> QED BY <1>1, <1>2, <1>3, <1>4, <1>5, Zenon DEF Ordered, u

\* A timer fires: the oldest one keeps the order.
LEMMA FiringKeeps ==
  ASSUME NEW d, NEW p, NEW k \in Nat, NEW inOrder \in BOOLEAN, Ordered(d, p, k, inOrder),
         NEW n \in 1..Len(p)
  PROVE  Ordered(Append(d, p[n]), RemoveAt(p, n), k, inOrder /\ n = 1)
<1>1. d \in Seq(Nat) /\ p \in Seq(Nat) /\ IsList(d) /\ IsList(p)
  BY SeqIsList DEF Ordered
<1>2. p[n] \in Nat
  BY <1>1
<1> DEFINE u == Append(d, p[n])
           r == RemoveAt(p, n)
<1>3. u \in Seq(Nat) /\ Extends(u, d, p[n])
  BY <1>1, <1>2, AppendExtends
<1>4. r \in Seq(Nat) /\ Shrinks(r, p, n)
  BY <1>1, RemoveAtShrinks
<1> HIDE DEF u, r
<1>5. Bounded(u, k) /\ Distinct(u) /\ Apart(u, r)
  BY <1>1, <1>3, <1>4, MovingKeeps DEF Ordered
<1>6. /\ Bounded(r, k) /\ Distinct(r)
      /\ inOrder => Increasing(r)
  BY <1>1, <1>4, ShrinkingKeeps DEF Ordered
<1>7. inOrder /\ n = 1 => Increasing(u) /\ Below(u, r)
  BY <1>1, <1>3, <1>4, MovingTheOldestKeeps DEF Ordered
<1> QED BY <1>3, <1>4, <1>5, <1>6, <1>7, Zenon DEF Ordered, u, r

\* The timers are cleared.
LEMMA ClearingKeeps ==
  ASSUME NEW d, NEW p, NEW k \in Nat, NEW inOrder \in BOOLEAN, Ordered(d, p, k, inOrder)
  PROVE  Ordered(d, <<>>, k, inOrder)
BY EmptyList DEF Ordered

LEMMA OrderedWeakens ==
  ASSUME NEW d, NEW p, NEW k \in Nat, NEW l \in Nat, k <= l,
         NEW inOrder \in BOOLEAN, NEW still \in BOOLEAN, still => inOrder,
         Ordered(d, p, k, inOrder)
  PROVE  Ordered(d, p, l, still)
BY BoundedWeakens DEF Ordered

\* What OnceAndInOrder says of a channel.
LEMMA OrderedIsOnce ==
  ASSUME NEW d, NEW p, NEW k \in Nat, NEW inOrder \in BOOLEAN, Ordered(d, p, k, inOrder)
  PROVE  \A m, n \in 1..Len(d \o p) :
           m < n => (d \o p)[m] # (d \o p)[n] /\ (~inOrder \/ (d \o p)[m] < (d \o p)[n])
<1>1. d \in Seq(Nat) /\ p \in Seq(Nat)
  BY DEF Ordered
<1> DEFINE e == d \o p
<1>2. /\ Len(e) = Len(d) + Len(p)
      /\ \A i \in 1..(Len(d) + Len(p)) : e[i] = IF i <= Len(d) THEN d[i] ELSE p[i - Len(d)]
  BY <1>1, ConcatProperties, Zenon
<1>3. Len(d) \in Nat /\ Len(p) \in Nat
  BY <1>1
<1> HIDE DEF e
<1>4. SUFFICES ASSUME NEW m \in 1..Len(e), NEW n \in 1..Len(e), m < n
               PROVE  e[m] # e[n] /\ (~inOrder \/ e[m] < e[n])
  BY Zenon DEF e
<1>5. CASE n <= Len(d)
  <2>1. m \in 1..Len(d) /\ n \in 1..Len(d) /\ m <= Len(d) /\ m \in 1..(Len(d) + Len(p)) /\ n \in 1..(Len(d) + Len(p))
    BY <1>2, <1>3, <1>4, <1>5
  <2>2. e[m] = d[m] /\ e[n] = d[n]
    BY <1>2, <1>5, <2>1, Zenon
  <2> QED BY <1>4, <2>1, <2>2, Zenon DEF Ordered, Distinct, Increasing
<1>6. CASE m <= Len(d) /\ ~(n <= Len(d))
  <2>1. m \in 1..Len(d) /\ n - Len(d) \in 1..Len(p) /\ m \in 1..(Len(d) + Len(p)) /\ n \in 1..(Len(d) + Len(p))
    BY <1>2, <1>3, <1>4, <1>6
  <2>2. e[m] = d[m] /\ e[n] = p[n - Len(d)]
    BY <1>2, <1>6, <2>1, Zenon
  <2> QED BY <2>1, <2>2, Zenon DEF Ordered, Apart, Below
<1>7. CASE ~(m <= Len(d))
  <2>1. /\ m - Len(d) \in 1..Len(p) /\ n - Len(d) \in 1..Len(p) /\ m - Len(d) < n - Len(d)
        /\ ~(n <= Len(d)) /\ m \in 1..(Len(d) + Len(p)) /\ n \in 1..(Len(d) + Len(p))
    BY <1>2, <1>3, <1>4, <1>7
  <2>2. e[m] = p[m - Len(d)] /\ e[n] = p[n - Len(d)]
    BY <1>2, <1>7, <2>1, Zenon
  <2> QED BY <2>1, <2>2, Zenon DEF Ordered, Distinct, Increasing
<1>8. m <= Len(d) \/ ~(m <= Len(d))
  OBVIOUS
<1> QED BY <1>5, <1>6, <1>7, Zenon

-----------------------------------------------------------------------------
(* The inductive invariant.                                                *)

\* The logs after the lo-th, up to the hi-th.
Upcoming(lo, hi) == [i \in 1..(hi - lo) |-> lo + i]

Awaiting == stage \in {"replay await", "poll await"}
InRange == stage \in {"replay", "poll"}

FeedType ==
  /\ logs \in Seq(Nat) /\ head \in Nat
  /\ stage \in Stages
  /\ fromBlock \in 0..(head + 1) /\ toBlock \in 0..head
  /\ stopped \in BOOLEAN /\ lagChanged \in BOOLEAN
  /\ pending \in [Channels -> Seq(Nat)] /\ delivered \in [Channels -> Seq(Nat)]

\* No timer runs before the first poll, nor on a channel without a lag.
TimersFit ==
  /\ stage \in {"start", "replay", "replay await"} =>
       fromBlock = 0 /\ \A c \in Channels : pending[c] = <<>>
  /\ ~lagChanged => \A c \in Immediate : pending[c] = <<>>

\* The logs up to f have been normalized, among them all that will not be polled
\* again; the range being processed is left from a log that f reaches, or whose
\* block is awaited; and the channels hold logs up to f only.
Frontier(f) ==
  /\ seen = 1..f
  /\ LogsUpTo(fromBlock - 1) <= f
  /\ InRange => \E lo \in Nat :
       /\ lo <= f /\ lo <= LogsUpTo(toBlock)
       /\ todo = Upcoming(lo, LogsUpTo(toBlock))
  /\ Awaiting => \E lo \in Nat :
       /\ lo + 1 = f /\ lo < LogsUpTo(toBlock)
       /\ todo = Upcoming(lo, LogsUpTo(toBlock))
  /\ \A c \in Channels :
       Ordered(delivered[c], pending[c], IF Awaiting THEN f ELSE f + 1, ~lagChanged)

IInv == FeedType /\ TimersFit /\ \E f \in Nat : Frontier(f)

-----------------------------------------------------------------------------
(* Block ranges.                                                           *)

LEMMA LogsUpToIsNat ==
  ASSUME logs \in Seq(Nat), NEW b
  PROVE  LogsUpTo(b) \in Nat
<1>1. IsFiniteSet({i \in DOMAIN logs : logs[i] <= b})
  <2>1. DOMAIN logs = 1..Len(logs) /\ Len(logs) \in Nat
    OBVIOUS
  <2>2. IsFiniteSet(1..Len(logs))
    BY <2>1, FS_Interval
  <2> QED BY <2>1, <2>2, FS_Subset
<1> QED BY <1>1, FS_CardinalityType DEF LogsUpTo

LEMMA LogsUpToIsMonotone ==
  ASSUME logs \in Seq(Nat), NEW b \in Int, NEW c \in Int, b <= c
  PROVE  LogsUpTo(b) <= LogsUpTo(c)
<1>1. DOMAIN logs = 1..Len(logs) /\ Len(logs) \in Nat
  OBVIOUS
<1>2. IsFiniteSet({i \in DOMAIN logs : logs[i] <= c})
  <2>1. IsFiniteSet(1..Len(logs))
    BY <1>1, FS_Interval
  <2> QED BY <1>1, <2>1, FS_Subset
<1>3. {i \in DOMAIN logs : logs[i] <= b} \subseteq {i \in DOMAIN logs : logs[i] <= c}
  <2>1. \A i \in DOMAIN logs : logs[i] \in Int
    OBVIOUS
  <2> QED BY <2>1
<1> QED BY <1>2, <1>3, FS_Subset DEF LogsUpTo

LEMMA NoLogsBeforeTheFirstBlock ==
  ASSUME logs \in Seq(Nat)
  PROVE  LogsUpTo(0 - 1) = 0
<1>1. {i \in DOMAIN logs : logs[i] <= 0 - 1} = {}
  <2>1. \A i \in DOMAIN logs : logs[i] \in Nat
    OBVIOUS
  <2> QED BY <2>1
<1> QED BY <1>1, FS_EmptySet DEF LogsUpTo

\* The logs of the blocks mined so far stay what they are.
LEMMA MiningKeepsLogsUpTo ==
  ASSUME logs \in Seq(Nat), head \in Nat, MineBlock
  PROVE  /\ logs' \in Seq(Nat) /\ head' = head + 1
         /\ \A b \in Int : b <= head => LogsUpTo(b)' = LogsUpTo(b)
<1>1. PICK n \in 0..2 : logs' = logs \o [i \in 1..n |-> head + 1]
  BY DEF MineBlock
<1> DEFINE new == [i \in 1..n |-> head + 1]
<1>2. /\ new \in Seq(Nat) /\ Len(new) = n
      /\ \A i \in 1..n : new[i] = head + 1
  OBVIOUS
<1> HIDE DEF new
<1>3. /\ logs' \in Seq(Nat) /\ Len(logs') = Len(logs) + n
      /\ \A i \in 1..(Len(logs) + n) : logs'[i] = IF i <= Len(logs) THEN logs[i] ELSE new[i - Len(logs)]
  <2>1. logs' = logs \o new
    BY <1>1 DEF new
  <2> QED BY <1>2, <2>1, ConcatProperties, Zenon
<1>4. Len(logs) \in Nat /\ DOMAIN logs = 1..Len(logs) /\ DOMAIN logs' = 1..(Len(logs) + n)
  BY <1>3
<1>5. ASSUME NEW b \in Int, b <= head
      PROVE  {i \in DOMAIN logs' : logs'[i] <= b} = {i \in DOMAIN logs : logs[i] <= b}
  <2>1. ASSUME NEW i \in 1..Len(logs)
        PROVE  logs'[i] = logs[i] /\ i \in 1..(Len(logs) + n)
    BY <1>3, <1>4
  <2>2. ASSUME NEW i \in 1..(Len(logs) + n), i \notin 1..Len(logs)
        PROVE  ~(logs'[i] <= b)
    <3>1. ~(i <= Len(logs)) /\ i - Len(logs) \in 1..n
      BY <1>4, <2>2
    <3>2. logs'[i] = head + 1
      BY <1>2, <1>3, <3>1, Zenon
    <3> QED BY <1>5, <3>2
  <2>3. \A i \in 1..Len(logs) : i \in 1..(Len(logs) + n) /\ (logs'[i] <= b <=> logs[i] <= b)
    BY <2>1, Zenon
  <2>4. \A i \in 1..(Len(logs) + n) : logs'[i] <= b => i \in 1..Len(logs)
    BY <2>2, Zenon
  <2> QED BY <1>4, <2>3, <2>4, Zenon
<1>6. ASSUME NEW b \in Int, b <= head
      PROVE  LogsUpTo(b)' = LogsUpTo(b)
  BY <1>5, <1>6, Zenon DEF LogsUpTo
<1> QED BY <1>3, <1>6 DEF MineBlock

LEMMA UpcomingRange ==
  ASSUME NEW lo \in Nat, NEW hi \in Nat, lo <= hi
  PROVE  /\ Upcoming(lo, hi) \in Seq(Nat)
         /\ Upcoming(lo, hi) = <<>> <=> lo = hi
         /\ lo < hi => /\ Head(Upcoming(lo, hi)) = lo + 1
                       /\ Tail(Upcoming(lo, hi)) = Upcoming(lo + 1, hi)
<1> DEFINE u == Upcoming(lo, hi)
<1>1. /\ u \in Seq(Nat) /\ Len(u) = hi - lo
      /\ \A i \in 1..(hi - lo) : u[i] = lo + i
  BY DEF Upcoming
<1>2. u = <<>> <=> lo = hi
  BY <1>1, EmptySeq
<1>3. ASSUME lo < hi
      PROVE  Head(u) = lo + 1 /\ Tail(u) = Upcoming(lo + 1, hi)
  <2>1. Head(u) = lo + 1
    BY <1>1, <1>3
  <2> DEFINE t == Tail(u)
             v == Upcoming(lo + 1, hi)
  <2>2. /\ t \in Seq(Nat) /\ Len(t) = hi - (lo + 1)
        /\ \A i \in 1..(hi - (lo + 1)) : t[i] = lo + 1 + i
    BY <1>1, <1>3
  <2>3. /\ v \in Seq(Nat) /\ Len(v) = hi - (lo + 1)
        /\ \A i \in 1..(hi - (lo + 1)) : v[i] = lo + 1 + i
    BY <1>3 DEF Upcoming
  <2> HIDE DEF t, v
  <2>4. t = v
    BY <2>2, <2>3, SeqEqual
  <2> QED BY <2>1, <2>4 DEF t, v
<1> QED BY <1>1, <1>2, <1>3

LEMMA GetLogsIsUpcoming ==
  ASSUME NEW first, NEW last
  PROVE  GetLogs(first, last) = Upcoming(LogsUpTo(first - 1), LogsUpTo(last))
BY DEF GetLogs, Upcoming

-----------------------------------------------------------------------------
(* The feed's steps.                                                       *)

LEMMA NatGrows ==
  \A k \in Nat : /\ k + 1 \in Nat /\ k <= k /\ k <= k + 1
                 /\ \A n \in Nat : n <= k => n <= k + 1 /\ n + 1 <= k + 1
                 /\ \A n \in Nat : n < k => n <= k /\ n + 1 <= k
OBVIOUS

\* A log handed on, at once or by a timer, goes behind all others.
LEMMA HandOnKeeps ==
  ASSUME FeedType, TimersFit, NEW k \in Nat, NEW replaying \in BOOLEAN,
         replaying => stage \in {"replay", "replay await"},
         \A c \in Channels : Ordered(delivered[c], pending[c], k, ~lagChanged),
         HandOn(k, replaying)
  PROVE  /\ pending' \in [Channels -> Seq(Nat)] /\ delivered' \in [Channels -> Seq(Nat)]
         /\ lagChanged' \in BOOLEAN
         /\ \A c \in Channels : Ordered(delivered'[c], pending'[c], k + 1, ~lagChanged')
         /\ ~lagChanged' => \A c \in Immediate : pending'[c] = <<>>
         /\ replaying => pending' = pending
<1> USE FeedAssumption
<1>t. /\ delivered \in [Channels -> Seq(Nat)] /\ pending \in [Channels -> Seq(Nat)]
      /\ lagChanged \in BOOLEAN /\ Immediate \subseteq Channels
      /\ \A c \in Channels : delivered[c] \in Seq(Nat) /\ Append(delivered[c], k) \in Seq(Nat)
      /\ \A c \in Channels : pending[c] \in Seq(Nat) /\ Append(pending[c], k) \in Seq(Nat)
  BY AppendExtends DEF FeedType
<1>w. \A c \in Channels : Ordered(delivered[c], pending[c], k + 1, ~lagChanged)
  <2>1. k + 1 \in Nat /\ k <= k + 1
    BY NatGrows, Zenon
  <2>2. (~lagChanged) \in BOOLEAN
    BY Zenon
  <2> QED BY <2>1, <2>2, OrderedWeakens, Zenon
<1>e. ASSUME NEW now \in SUBSET Channels, Emit(k, now)
      PROVE  /\ delivered' \in [Channels -> Seq(Nat)]
             /\ \A c \in Channels :
                  delivered'[c] = IF c \in now THEN Append(delivered[c], k) ELSE delivered[c]
  BY <1>t, <1>e, Zenon DEF Emit
<1>1. CASE replaying /\ Emit(k, {"indexed"}) /\ UNCHANGED <<pending, lagChanged>>
  <2>1. \A c \in Channels : pending[c] = <<>>
    BY <1>1 DEF TimersFit
  <2>2. {"indexed"} \in SUBSET Channels
    BY DEF Channels
  <2>3. ASSUME NEW c \in Channels
        PROVE  Ordered(delivered'[c], pending'[c], k + 1, ~lagChanged')
    <3>1. CASE c = "indexed"
      <4>1. delivered'[c] = Append(delivered[c], k) /\ pending'[c] = pending[c]
        BY <1>1, <1>e, <2>2, <3>1, Zenon
      <4>2. Ordered(Append(delivered[c], k), pending[c], k + 1, ~lagChanged)
        BY <2>1, DeliveringKeeps, Zenon
      <4> QED BY <1>1, <4>1, <4>2
    <3>2. CASE c # "indexed"
      <4>1. delivered'[c] = delivered[c] /\ pending'[c] = pending[c]
        BY <1>1, <1>e, <2>2, <3>2, Zenon
      <4> QED BY <1>1, <1>w, <4>1
    <3> QED BY <3>1, <3>2
  <2> QED BY <1>1, <1>t, <1>e, <2>1, <2>2, <2>3
<1>2. CASE ~replaying /\ ~stopped /\ EmitDelayed(k)
  <2>1. PICK now \in (IF LagsVary THEN SUBSET Channels ELSE {Immediate}) :
          /\ Emit(k, now)
          /\ lagChanged' = (lagChanged \/ now # Immediate)
          /\ pending' = [c \in Channels |-> IF c \in now THEN pending[c]
                                            ELSE Append(pending[c], k)]
    BY <1>2 DEF EmitDelayed
  <2>2. now \in SUBSET Channels
    BY <1>t
  <2>3. /\ delivered' \in [Channels -> Seq(Nat)] /\ pending' \in [Channels -> Seq(Nat)]
        /\ lagChanged' \in BOOLEAN
    BY <1>t, <1>e, <2>1, <2>2, Zenon
  <2>4. ~lagChanged' => ~lagChanged /\ now = Immediate
    BY <2>1
  <2>5. ASSUME ~lagChanged', NEW c \in Immediate
        PROVE  pending'[c] = <<>>
    <3>1. pending'[c] = pending[c] /\ pending[c] = <<>>
      BY <1>t, <2>1, <2>4, <2>5 DEF TimersFit
    <3> QED BY <3>1
  <2>6. ASSUME NEW c \in Channels
        PROVE  Ordered(delivered'[c], pending'[c], k + 1, ~lagChanged')
    <3>a. (~lagChanged) \in BOOLEAN /\ (~lagChanged') \in BOOLEAN
      BY Zenon
    <3>b. k + 1 \in Nat /\ k <= k
      BY NatGrows, Zenon
    <3>0. (~lagChanged) \in BOOLEAN /\ (~lagChanged') \in BOOLEAN /\ k + 1 \in Nat /\ k <= k
      BY <3>a, <3>b, Zenon
    <3>1. CASE c \in now
      <4>1. delivered'[c] = Append(delivered[c], k) /\ pending'[c] = pending[c]
        BY <1>e, <2>1, <2>2, <3>1, Zenon
      <4>2. ~lagChanged' => pending[c] = <<>>
        BY <2>4, <3>1 DEF TimersFit
      <4>3. Ordered(delivered[c], pending[c], k, ~lagChanged')
        BY <2>4, <3>0, OrderedWeakens, Zenon
      <4>4. Ordered(Append(delivered[c], k), pending[c], k + 1, ~lagChanged')
        BY <3>0, <4>2, <4>3, DeliveringKeeps, Zenon
      <4> QED BY <4>1, <4>4
    <3>2. CASE c \notin now
      <4>1. delivered'[c] = delivered[c] /\ pending'[c] = Append(pending[c], k)
        BY <1>e, <2>1, <2>2, <3>2, Zenon
      <4>2. Ordered(delivered[c], pending[c], k, ~lagChanged')
        BY <2>4, <3>0, OrderedWeakens, Zenon
      <4>3. Ordered(delivered[c], Append(pending[c], k), k + 1, ~lagChanged')
        BY <3>0, <4>2, QueueingKeeps, Zenon
      <4> QED BY <4>1, <4>3
    <3> QED BY <3>1, <3>2
  <2> QED BY <1>2, <2>3, <2>5, <2>6
<1>3. CASE ~replaying /\ stopped /\ UNCHANGED <<pending, delivered, lagChanged>>
  BY <1>t, <1>w, <1>3 DEF TimersFit
<1> QED BY <1>1, <1>2, <1>3 DEF HandOn

\* What stays of the frontier while the chain and the range do.
LEMMA LogsUpToUnchanged ==
  ASSUME logs' = logs, NEW b
  PROVE  LogsUpTo(b)' = LogsUpTo(b)
BY DEF LogsUpTo

LEMMA InitInv == Init => IInv
<1> SUFFICES ASSUME Init PROVE IInv
  OBVIOUS
<1>1. FeedType
  <2>1. logs \in Seq(Nat)
    <3>1. PICK n \in 0..1 : logs = [i \in 1..n |-> 0]
      BY DEF Init
    <3> QED BY <3>1
  <2>2. <<>> \in Seq(Nat)
    BY EmptyList
  <2>3. pending \in [Channels -> Seq(Nat)] /\ delivered \in [Channels -> Seq(Nat)]
    BY <2>2 DEF Init
  <2>4. head \in Nat /\ fromBlock \in 0..(head + 1) /\ toBlock \in 0..head
    <3>1. head = 0 /\ fromBlock = 0 /\ toBlock = 0
      BY Zenon DEF Init
    <3> QED BY <3>1
  <2>5. stage \in Stages /\ stopped \in BOOLEAN /\ lagChanged \in BOOLEAN
    BY Zenon DEF Init, Stages
  <2> QED BY <2>1, <2>3, <2>4, <2>5, Zenon DEF FeedType
<1>2. TimersFit
  BY FeedAssumption DEF Init, TimersFit
<1>3. Frontier(0)
  <2>1. seen = 1..0
    BY DEF Init
  <2>2. LogsUpTo(fromBlock - 1) <= 0
    BY <1>1, NoLogsBeforeTheFirstBlock DEF Init, FeedType
  <2>3. ~InRange /\ ~Awaiting
    BY DEF Init, InRange, Awaiting
  <2>4. \A k : Ordered(<<>>, <<>>, k, TRUE)
    BY EmptyList DEF Ordered
  <2>5. \A c \in Channels : Ordered(delivered[c], pending[c], 0 + 1, ~lagChanged)
    BY <2>4 DEF Init
  <2> QED BY <2>1, <2>2, <2>3, <2>5 DEF Frontier
<1> QED BY <1>1, <1>2, <1>3 DEF IInv

\* Awaited logs and logs of a range that is being processed: how the frontier
\* moves when the next log of the range is taken.
LEMMA NextOfRange ==
  ASSUME FeedType, NEW lo \in Nat, NEW hi \in Nat, lo <= hi, todo = Upcoming(lo, hi), todo # <<>>
  PROVE  lo < hi /\ Head(todo) = lo + 1 /\ Tail(todo) = Upcoming(lo + 1, hi) /\ lo + 1 <= hi
<1>1. lo # hi
  BY UpcomingRange, Zenon
<1>2. lo < hi /\ lo + 1 <= hi
  BY <1>1
<1> QED BY <1>2, UpcomingRange, Zenon

LEMMA NextOfInterval ==
  \A f \in Nat : /\ 1..(f + 1) = (1..f) \cup {f + 1}
                 /\ \A lo \in Nat : lo <= f =>
                      /\ lo + 1 \in Nat
                      /\ lo + 1 \in 1..f => lo + 1 <= f
                      /\ lo + 1 \notin 1..f => lo + 1 = f + 1
OBVIOUS

\* Normalizing a log moves the frontier to it at most.
LEMMA NormalizeKeeps ==
  ASSUME IInv, NEW at, NEW await, Normalize(at, await),
         \/ at = "replay" /\ await = "replay await"
         \/ at = "poll" /\ await = "poll await"
  PROVE  IInv'
<1> DEFINE hi == LogsUpTo(toBlock)
<1>1. PICK f \in Nat : Frontier(f)
  BY DEF IInv
<1>2. FeedType /\ TimersFit
  BY DEF IInv
<1>3. /\ InRange /\ ~Awaiting /\ stage = at /\ todo # <<>>
      /\ at = "replay" => stage \in {"replay", "replay await"}
  BY DEF Normalize, InRange, Awaiting
<1>4. hi \in Nat
  BY <1>2, LogsUpToIsNat DEF FeedType
<1>5. PICK lo \in Nat : lo <= f /\ lo <= hi /\ todo = Upcoming(lo, hi)
  BY <1>1, <1>3 DEF Frontier
<1>6. lo < hi /\ Head(todo) = lo + 1 /\ Tail(todo) = Upcoming(lo + 1, hi) /\ lo + 1 <= hi
  BY <1>2, <1>3, <1>4, <1>5, NextOfRange, Zenon
<1> DEFINE k == Head(todo)
<1>7. seen = 1..f /\ (k \in seen => k <= f) /\ (k \notin seen => k = f + 1) /\ k \in Nat
  <2>1. seen = 1..f
    BY <1>1, Zenon DEF Frontier
  <2>2. k = lo + 1
    BY <1>6
  <2>3. /\ lo + 1 \in Nat
        /\ lo + 1 \in 1..f => lo + 1 <= f
        /\ lo + 1 \notin 1..f => lo + 1 = f + 1
    BY <1>5, NextOfInterval, Zenon
  <2> HIDE DEF k
  <2> QED BY <2>1, <2>2, <2>3, Zenon
<1>8. \A c \in Channels : Ordered(delivered[c], pending[c], f + 1, ~lagChanged)
  BY <1>1, <1>3 DEF Frontier
<1>9. /\ logs' = logs /\ head' = head /\ fromBlock' = fromBlock /\ toBlock' = toBlock
      /\ stopped' = stopped
  BY DEF Normalize, chain
<1>10. LogsUpTo(toBlock)' = hi /\ LogsUpTo(fromBlock - 1)' = LogsUpTo(fromBlock - 1)
  BY <1>9 DEF LogsUpTo
<1>11. LogsUpTo(fromBlock - 1) <= f /\ LogsUpTo(fromBlock - 1) \in Nat
  BY <1>1, <1>2, LogsUpToIsNat DEF Frontier, FeedType
<1> HIDE DEF hi, k
<1>12. CASE /\ k \in seen /\ todo' = Tail(todo)
            /\ UNCHANGED <<stage, seen, pending, delivered, lagChanged>>
  <2>1. FeedType' /\ TimersFit'
    BY <1>2, <1>9, <1>12 DEF FeedType, TimersFit
  <2>2. InRange' /\ ~Awaiting'
    BY <1>3, <1>12 DEF InRange, Awaiting
  <2>3. lo + 1 \in Nat /\ lo + 1 <= f /\ lo + 1 <= hi /\ todo' = Upcoming(lo + 1, hi)
    BY <1>6, <1>7, <1>12 DEF k
  <2>4. Frontier(f)'
    BY <1>7, <1>8, <1>10, <1>11, <1>12, <2>2, <2>3 DEF Frontier
  <2> QED BY <2>1, <2>4 DEF IInv
<1>13. CASE /\ k \notin seen /\ seen' = seen \cup {k} /\ todo' = Tail(todo)
            /\ HandOn(k, at = "replay") /\ UNCHANGED stage
  <2>1. /\ pending' \in [Channels -> Seq(Nat)] /\ delivered' \in [Channels -> Seq(Nat)]
        /\ lagChanged' \in BOOLEAN
        /\ \A c \in Channels : Ordered(delivered'[c], pending'[c], k + 1, ~lagChanged')
        /\ ~lagChanged' => \A c \in Immediate : pending'[c] = <<>>
        /\ at = "replay" => pending' = pending
    <3>1. \A c \in Channels : Ordered(delivered[c], pending[c], k, ~lagChanged)
      BY <1>7, <1>8, <1>13
    <3>2. (at = "replay") \in BOOLEAN
      OBVIOUS
    <3> QED BY <1>2, <1>3, <1>7, <1>13, <3>1, <3>2, HandOnKeeps, Zenon
  <2>2. FeedType' /\ TimersFit'
    BY <1>2, <1>3, <1>9, <1>13, <2>1 DEF FeedType, TimersFit
  <2>3. InRange' /\ ~Awaiting'
    BY <1>3, <1>13 DEF InRange, Awaiting
  <2>4. f + 1 \in Nat /\ lo + 1 \in Nat /\ lo + 1 <= f + 1 /\ LogsUpTo(fromBlock - 1) <= f + 1
    BY <1>5, <1>11, NatGrows, Zenon
  <2>a. lo + 1 <= hi /\ todo' = Upcoming(lo + 1, hi) /\ k = f + 1
    BY <1>6, <1>7, <1>13, Zenon DEF k
  <2>b. seen' = 1..(f + 1)
    BY <1>7, <1>13, NextOfInterval, Zenon
  <2>5. Frontier(f + 1)'
    BY <1>10, <2>1, <2>3, <2>4, <2>a, <2>b DEF Frontier
  <2> QED BY <2>2, <2>4, <2>5 DEF IInv
<1>14. CASE /\ k \notin seen /\ seen' = seen \cup {k} /\ stage' = await
            /\ UNCHANGED <<todo, pending, delivered, lagChanged>>
  <2>1. FeedType' /\ TimersFit'
    BY <1>2, <1>3, <1>9, <1>14 DEF FeedType, TimersFit, Stages
  <2>2. ~InRange' /\ Awaiting'
    BY <1>14 DEF InRange, Awaiting
  <2>3. f + 1 \in Nat /\ LogsUpTo(fromBlock - 1) <= f + 1
    BY <1>11, NatGrows, Zenon
  <2>a. lo < hi /\ lo + 1 = f + 1 /\ todo' = Upcoming(lo, hi)
    BY <1>5, <1>6, <1>7, <1>14, Zenon DEF k
  <2>b. seen' = 1..(f + 1)
    BY <1>7, <1>14, NextOfInterval, Zenon
  <2>4. Frontier(f + 1)'
    BY <1>8, <1>10, <1>14, <2>2, <2>3, <2>a, <2>b DEF Frontier
  <2> QED BY <2>1, <2>3, <2>4 DEF IInv
<1> QED BY <1>12, <1>13, <1>14 DEF Normalize, k

\* A block that arrives: the awaited log, the frontier, is handed on.
LEMMA BlockArrivesKeeps ==
  ASSUME IInv, NEW at, NEW await, BlockArrives(at, await),
         \/ at = "replay" /\ await = "replay await"
         \/ at = "poll" /\ await = "poll await"
  PROVE  IInv'
<1> DEFINE hi == LogsUpTo(toBlock)
<1>1. PICK f \in Nat : Frontier(f)
  BY DEF IInv
<1>2. FeedType /\ TimersFit
  BY DEF IInv
<1>3. /\ Awaiting /\ stage = await /\ stage' = at /\ todo' = Tail(todo)
      /\ HandOn(Head(todo), at = "replay")
      /\ at = "replay" => stage \in {"replay", "replay await"}
  BY DEF BlockArrives, Awaiting
<1>4. hi \in Nat
  BY <1>2, LogsUpToIsNat DEF FeedType
<1>5. PICK lo \in Nat : lo + 1 = f /\ lo < hi /\ todo = Upcoming(lo, hi)
  BY <1>1, <1>3 DEF Frontier
<1>6. Head(todo) = f /\ Tail(todo) = Upcoming(f, hi) /\ f <= hi
  <2>1. lo <= hi /\ lo + 1 <= hi
    BY <1>4, <1>5, NatGrows, Zenon
  <2>2. Head(todo) = lo + 1 /\ Tail(todo) = Upcoming(lo + 1, hi)
    BY <1>4, <1>5, <2>1, UpcomingRange, Zenon
  <2> QED BY <1>5, <2>1, <2>2, Zenon
<1>7. \A c \in Channels : Ordered(delivered[c], pending[c], f, ~lagChanged)
  BY <1>1, <1>3 DEF Frontier
<1>8. /\ logs' = logs /\ head' = head /\ fromBlock' = fromBlock /\ toBlock' = toBlock
      /\ stopped' = stopped /\ seen' = seen
  BY DEF BlockArrives, chain
<1>9. LogsUpTo(toBlock)' = hi /\ LogsUpTo(fromBlock - 1)' = LogsUpTo(fromBlock - 1)
  BY <1>8 DEF LogsUpTo
<1>10. LogsUpTo(fromBlock - 1) <= f /\ seen = 1..f
  BY <1>1, Zenon DEF Frontier
<1> HIDE DEF hi
<1>11. /\ pending' \in [Channels -> Seq(Nat)] /\ delivered' \in [Channels -> Seq(Nat)]
       /\ lagChanged' \in BOOLEAN
       /\ \A c \in Channels : Ordered(delivered'[c], pending'[c], f + 1, ~lagChanged')
       /\ ~lagChanged' => \A c \in Immediate : pending'[c] = <<>>
       /\ at = "replay" => pending' = pending
  <2>1. (at = "replay") \in BOOLEAN
    OBVIOUS
  <2>2. ~(at = "replay") \/ stage \in {"replay", "replay await"}
    BY <1>3
  <2>3. HandOn(f, at = "replay")
    BY <1>3, <1>6, Zenon
  <2> QED BY <1>2, <1>7, <2>1, <2>2, <2>3, HandOnKeeps, Zenon
<1>12. FeedType' /\ TimersFit'
  BY <1>2, <1>3, <1>8, <1>11 DEF FeedType, TimersFit, Stages
<1>13. InRange' /\ ~Awaiting'
  BY <1>3 DEF InRange, Awaiting
<1>14. f <= f
  BY NatGrows, Zenon
<1>15. Frontier(f)'
  BY <1>3, <1>6, <1>8, <1>9, <1>10, <1>11, <1>13, <1>14 DEF Frontier
<1> QED BY <1>12, <1>15 DEF IInv

\* A range that is left: given up, or done with.
LEMMA LeavingARangeKeeps ==
  ASSUME IInv,
         UNCHANGED <<logs, head, seen, pending, delivered, stopped, lagChanged>>,
         stage' \in {"idle", "fetch", "dead"}, toBlock' \in 0..head,
         \/ fromBlock' = fromBlock
         \/ InRange /\ todo = <<>> /\ fromBlock' = toBlock + 1
  PROVE  IInv'
<1>1. PICK f \in Nat : Frontier(f)
  BY DEF IInv
<1>2. FeedType /\ TimersFit
  BY DEF IInv
<1>3. FeedType' /\ TimersFit'
  <2>1. fromBlock' \in 0..(head' + 1) /\ toBlock' \in 0..head'
    BY <1>2 DEF FeedType
  <2>2. stage' \in Stages
    BY DEF Stages
  <2>3. FeedType'
    BY <1>2, <2>1, <2>2, Zenon DEF FeedType
  <2>4. TimersFit'
    BY <1>2 DEF TimersFit
  <2> QED BY <2>3, <2>4
<1>4. ~InRange' /\ ~Awaiting'
  BY DEF InRange, Awaiting
<1>5. LogsUpTo(fromBlock - 1)' <= f
  <2>1. CASE fromBlock' = fromBlock
    BY <1>1, <2>1 DEF Frontier, LogsUpTo
  <2>2. CASE InRange /\ todo = <<>> /\ fromBlock' = toBlock + 1
    <3>1. LogsUpTo(toBlock) \in Nat
      BY <1>2, LogsUpToIsNat DEF FeedType
    <3>2. PICK lo \in Nat : lo <= f /\ lo <= LogsUpTo(toBlock) /\ todo = Upcoming(lo, LogsUpTo(toBlock))
      BY <1>1, <2>2 DEF Frontier
    <3>3. lo = LogsUpTo(toBlock)
      BY <2>2, <3>1, <3>2, UpcomingRange, Zenon
    <3>4. fromBlock' - 1 = toBlock
      BY <1>2, <2>2 DEF FeedType
    <3>5. LogsUpTo(fromBlock - 1)' = LogsUpTo(toBlock)
      BY <3>4 DEF LogsUpTo
    <3> QED BY <3>2, <3>3, <3>5
  <2> QED BY <2>1, <2>2
<1>6. ASSUME NEW c \in Channels
      PROVE  Ordered(delivered'[c], pending'[c], f + 1, ~lagChanged')
  <2>1. CASE Awaiting
    <3>1. Ordered(delivered[c], pending[c], f, ~lagChanged)
      BY <1>1, <2>1 DEF Frontier
    <3>2. (~lagChanged) \in BOOLEAN
      BY Zenon
    <3>3. Ordered(delivered[c], pending[c], f + 1, ~lagChanged)
      BY <3>1, <3>2, NatGrows, OrderedWeakens, Zenon
    <3> QED BY <3>3
  <2>2. CASE ~Awaiting
    BY <1>1, <2>2 DEF Frontier
  <2> QED BY <2>1, <2>2
<1>7. Frontier(f)'
  <2>1. seen' = 1..f
    BY <1>1 DEF Frontier
  <2> QED BY <1>4, <1>5, <1>6, <2>1 DEF Frontier
<1> QED BY <1>3, <1>7 DEF IInv

\* A range that is entered: the logs from the first block not polled yet.
LEMMA EnteringARangeKeeps ==
  ASSUME IInv, ~InRange, ~Awaiting,
         UNCHANGED <<logs, head, fromBlock, seen, pending, delivered, stopped, lagChanged>>,
         stage' = "poll" \/ (stage = "start" /\ stage' = "replay"),
         toBlock' = head, todo' = GetLogs(fromBlock, head)
  PROVE  IInv'
<1>1. PICK f \in Nat : Frontier(f)
  BY DEF IInv
<1>2. FeedType /\ TimersFit
  BY DEF IInv
<1>3. FeedType' /\ TimersFit'
  <2>1. toBlock' \in 0..head'
    BY <1>2 DEF FeedType
  <2>2. stage' \in Stages
    BY DEF Stages
  <2>3. FeedType'
    BY <1>2, <2>1, <2>2, Zenon DEF FeedType
  <2>4. TimersFit'
    BY <1>2 DEF TimersFit
  <2> QED BY <2>3, <2>4
<1>4. InRange' /\ ~Awaiting'
  BY DEF InRange, Awaiting
<1> DEFINE lo == LogsUpTo(fromBlock - 1)
           hi == LogsUpTo(head)
<1>5. lo \in Nat /\ hi \in Nat /\ lo <= hi
  <2>1. fromBlock - 1 \in Int /\ head \in Int /\ fromBlock - 1 <= head /\ logs \in Seq(Nat)
    BY <1>2 DEF FeedType
  <2> QED BY <2>1, LogsUpToIsNat, LogsUpToIsMonotone
<1>6. todo' = Upcoming(lo, hi)
  BY GetLogsIsUpcoming
<1>7. LogsUpTo(toBlock)' = hi /\ LogsUpTo(fromBlock - 1)' = lo
  BY DEF LogsUpTo
<1>8. lo <= f /\ seen = 1..f
  BY <1>1 DEF Frontier
<1>9. \A c \in Channels : Ordered(delivered[c], pending[c], f + 1, ~lagChanged)
  BY <1>1 DEF Frontier
<1> HIDE DEF lo, hi
<1>10. Frontier(f)'
  BY <1>4, <1>5, <1>6, <1>7, <1>8, <1>9 DEF Frontier
<1> QED BY <1>3, <1>10 DEF IInv

\* A block mined is above every range.
LEMMA MiningKeeps ==
  ASSUME IInv, MineBlock
  PROVE  IInv'
<1>1. PICK f \in Nat : Frontier(f)
  BY DEF IInv
<1>2. FeedType /\ TimersFit
  BY DEF IInv
<1>3. /\ logs' \in Seq(Nat) /\ head' = head + 1
      /\ \A b \in Int : b <= head => LogsUpTo(b)' = LogsUpTo(b)
  BY <1>2, MiningKeepsLogsUpTo DEF FeedType
<1>4. /\ UNCHANGED <<stage, fromBlock, toBlock, todo, seen, pending, delivered, stopped>>
      /\ lagChanged' = lagChanged
  BY DEF MineBlock, histories
<1>5. FeedType' /\ TimersFit'
  <2>1. head' \in Nat /\ fromBlock' \in 0..(head' + 1) /\ toBlock' \in 0..head'
    BY <1>2, <1>3, <1>4 DEF FeedType
  <2>2. FeedType'
    BY <1>2, <1>3, <1>4, <2>1, Zenon DEF FeedType
  <2>3. TimersFit'
    BY <1>2, <1>4 DEF TimersFit
  <2> QED BY <2>2, <2>3
<1>6. (InRange' <=> InRange) /\ (Awaiting' <=> Awaiting)
  BY <1>4 DEF InRange, Awaiting
<1>7. LogsUpTo(toBlock)' = LogsUpTo(toBlock) /\ LogsUpTo(fromBlock - 1)' = LogsUpTo(fromBlock - 1)
  <2>1. toBlock \in Int /\ toBlock <= head /\ fromBlock - 1 \in Int /\ fromBlock - 1 <= head
    BY <1>2 DEF FeedType
  <2>2. LogsUpTo(toBlock)' = Cardinality({i \in DOMAIN logs' : logs'[i] <= toBlock})
    BY <1>4 DEF LogsUpTo
  <2>3. LogsUpTo(fromBlock - 1)' = Cardinality({i \in DOMAIN logs' : logs'[i] <= fromBlock - 1})
    BY <1>4 DEF LogsUpTo
  <2>4. \A b \in Int : b <= head => Cardinality({i \in DOMAIN logs' : logs'[i] <= b}) = LogsUpTo(b)
    BY <1>3 DEF LogsUpTo
  <2> QED BY <2>1, <2>2, <2>3, <2>4, Zenon
<1>8. Frontier(f)'
  BY <1>1, <1>4, <1>6, <1>7 DEF Frontier
<1> QED BY <1>5, <1>8 DEF IInv

\* A timer fires.
LEMMA FireKeeps ==
  ASSUME IInv, NEW c \in Channels, NEW n \in 1..MaxLogs, Fire(c, n)
  PROVE  IInv'
<1>1. PICK f \in Nat : Frontier(f)
  BY DEF IInv
<1>2. FeedType /\ TimersFit
  BY DEF IInv
<1>3. /\ n \in 1..Len(pending[c])
      /\ pending' = [pending EXCEPT ![c] = RemoveAt(@, n)]
      /\ delivered' = [delivered EXCEPT ![c] = Append(@, pending[c][n])]
      /\ lagChanged' = (lagChanged \/ n # 1)
      /\ UNCHANGED <<logs, head, stage, fromBlock, toBlock, todo, seen, stopped>>
  BY DEF Fire, chain
<1>4. /\ pending \in [Channels -> Seq(Nat)] /\ delivered \in [Channels -> Seq(Nat)]
      /\ lagChanged \in BOOLEAN /\ lagChanged' \in BOOLEAN
  BY <1>2, <1>3 DEF FeedType
<1>5. /\ pending[c] \in Seq(Nat) /\ delivered[c] \in Seq(Nat) /\ pending[c] # <<>>
      /\ pending[c][n] \in Nat
  BY <1>3, <1>4
<1> DEFINE p == RemoveAt(pending[c], n)
           d == Append(delivered[c], pending[c][n])
<1>6. p \in Seq(Nat) /\ d \in Seq(Nat)
  BY <1>3, <1>5, AppendExtends, RemoveAtShrinks
<1>7. /\ pending' = [pending EXCEPT ![c] = p]
      /\ delivered' = [delivered EXCEPT ![c] = d]
  BY <1>3
<1> HIDE DEF p, d
<1>8. /\ pending' \in [Channels -> Seq(Nat)] /\ delivered' \in [Channels -> Seq(Nat)]
      /\ pending'[c] = p /\ delivered'[c] = d
      /\ \A e \in Channels : e # c => pending'[e] = pending[e] /\ delivered'[e] = delivered[e]
  BY <1>4, <1>6, <1>7, Zenon
<1>9. ~lagChanged' => ~lagChanged /\ n = 1
  BY <1>3
<1>10. FeedType'
  BY <1>2, <1>3, <1>4, <1>8, Zenon DEF FeedType
<1>11. TimersFit'
  <2>1. stage' \notin {"start", "replay", "replay await"}
    BY <1>2, <1>3, <1>5 DEF TimersFit
  <2>2. ASSUME ~lagChanged', NEW e \in Immediate
        PROVE  pending'[e] = <<>>
    <3>1. e \in Channels /\ pending[e] = <<>>
      BY <1>2, <1>9, <2>2, FeedAssumption DEF TimersFit
    <3>2. e # c
      BY <1>5, <3>1
    <3> QED BY <1>8, <3>1, <3>2, Zenon
  <2> QED BY <2>1, <2>2 DEF TimersFit
<1> DEFINE k == IF Awaiting THEN f ELSE f + 1
<1>12. k \in Nat /\ k <= k
  BY NatGrows
<1>13. \A e \in Channels : Ordered(delivered[e], pending[e], k, ~lagChanged)
  BY <1>1, Zenon DEF Frontier
<1> HIDE DEF k
<1>14. ASSUME NEW e \in Channels
       PROVE  Ordered(delivered'[e], pending'[e], k, ~lagChanged')
  <2>1. (~lagChanged) \in BOOLEAN /\ (~lagChanged') \in BOOLEAN
    BY Zenon
  <2>2. CASE e = c
    <3>1. Ordered(d, p, k, ~lagChanged /\ n = 1)
      BY <1>3, <1>12, <1>13, <2>1, FiringKeeps, Zenon DEF d, p
    <3>2. (~lagChanged /\ n = 1) \in BOOLEAN
      BY Zenon
    <3>3. Ordered(d, p, k, ~lagChanged')
      BY <1>9, <1>12, <2>1, <3>1, <3>2, OrderedWeakens, Zenon
    <3> QED BY <1>8, <2>2, <3>3, Zenon
  <2>3. CASE e # c
    <3>1. Ordered(delivered[e], pending[e], k, ~lagChanged')
      BY <1>9, <1>12, <1>13, <2>1, OrderedWeakens, Zenon
    <3> QED BY <1>8, <2>3, <3>1, Zenon
  <2> QED BY <2>2, <2>3
<1>15. /\ (InRange' <=> InRange) /\ (Awaiting' <=> Awaiting)
       /\ LogsUpTo(toBlock)' = LogsUpTo(toBlock)
       /\ LogsUpTo(fromBlock - 1)' = LogsUpTo(fromBlock - 1)
  BY <1>3 DEF InRange, Awaiting, LogsUpTo
<1>16. Frontier(f)'
  BY <1>1, <1>3, <1>14, <1>15 DEF Frontier, k
<1> QED BY <1>10, <1>11, <1>16 DEF IInv

\* The timers are cleared.
LEMMA StopKeeps ==
  ASSUME IInv, Stop
  PROVE  IInv'
<1>1. PICK f \in Nat : Frontier(f)
  BY DEF IInv
<1>2. FeedType /\ TimersFit
  BY DEF IInv
<1>3. /\ stopped' = TRUE /\ pending' = [c \in Channels |-> <<>>]
      /\ stage' = IF stage = "idle" THEN "dead" ELSE stage
      /\ UNCHANGED <<logs, head, fromBlock, toBlock, todo, seen, delivered, lagChanged>>
  BY DEF Stop, chain, histories
<1>4. pending' \in [Channels -> Seq(Nat)] /\ \A c \in Channels : pending'[c] = <<>>
  BY <1>3, EmptyList, Zenon
<1>5. stage' \in Stages /\ (stage' = stage \/ (stage = "idle" /\ stage' = "dead"))
  <2>1. stage \in Stages
    BY <1>2 DEF FeedType
  <2>2. CASE stage = "idle"
    BY <1>3, <2>2 DEF Stages
  <2>3. CASE stage # "idle"
    <3>1. stage' = stage
      BY <1>3, <2>3, Zenon
    <3> QED BY <2>1, <3>1, Zenon
  <2> QED BY <2>2, <2>3
<1>6. FeedType'
  BY <1>2, <1>3, <1>4, <1>5, Zenon DEF FeedType
<1>7. TimersFit'
  BY <1>2, <1>3, <1>4, <1>5, FeedAssumption DEF TimersFit
<1>8. /\ (InRange' <=> InRange) /\ (Awaiting' <=> Awaiting)
      /\ LogsUpTo(toBlock)' = LogsUpTo(toBlock)
      /\ LogsUpTo(fromBlock - 1)' = LogsUpTo(fromBlock - 1)
  BY <1>3, <1>5 DEF InRange, Awaiting, LogsUpTo
<1> DEFINE k == IF Awaiting THEN f ELSE f + 1
<1>9. \A c \in Channels : Ordered(delivered[c], pending[c], k, ~lagChanged) /\ k \in Nat
  BY <1>1, NatGrows DEF Frontier
<1> HIDE DEF k
<1>10. ASSUME NEW c \in Channels
       PROVE  Ordered(delivered'[c], pending'[c], k, ~lagChanged')
  <2>1. (~lagChanged) \in BOOLEAN
    BY Zenon
  <2>2. Ordered(delivered[c], <<>>, k, ~lagChanged)
    BY <1>9, <2>1, ClearingKeeps, Zenon
  <2> QED BY <1>3, <1>4, <2>2
<1>11. Frontier(f)'
  BY <1>1, <1>3, <1>8, <1>10 DEF Frontier, k
<1> QED BY <1>6, <1>7, <1>11 DEF IInv

LEMMA StepInv == IInv /\ [Next]_vars => IInv'
<1> SUFFICES ASSUME IInv, [Next]_vars PROVE IInv'
  OBVIOUS
<1> USE DEF chain, histories
<1>0. FeedType
  BY DEF IInv
<1>t. head \in 0..head /\ NextStage \in {"idle", "dead"}
  BY <1>0 DEF FeedType, NextStage
<1>1. CASE MineBlock
  BY <1>1, MiningKeeps
<1>2. CASE Start
  <2>1. CASE stopped
    BY <1>2, <1>t, <2>1, LeavingARangeKeeps DEF Start
  <2>2. CASE ~stopped
    <3>1. /\ stage = "start" /\ stage' = "replay" /\ toBlock' = head
          /\ todo' = GetLogs(0, head) /\ fromBlock = 0
          /\ UNCHANGED <<logs, head, fromBlock, seen, pending, delivered, stopped, lagChanged>>
      BY <1>2, <2>2 DEF Start, IInv, TimersFit
    <3>2. ~InRange /\ ~Awaiting
      BY <3>1 DEF InRange, Awaiting
    <3> QED BY <3>1, <3>2, EnteringARangeKeeps
  <2> QED BY <2>1, <2>2
<1>3. CASE Normalize("replay", "replay await")
  BY <1>3, NormalizeKeeps
<1>4. CASE Normalize("poll", "poll await")
  BY <1>4, NormalizeKeeps
<1>5. CASE BlockArrives("replay", "replay await")
  BY <1>5, BlockArrivesKeeps
<1>6. CASE BlockArrives("poll", "poll await")
  BY <1>6, BlockArrivesKeeps
<1>r. toBlock \in 0..head
  BY <1>0 DEF FeedType
<1>7. CASE ReplayDone
  BY <1>7, <1>r, LeavingARangeKeeps DEF ReplayDone, InRange
<1>8. CASE PollTimer
  BY <1>8, <1>r, LeavingARangeKeeps DEF PollTimer
<1>9. CASE Poll
  <2>1. CASE head >= fromBlock
    <3>1. /\ stage = "fetch" /\ stage' = "poll" /\ toBlock' = head
          /\ todo' = GetLogs(fromBlock, head)
          /\ UNCHANGED <<logs, head, fromBlock, seen, pending, delivered, stopped, lagChanged>>
      BY <1>9, <2>1 DEF Poll
    <3>2. ~InRange /\ ~Awaiting
      BY <3>1 DEF InRange, Awaiting
    <3> QED BY <3>1, <3>2, EnteringARangeKeeps
  <2>2. CASE ~(head >= fromBlock)
    BY <1>9, <1>t, <1>r, <2>2, LeavingARangeKeeps DEF Poll
  <2> QED BY <2>1, <2>2
<1>10. CASE PollDone
  BY <1>10, <1>t, <1>r, LeavingARangeKeeps DEF PollDone, InRange
<1>11. CASE StartFails
  BY <1>11, <1>r, LeavingARangeKeeps DEF StartFails
<1>12. CASE BlockFails
  BY <1>12, <1>t, <1>r, LeavingARangeKeeps DEF BlockFails
<1>13. CASE PollFails
  BY <1>13, <1>t, <1>r, LeavingARangeKeeps DEF PollFails
<1>14. CASE Stop
  BY <1>14, StopKeeps
<1>15. ASSUME NEW c \in Channels, NEW n \in 1..MaxLogs, Fire(c, n)
       PROVE  IInv'
  BY <1>15, FireKeeps
<1>16. CASE UNCHANGED vars
  <2>1. FeedType' /\ TimersFit'
    BY <1>16 DEF vars, IInv, FeedType, TimersFit
  <2>2. PICK f \in Nat : Frontier(f)
    BY DEF IInv
  <2>3. Frontier(f)'
    BY <1>16, <2>2 DEF vars, Frontier, InRange, Awaiting, LogsUpTo
  <2> QED BY <2>1, <2>3 DEF IInv
<1> QED
  BY <1>1, <1>2, <1>3, <1>4, <1>5, <1>6, <1>7, <1>8, <1>9, <1>10, <1>11, <1>12, <1>13, <1>14,
     <1>15, <1>16 DEF Next, Feed

-----------------------------------------------------------------------------
\* The frontier is an invariant of the feed.
THEOREM FeedInvariant == Spec => []IInv
BY InitInv, StepInv, PTL DEF Spec

\* No log is handed on twice on a channel, however often its range is polled
\* again: createSessionEventFeed's normalize(), poll() and emitDelayed() together.
\* A channel keeps the order of the chain only until an event is given another lag
\* than those before it: from then on the order is not claimed, and the code does
\* not keep it.
THEOREM NoLogTwiceInOrderWhileLagsStay == Spec => []OnceAndInOrder
<1>1. IInv => OnceAndInOrder
  <2> SUFFICES ASSUME IInv, NEW c \in Channels
               PROVE  \A m, n \in 1..Len(delivered[c] \o pending[c]) :
                        m < n => /\ (delivered[c] \o pending[c])[m] # (delivered[c] \o pending[c])[n]
                                 /\ \/ lagChanged
                                    \/ (delivered[c] \o pending[c])[m] < (delivered[c] \o pending[c])[n]
    BY DEF OnceAndInOrder
  <2>1. PICK f \in Nat : Frontier(f)
    BY DEF IInv
  <2>2. PICK k \in Nat : Ordered(delivered[c], pending[c], k, ~lagChanged)
    BY <2>1, NatGrows DEF Frontier
  <2>3. (~lagChanged) \in BOOLEAN
    BY Zenon
  <2> HIDE DEF Ordered
  <2> QED BY <2>2, <2>3, OrderedIsOnce, Zenon
<1> QED BY <1>1, FeedInvariant, PTL

\* After stop() no timer and no poll hands anything on, whatever the coroutine was
\* waiting for.  A replay under way does: start() asks once whether it was stopped,
\* before the loop that emits the history on the indexed channel.
THEOREM OnlyAReplayOutlivesStop == Spec => SilentAfterStop
<1>1. IInv /\ [Next]_vars =>
        [stopped => /\ delivered'["flashblock"] = delivered["flashblock"]
                    /\ delivered'["indexed"] # delivered["indexed"] =>
                         stage \in {"replay", "replay await"}]_vars
  <2> SUFFICES ASSUME IInv, [Next]_vars, stopped
               PROVE  /\ delivered'["flashblock"] = delivered["flashblock"]
                      /\ delivered'["indexed"] # delivered["indexed"] =>
                           stage \in {"replay", "replay await"}
    OBVIOUS
  <2>1. ASSUME NEW k, NEW replaying \in BOOLEAN, HandOn(k, replaying)
        PROVE  /\ delivered'["flashblock"] = delivered["flashblock"]
               /\ replaying \/ delivered' = delivered
    BY <2>1 DEF HandOn, Emit, Channels
  <2>2. CASE Normalize("replay", "replay await") \/ BlockArrives("replay", "replay await")
    BY <2>1, <2>2 DEF Normalize, BlockArrives
  <2>3. CASE Normalize("poll", "poll await") \/ BlockArrives("poll", "poll await")
    BY <2>1, <2>3 DEF Normalize, BlockArrives
  <2>4. CASE \E c \in Channels, n \in 1..MaxLogs : Fire(c, n)
    BY <2>4 DEF Fire
  <2>5. CASE UNCHANGED delivered
    BY <2>5
  <2> QED BY <2>2, <2>3, <2>4, <2>5
       DEF Next, Feed, MineBlock, Start, ReplayDone, PollTimer, Poll, PollDone, StartFails,
           BlockFails, PollFails, Stop, vars
<1> QED BY <1>1, FeedInvariant, PTL DEF Spec, SilentAfterStop

=============================================================================
