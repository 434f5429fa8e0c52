--------------------------- MODULE RecursionLemmas ---------------------------
(***************************************************************************)
(* Induction and recursion over the natural numbers, stated for sets and   *)
(* functions instead of operators, and sums over finite sets: what the     *)
(* proofs about the sequences and running sums of the models are built on. *)
(***************************************************************************)
EXTENDS Integers, Sequences, FiniteSets, FiniteSetTheorems, WellFoundedInduction, TLAPS

\* A set with a well-founded relation has a minimal element, the form of WFMin
\* the lemmas below cite.
LEMMA MinimalElement ==
  ASSUME NEW R, NEW S, IsWellFoundedOn(R, S), NEW T \in SUBSET S, T # {}
  PROVE  \E n \in T : \A m \in T : ~ (<<m, n>> \in R)
  BY WFMin

LEMMA LeastOfRelation ==
  ASSUME NEW R, IsWellFoundedOn(R, Nat),
         \A p \in Nat, q \in Nat : p < q => <<p, q>> \in R,
         NEW T \in SUBSET Nat, T # {}
  PROVE  \E n \in T : \A m \in T : n <= m
<1>1. PICK n \in T : \A m \in T : ~ (<<m, n>> \in R)
  BY MinimalElement, Zenon
<1>2. ASSUME NEW m \in T PROVE n <= m
  <2>1. m \in Nat /\ n \in Nat
    OBVIOUS
  <2>2. ~ (m < n)
    BY <1>1, <2>1, Zenon
  <2> QED
    BY <2>1, <2>2
<1> QED
  BY <1>2

\* The least number principle.
LEMMA LeastElement ==
  \A T \in SUBSET Nat : T # {} => \E n \in T : \A m \in T : n <= m
<1>1. \A p \in Nat, q \in Nat : p < q => <<p, q>> \in OpToRel(<, Nat)
  BY DEF OpToRel
<1> QED
  BY <1>1, LeastOfRelation, NatLessThanWellFounded

\* Induction up to a bound, for a set of numbers.
LEMMA IntervalInduction ==
  ASSUME NEW n \in Nat, NEW T,
         0 \in T, \A i \in Nat : i < n /\ i \in T => i + 1 \in T
  PROVE  \A i \in 0 .. n : i \in T
<1> DEFINE Missing == {i \in 0 .. n : i \notin T}
<1> SUFFICES ASSUME Missing # {} PROVE FALSE
  OBVIOUS
<1>1. Missing \in SUBSET Nat
  OBVIOUS
<1> HIDE DEF Missing
<1>2. PICK k \in Missing : \A m \in Missing : k <= m
  BY <1>1, LeastElement
<1>3. k \in 0 .. n /\ k \notin T
  BY DEF Missing
<1>4. k # 0
  BY <1>3
<1>5. k - 1 \in 0 .. n /\ k - 1 \notin Missing
  BY <1>2, <1>3, <1>4
<1>6. k - 1 \in T
  BY <1>5 DEF Missing
<1>7. (k - 1) + 1 \in T
  BY <1>3, <1>4, <1>6
<1> QED
  BY <1>3, <1>7

\* Induction over all natural numbers, for a set of numbers.
LEMMA SetInduction ==
  ASSUME NEW T, 0 \in T, \A i \in Nat : i \in T => i + 1 \in T
  PROVE  \A n \in Nat : n \in T
<1> SUFFICES ASSUME NEW n \in Nat PROVE n \in T
  OBVIOUS
<1>1. \A i \in 0 .. n : i \in T
  BY IntervalInduction
<1> QED
  BY <1>1

\* The values of a recursion over 0 .. n in S: step[i] leads from the value at
\* i - 1 to the one at i.
Steps(n, S) == [1 .. n -> [S -> S]]
Recursion(f, a, n, S, step) ==
  /\ f \in [0 .. n -> S]
  /\ f[0] = a
  /\ \A i \in 1 .. n : f[i] = step[i][f[i - 1]]

\* A function may be defined by recursion up to a bound.
LEMMA RecursionUpTo ==
  ASSUME NEW n \in Nat, NEW S, NEW a \in S, NEW step \in Steps(n, S)
  PROVE  \E f : Recursion(f, a, n, S, step)
<1> DEFINE Partial(m, f) == f[0] = a /\ \A i \in 1 .. m : f[i] = step[i][f[i - 1]]
           Defined == {m \in 0 .. n : \E f \in [0 .. m -> S] : Partial(m, f)}
<1>1. 0 \in Defined
  <2>1. [i \in 0 .. 0 |-> a] \in [0 .. 0 -> S] /\ Partial(0, [i \in 0 .. 0 |-> a])
    OBVIOUS
  <2>2. 0 \in 0 .. n
    OBVIOUS
  <2> HIDE DEF Partial
  <2> QED
    BY <2>1, <2>2
<1>2. ASSUME NEW m \in Nat, m < n, m \in Defined
      PROVE  m + 1 \in Defined
  <2>1. PICK f \in [0 .. m -> S] : Partial(m, f)
    BY <1>2
  <2> DEFINE g == [i \in 0 .. (m + 1) |-> IF i = m + 1 THEN step[m + 1][f[m]] ELSE f[i]]
  <2>2. m + 1 \in 1 .. n /\ m \in 0 .. m
    BY <1>2
  <2>3. step[m + 1][f[m]] \in S
    BY <2>2 DEF Steps
  <2>4. g \in [0 .. (m + 1) -> S]
    BY <2>3
  <2>5. g[0] = a
    BY <2>1
  <2>6. ASSUME NEW i \in 1 .. (m + 1)
        PROVE  g[i] = step[i][g[i - 1]]
    <3>1. CASE i = m + 1
      BY <3>1
    <3>2. CASE i # m + 1
      <4>1. i \in 1 .. m /\ i - 1 \in 0 .. m /\ i - 1 # m + 1 /\ i - 1 \in 0 .. (m + 1)
        BY <3>2
      <4>2. g[i] = f[i] /\ g[i - 1] = f[i - 1]
        BY <4>1, <3>2
      <4> QED
        BY <2>1, <4>1, <4>2
    <3> QED
      BY <3>1, <3>2
  <2> HIDE DEF g
  <2>7. Partial(m + 1, g)
    BY <2>5, <2>6
  <2>8. m + 1 \in 0 .. n
    BY <1>2
  <2> HIDE DEF Partial
  <2> QED
    BY <2>4, <2>7, <2>8
<1> HIDE DEF Defined
<1>3. \A i \in 0 .. n : i \in Defined
  BY <1>1, <1>2, IntervalInduction
<1>4. PICK f \in [0 .. n -> S] : Partial(n, f)
  BY <1>3 DEF Defined
<1> QED
  BY <1>4 DEF Recursion

Alike(f, g, n) == \A i \in 0 .. n : f[i] = g[i]
StaysAlike(f, g, n) ==
  f[0] = g[0] /\ \A i \in 1 .. n : f[i - 1] = g[i - 1] => f[i] = g[i]

\* Two functions that start alike and of which each step keeps them alike.
LEMMA SameFromZero ==
  ASSUME NEW n \in Nat, NEW f, NEW g, StaysAlike(f, g, n)
  PROVE  Alike(f, g, n)
<1> DEFINE Same == {i \in 0 .. n : f[i] = g[i]}
<1>1. 0 \in Same
  BY DEF StaysAlike
<1>2. ASSUME NEW i \in Nat, i < n, i \in Same
      PROVE  i + 1 \in Same
  <2>1. i + 1 \in 1 .. n /\ i + 1 \in 0 .. n /\ (i + 1) - 1 = i
    BY <1>2
  <2>2. f[i + 1] = g[i + 1]
    BY <1>2, <2>1 DEF StaysAlike
  <2> QED
    BY <2>1, <2>2
<1> HIDE DEF Same
<1>3. \A i \in 0 .. n : i \in Same
  BY <1>1, <1>2, IntervalInduction
<1> QED
  BY <1>3 DEF Same, Alike

-----------------------------------------------------------------------------
(* Sums over finite sets.                                                   *)

\* What a recursion over the subsets of S yields that takes one element at a
\* time off a set: ch[t] is the one taken off t, step[x] what it does.
Chooses(ch, S) == \A t \in SUBSET S : t # {} => ch[t] \in t
SetStep(f, t, a, ch, step) == IF t = {} THEN a ELSE step[ch[t]][f[t \ {ch[t]}]]
OverSubsets(f, S, a, ch, step) == \A t \in SUBSET S : f[t] = SetStep(f, t, a, ch, step)

\* A function may be defined on the subsets of a finite set in this way.
LEMMA SetRecursion ==
  ASSUME NEW S, IsFiniteSet(S), NEW V, NEW a \in V,
         NEW ch, Chooses(ch, S), NEW step \in [S -> [V -> V]]
  PROVE  \E f \in [SUBSET S -> V] : OverSubsets(f, S, a, ch, step)
<1> DEFINE n == Cardinality(S)
           W == [SUBSET S -> V]
           Round == [i \in 1 .. n |-> [g \in W |-> [t \in SUBSET S |-> SetStep(g, t, a, ch, step)]]]
           start == [t \in SUBSET S |-> a]
<1>1. n \in Nat /\ \A t \in SUBSET S : IsFiniteSet(t) /\ Cardinality(t) \in Nat /\ Cardinality(t) <= n
  BY FS_CardinalityType, FS_Subset
<1>2. \A g \in W, t \in SUBSET S : SetStep(g, t, a, ch, step) \in V
  <2> SUFFICES ASSUME NEW g \in W, NEW t \in SUBSET S PROVE SetStep(g, t, a, ch, step) \in V
    OBVIOUS
  <2>1. CASE t = {}
    BY <2>1 DEF SetStep
  <2>2. CASE t # {}
    <3>1. ch[t] \in S /\ g[t \ {ch[t]}] \in V
      BY <2>2 DEF Chooses
    <3> QED BY <2>2, <3>1 DEF SetStep
  <2> QED BY <2>1, <2>2
<1>3. Round \in Steps(n, W) /\ start \in W
  <2> HIDE DEF n
  <2>1. \A g \in W : [t \in SUBSET S |-> SetStep(g, t, a, ch, step)] \in W
    BY <1>2
  <2>2. start \in W
    OBVIOUS
  <2> HIDE DEF W, start
  <2> QED BY <2>1, <2>2 DEF Steps
<1>4. PICK G : Recursion(G, start, n, W, Round)
  <2> HIDE DEF n, W, Round, start
  <2> QED BY <1>1, <1>3, RecursionUpTo
<1>5. /\ \A i \in 0 .. n : G[i] \in W
      /\ \A t \in SUBSET S : G[0][t] = a
      /\ \A i \in 1 .. n : \A t \in SUBSET S : G[i][t] = SetStep(G[i - 1], t, a, ch, step)
  <2>1. \A i \in 0 .. n : G[i] \in W
    BY <1>4 DEF Recursion
  <2>2. \A t \in SUBSET S : G[0][t] = a
    BY <1>4 DEF Recursion
  <2>3. ASSUME NEW i \in 1 .. n, NEW t \in SUBSET S
        PROVE  G[i][t] = SetStep(G[i - 1], t, a, ch, step)
    <3>1. G[i] = Round[i][G[i - 1]]
      BY <1>4 DEF Recursion
    <3>2. G[i - 1] \in W
      <4>1. i - 1 \in 0 .. n
        BY <1>1
      <4> QED BY <4>1, <2>1
    <3>3. Round[i][G[i - 1]] = [u \in SUBSET S |-> SetStep(G[i - 1], u, a, ch, step)]
      BY <3>2
    <3> QED BY <3>1, <3>3
  <2> QED BY <2>1, <2>2, <2>3
<1> HIDE DEF n, Round, start
<1> DEFINE Settled(k) == \A t \in SUBSET S : Cardinality(t) <= k => \A j \in k .. n : G[j][t] = G[k][t]
           Good == {k \in 0 .. n : Settled(k)}
<1>6. 0 \in Good
  <2> SUFFICES ASSUME NEW t \in SUBSET S, Cardinality(t) <= 0, NEW j \in 0 .. n PROVE G[j][t] = G[0][t]
    BY <1>1
  <2>1. t = {}
    <3>1. Cardinality(t) = 0
      BY <1>1
    <3> QED BY <3>1, <1>1, FS_EmptySet
  <2>2. CASE j = 0
    BY <2>2
  <2>3. CASE j # 0
    <3>1. j \in 1 .. n
      BY <2>3, <1>1
    <3> QED BY <3>1, <2>1, <1>5 DEF SetStep
  <2> QED BY <2>2, <2>3
<1>7. ASSUME NEW k \in Nat, k < n, k \in Good PROVE k + 1 \in Good
  <2> SUFFICES ASSUME NEW t \in SUBSET S, Cardinality(t) <= k + 1, NEW j \in k + 1 .. n
               PROVE  G[j][t] = G[k + 1][t]
    BY <1>1, <1>7
  <2>1. /\ j \in 1 .. n /\ j - 1 \in k .. n /\ k + 1 \in 1 .. n /\ (k + 1) - 1 = k /\ k \in k .. n
    BY <1>1, <1>7
  <2>2. /\ G[j][t] = SetStep(G[j - 1], t, a, ch, step)
        /\ G[k + 1][t] = SetStep(G[(k + 1) - 1], t, a, ch, step)
    BY <2>1, <1>5
  <2>3. CASE t = {}
    BY <2>2, <2>3 DEF SetStep
  <2>4. CASE t # {}
    <3>1. ch[t] \in t
      BY <2>4 DEF Chooses
    <3>2. t \ {ch[t]} \in SUBSET S /\ Cardinality(t \ {ch[t]}) = Cardinality(t) - 1
      BY <3>1, <1>1, FS_RemoveElement
    <3>3. Cardinality(t \ {ch[t]}) <= k
      BY <3>2, <1>1
    <3>4. G[j - 1][t \ {ch[t]}] = G[k][t \ {ch[t]}]
      BY <3>2, <3>3, <2>1, <1>7
    <3> QED BY <3>4, <2>1, <2>2, <2>4 DEF SetStep
  <2> QED BY <2>3, <2>4
<1>8. \A k \in 0 .. n : k \in Good
  <2> HIDE DEF Good
  <2> QED BY <1>1, <1>6, <1>7, IntervalInduction
<1>9. \A t \in SUBSET S : G[n][t] = SetStep(G[n], t, a, ch, step)
  <2> SUFFICES ASSUME NEW t \in SUBSET S PROVE G[n][t] = SetStep(G[n], t, a, ch, step)
    OBVIOUS
  <2>1. CASE n = 0
    <3>1. t = {}
      <4>1. Cardinality(t) = 0
        BY <2>1, <1>1
      <4> QED BY <4>1, <1>1, FS_EmptySet
    <3> QED BY <3>1, <2>1, <1>5 DEF SetStep
  <2>2. CASE n # 0
    <3>1. n \in 1 .. n /\ n - 1 \in 0 .. n /\ n \in n - 1 .. n
      BY <2>2, <1>1
    <3>2. G[n][t] = SetStep(G[n - 1], t, a, ch, step)
      BY <3>1, <1>5
    <3>3. CASE t = {}
      BY <3>2, <3>3 DEF SetStep
    <3>4. CASE t # {}
      <4>1. ch[t] \in t
        BY <3>4 DEF Chooses
      <4>2. t \ {ch[t]} \in SUBSET S /\ Cardinality(t \ {ch[t]}) = Cardinality(t) - 1
        BY <4>1, <1>1, FS_RemoveElement
      <4>3. Cardinality(t \ {ch[t]}) <= n - 1
        BY <4>2, <1>1
      <4>4. G[n][t \ {ch[t]}] = G[n - 1][t \ {ch[t]}]
        BY <4>2, <4>3, <3>1, <1>8
      <4> QED BY <4>4, <3>2, <3>4 DEF SetStep
    <3> QED BY <3>3, <3>4
  <2> QED BY <2>1, <2>2
<1>10. n \in 0 .. n
  BY <1>1
<1>11. G[n] \in W /\ OverSubsets(G[n], S, a, ch, step)
  BY <1>5, <1>9, <1>10 DEF OverSubsets
<1> HIDE DEF W
<1> QED BY <1>11 DEF W

\* The elements of S weigh w: f[t] is what a set of them weighs.
IsTotal(f, S, w) ==
  /\ f \in [SUBSET S -> Nat]
  /\ f[{}] = 0
  /\ \A t \in SUBSET S : t # {} => \E x \in t : f[t] = w[x] + f[t \ {x}]

TakesAny(f, S, w) == \A t \in SUBSET S : \A x \in t : f[t] = w[x] + f[t \ {x}]

\* A sum does not depend on the order in which it is taken.
LEMMA AnyOrder ==
  ASSUME NEW S, IsFiniteSet(S), NEW w \in [S -> Nat], NEW f, IsTotal(f, S, w)
  PROVE  TakesAny(f, S, w)
<1> DEFINE n == Cardinality(S)
           Good == {k \in 0 .. n : \A t \in SUBSET S : Cardinality(t) <= k =>
                                      \A x \in t : f[t] = w[x] + f[t \ {x}]}
<1>1. n \in Nat /\ \A t \in SUBSET S : IsFiniteSet(t) /\ Cardinality(t) \in Nat /\ Cardinality(t) <= n
  BY FS_CardinalityType, FS_Subset
<1>2. 0 \in Good
  <2>1. ASSUME NEW t \in SUBSET S, Cardinality(t) <= 0 PROVE t = {}
    <3>1. Cardinality(t) = 0
      BY <2>1, <1>1
    <3> QED BY <3>1, <1>1, FS_EmptySet
  <2> QED BY <2>1, <1>1
<1>3. ASSUME NEW k \in Nat, k < n, k \in Good PROVE k + 1 \in Good
  <2> SUFFICES ASSUME NEW t \in SUBSET S, Cardinality(t) <= k + 1, NEW x \in t
               PROVE  f[t] = w[x] + f[t \ {x}]
    BY <1>1, <1>3
  <2>1. PICK c \in t : f[t] = w[c] + f[t \ {c}]
    BY DEF IsTotal
  <2>2. CASE x = c
    BY <2>1, <2>2
  <2>3. CASE x # c
    <3>1. /\ t \ {c} \in SUBSET S /\ t \ {x} \in SUBSET S
          /\ Cardinality(t \ {c}) <= k /\ Cardinality(t \ {x}) <= k
      <4>1. Cardinality(t \ {c}) = Cardinality(t) - 1 /\ Cardinality(t \ {x}) = Cardinality(t) - 1
        BY <1>1, FS_RemoveElement
      <4> QED BY <4>1, <1>1
    <3>2. f[t \ {c}] = w[x] + f[(t \ {c}) \ {x}]
      BY <3>1, <2>3, <1>3
    <3>3. f[t \ {x}] = w[c] + f[(t \ {x}) \ {c}]
      BY <3>1, <2>3, <1>3
    <3>4. PICK wx, wc, r \in Nat : wx = w[x] /\ wc = w[c] /\ r = f[(t \ {c}) \ {x}]
      BY DEF IsTotal
    <3>5. f[(t \ {x}) \ {c}] = r
      <4>1. (t \ {c}) \ {x} = (t \ {x}) \ {c}
        OBVIOUS
      <4> QED BY <4>1, <3>4
    <3>6. f[t] = wc + (wx + r)
      BY <2>1, <3>2, <3>4
    <3>7. w[x] + f[t \ {x}] = wx + (wc + r)
      BY <3>3, <3>4, <3>5
    <3>8. wc + (wx + r) = wx + (wc + r)
      OBVIOUS
    <3> QED BY <3>6, <3>7, <3>8
  <2> QED BY <2>2, <2>3
<1> HIDE DEF Good
<1>4. \A k \in 0 .. n : k \in Good
  <2> HIDE DEF n
  <2> QED BY <1>1, <1>2, <1>3, IntervalInduction
<1>5. n \in Good
  BY <1>1, <1>4
<1> QED BY <1>1, <1>5 DEF Good, TakesAny

SameWeights(S, w, u) == \A x \in S : w[x] = u[x]

\* Nor on which larger set it is taken in.
LEMMA TotalsAgree ==
  ASSUME NEW T, IsFiniteSet(T), NEW u \in [T -> Nat], NEW g, IsTotal(g, T, u),
         NEW S \in SUBSET T, NEW w \in [S -> Nat], NEW f, IsTotal(f, S, w), SameWeights(S, w, u)
  PROVE  f[S] = g[S]
<1> DEFINE n == Cardinality(S)
           Good == {k \in 0 .. n : \A t \in SUBSET S : Cardinality(t) <= k => f[t] = g[t]}
<1>1. IsFiniteSet(S) /\ n \in Nat
      /\ \A t \in SUBSET S : IsFiniteSet(t) /\ Cardinality(t) \in Nat /\ Cardinality(t) <= n
  BY FS_CardinalityType, FS_Subset
<1>2. TakesAny(f, S, w) /\ TakesAny(g, T, u)
  BY <1>1, AnyOrder
<1>3. 0 \in Good
  <2>1. ASSUME NEW t \in SUBSET S, Cardinality(t) <= 0 PROVE t = {}
    <3>1. Cardinality(t) = 0
      BY <2>1, <1>1
    <3> QED BY <3>1, <1>1, FS_EmptySet
  <2>2. f[{}] = g[{}]
    BY DEF IsTotal
  <2>3. 0 \in 0 .. n
    BY <1>1
  <2> QED BY <2>1, <2>2, <2>3
<1>4. ASSUME NEW k \in Nat, k < n, k \in Good PROVE k + 1 \in Good
  <2> SUFFICES ASSUME NEW t \in SUBSET S, Cardinality(t) <= k + 1 PROVE f[t] = g[t]
    BY <1>1, <1>4
  <2>1. CASE t = {}
    BY <2>1 DEF IsTotal
  <2>2. CASE t # {}
    <3>1. PICK x \in t : TRUE
      BY <2>2
    <3>2. t \ {x} \in SUBSET S /\ Cardinality(t \ {x}) <= k
      <4>1. Cardinality(t \ {x}) = Cardinality(t) - 1
        BY <1>1, FS_RemoveElement
      <4> QED BY <4>1, <1>1
    <3>3. f[t \ {x}] = g[t \ {x}]
      BY <3>2, <1>4
    <3>4. f[t] = w[x] + f[t \ {x}] /\ g[t] = u[x] + g[t \ {x}] /\ w[x] = u[x]
      BY <1>2 DEF TakesAny, SameWeights
    <3> QED BY <3>3, <3>4
  <2> QED BY <2>1, <2>2
<1> HIDE DEF Good
<1>5. \A k \in 0 .. n : k \in Good
  <2> HIDE DEF n
  <2> QED BY <1>1, <1>3, <1>4, IntervalInduction
<1>6. n \in Good
  BY <1>1, <1>5
<1> QED BY <1>1, <1>6 DEF Good

\* One element more.
LEMMA TotalOfOneMore ==
  ASSUME NEW S, IsFiniteSet(S), NEW e, e \notin S,
         NEW w \in [S -> Nat], NEW f, IsTotal(f, S, w),
         NEW u \in [S \cup {e} -> Nat], NEW g, IsTotal(g, S \cup {e}, u), SameWeights(S, w, u)
  PROVE  g[S \cup {e}] = f[S] + u[e]
<1>1. IsFiniteSet(S \cup {e})
  BY FS_AddElement
<1> DEFINE T == S \cup {e}
<1>2. S \in SUBSET T /\ T \ {e} = S /\ e \in T /\ T \in SUBSET T
  OBVIOUS
<1>3. f[S] = g[S]
  <2> HIDE DEF T
  <2> QED BY <1>1, <1>2, TotalsAgree DEF T
<1>4. TakesAny(g, T, u)
  BY <1>1, AnyOrder
<1>5. g[T] = u[e] + g[S]
  BY <1>2, <1>4 DEF TakesAny
<1>6. u[e] \in Nat /\ g[S] \in Nat
  BY DEF IsTotal
<1> QED BY <1>3, <1>5, <1>6

OneOf(t) == CHOOSE x \in t : TRUE
SetSumLine(f, t, w) == IF t = {} THEN 0 ELSE w[OneOf(t)] + f[t \ {OneOf(t)}]

\* A sum over a finite set, and that it is a total.
LEMMA SumExists ==
  ASSUME NEW S, IsFiniteSet(S), NEW w \in [S -> Nat]
  PROVE  \E f \in [SUBSET S -> Nat] : \A t \in SUBSET S : f[t] = SetSumLine(f, t, w)
<1> DEFINE ch == [t \in SUBSET S |-> OneOf(t)]
           step == [x \in S |-> [v \in Nat |-> w[x] + v]]
<1>1. Chooses(ch, S)
  BY DEF Chooses, OneOf
<1>2. step \in [S -> [Nat -> Nat]]
  OBVIOUS
<1>3. PICK g \in [SUBSET S -> Nat] : OverSubsets(g, S, 0, ch, step)
  <2> HIDE DEF ch, step
  <2> QED BY <1>1, <1>2, SetRecursion
<1>4. ASSUME NEW t \in SUBSET S PROVE g[t] = SetSumLine(g, t, w)
  <2>1. g[t] = SetStep(g, t, 0, ch, step)
    BY <1>3 DEF OverSubsets
  <2>2. CASE t = {}
    BY <2>1, <2>2 DEF SetStep, SetSumLine
  <2>3. CASE t # {}
    <3>1. OneOf(t) \in t /\ ch[t] = OneOf(t)
      BY <2>3 DEF OneOf
    <3>2. t \ {OneOf(t)} \in SUBSET S /\ g[t \ {OneOf(t)}] \in Nat /\ OneOf(t) \in S
      BY <3>1
    <3>3. step[OneOf(t)][g[t \ {OneOf(t)}]] = w[OneOf(t)] + g[t \ {OneOf(t)}]
      BY <3>2
    <3> QED BY <2>1, <2>3, <3>1, <3>3 DEF SetStep, SetSumLine
  <2> QED BY <2>2, <2>3
<1> QED BY <1>4

Summed(f, S, w) == \A t \in SUBSET S : f[t] = SetSumLine(f, t, w)

\* Whatever satisfies the lines of a sum is a total.
LEMMA SummedIsTotal ==
  ASSUME NEW S, IsFiniteSet(S), NEW w \in [S -> Nat], NEW c, Summed(c, S, w)
  PROVE  \E f : IsTotal(f, S, w) /\ f[S] = c[S]
<1> DEFINE n == Cardinality(S)
           Good == {k \in 0 .. n : \A t \in SUBSET S : Cardinality(t) <= k => c[t] \in Nat}
<1>1. n \in Nat /\ \A t \in SUBSET S : IsFiniteSet(t) /\ Cardinality(t) \in Nat /\ Cardinality(t) <= n
  BY FS_CardinalityType, FS_Subset
<1>2. 0 \in Good
  <2>1. ASSUME NEW t \in SUBSET S, Cardinality(t) <= 0 PROVE c[t] \in Nat
    <3>1. Cardinality(t) = 0
      BY <2>1, <1>1
    <3>2. t = {}
      BY <3>1, <1>1, FS_EmptySet
    <3>3. c[t] = SetSumLine(c, t, w)
      BY DEF Summed
    <3> QED BY <3>2, <3>3 DEF SetSumLine
  <2>2. 0 \in 0 .. n
    BY <1>1
  <2> QED BY <2>1, <2>2
<1>3. ASSUME NEW k \in Nat, k < n, k \in Good PROVE k + 1 \in Good
  <2> SUFFICES ASSUME NEW t \in SUBSET S, Cardinality(t) <= k + 1 PROVE c[t] \in Nat
    BY <1>1, <1>3
  <2>1. c[t] = SetSumLine(c, t, w)
    BY DEF Summed
  <2>2. CASE t = {}
    BY <2>1, <2>2 DEF SetSumLine
  <2>3. CASE t # {}
    <3>1. OneOf(t) \in t /\ OneOf(t) \in S
      BY <2>3 DEF OneOf
    <3>2. t \ {OneOf(t)} \in SUBSET S /\ Cardinality(t \ {OneOf(t)}) = Cardinality(t) - 1
      BY <3>1, <1>1, FS_RemoveElement
    <3>3. Cardinality(t \ {OneOf(t)}) <= k
      BY <3>2, <1>1
    <3>4. c[t \ {OneOf(t)}] \in Nat /\ w[OneOf(t)] \in Nat
      BY <3>1, <3>2, <3>3, <1>3
    <3> QED BY <2>1, <2>3, <3>4 DEF SetSumLine
  <2> QED BY <2>2, <2>3
<1> HIDE DEF Good
<1>4. \A k \in 0 .. n : k \in Good
  <2> HIDE DEF n
  <2> QED BY <1>1, <1>2, <1>3, IntervalInduction
<1>5. \A t \in SUBSET S : c[t] \in Nat
  <2>1. n \in Good
    BY <1>1, <1>4
  <2> QED BY <2>1, <1>1 DEF Good
<1> DEFINE f == [t \in SUBSET S |-> c[t]]
<1>6. f \in [SUBSET S -> Nat] /\ f[S] = c[S]
  BY <1>5
<1>7. f[{}] = 0
  BY DEF Summed, SetSumLine
<1>8. ASSUME NEW t \in SUBSET S, t # {} PROVE \E x \in t : f[t] = w[x] + f[t \ {x}]
  <2>1. OneOf(t) \in t
    BY <1>8 DEF OneOf
  <2>2. c[t] = w[OneOf(t)] + c[t \ {OneOf(t)}]
    BY <1>8 DEF Summed, SetSumLine
  <2> QED BY <2>1, <2>2
<1> HIDE DEF f
<1> QED BY <1>6, <1>7, <1>8 DEF IsTotal
==============================================================================
