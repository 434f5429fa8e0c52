------------------------ MODULE OnlineCompilerProofs ------------------------
(***************************************************************************)
(* Proofs about the online compiler and its layer store, for every set of  *)
(* circuits, every number of atoms and pairs, every policy and every       *)
(* process that dies.  First the store: what scanning a circuit makes of   *)
(* its gates.  Then the trace: one that never goes back is on every atom a *)
(* beginning of the circuit.  Then the three parts of the invariant, which *)
(* are about seats (IInv), about the trace and the checkpoint (LogInv) and *)
(* about who waits in the zone (LitInv), and what follows from them.       *)
(***************************************************************************)
EXTENDS OnlineCompiler, RecursionLemmas, SequenceTheorems, FiniteSetTheorems

(* Numbers in ascending order.                                              *)

\* How many of some numbers there are up to i.
UpTo(S, i) == {j \in S : j <= i}
Rank(S, i) == Cardinality(UpTo(S, i))

Numbers(S) == S \subseteq Int /\ IsFiniteSet(S)

\* The rank of a number is one of the positions, and grows with the number.
LEMMA RankGrows ==
  ASSUME NEW S, Numbers(S)
  PROVE  /\ Cardinality(S) \in Nat
         /\ \A i \in S : Rank(S, i) \in 1..Cardinality(S)
         /\ \A i \in S, j \in S : i < j => Rank(S, i) < Rank(S, j)
<1>1. IsFiniteSet(S) /\ S \subseteq Int
  BY DEF Numbers
<1>2. Cardinality(S) \in Nat
  BY <1>1, FS_CardinalityType
<1>3. ASSUME NEW i \in S
      PROVE  /\ IsFiniteSet(UpTo(S, i)) /\ Rank(S, i) \in Nat /\ Rank(S, i) <= Cardinality(S)
             /\ i \in UpTo(S, i)
  <2>1. UpTo(S, i) \in SUBSET S
    BY DEF UpTo
  <2>2. IsFiniteSet(UpTo(S, i)) /\ Cardinality(UpTo(S, i)) <= Cardinality(S)
    BY <1>1, <2>1, FS_Subset
  <2>3. Cardinality(UpTo(S, i)) \in Nat
    BY <2>2, FS_CardinalityType
  <2> QED
    BY <1>1, <2>2, <2>3 DEF Rank, UpTo
<1>4. ASSUME NEW i \in S PROVE Rank(S, i) # 0
  BY <1>3, FS_EmptySet DEF Rank
<1>5. ASSUME NEW i \in S, NEW j \in S, i < j
      PROVE  Rank(S, i) < Rank(S, j)
  <2>1. UpTo(S, i) \in SUBSET UpTo(S, j)
    <3> SUFFICES ASSUME NEW x \in S, x <= i PROVE x <= j
      BY DEF UpTo
    <3>1. x \in Int /\ i \in Int /\ j \in Int
      BY <1>1
    <3> QED
      BY <3>1, <1>5
  <2>2. j \in UpTo(S, j) /\ j \notin UpTo(S, i)
    <3>1. i \in Int /\ j \in Int
      BY <1>1
    <3> QED
      BY <3>1, <1>5 DEF UpTo
  <2>3. IsFiniteSet(UpTo(S, j)) /\ Rank(S, i) \in Nat /\ Rank(S, j) \in Nat
    BY <1>3
  <2>4. Cardinality(UpTo(S, i)) <= Cardinality(UpTo(S, j))
        /\ Cardinality(UpTo(S, i)) # Cardinality(UpTo(S, j))
    BY <2>1, <2>2, <2>3, FS_Subset
  <2> QED
    BY <2>3, <2>4 DEF Rank
<1>6. \A i \in S : Rank(S, i) \in 1..Cardinality(S)
  <2> TAKE i \in S
  <2>1. Rank(S, i) \in Nat /\ Rank(S, i) <= Cardinality(S)
    BY <1>3
  <2>2. Rank(S, i) # 0
    BY <1>4
  <2> QED
    BY <1>2, <2>1, <2>2
<1> QED
  BY <1>2, <1>5, <1>6

\* Every position is the rank of some number, and of one only.
LEMMA RankReaches ==
  ASSUME NEW S, Numbers(S)
  PROVE  /\ \A k \in 1..Cardinality(S) : \E i \in S : Rank(S, i) = k
         /\ \A i \in S, j \in S : Rank(S, i) = Rank(S, j) => i = j
<1> DEFINE c == Cardinality(S)
           f == [i \in S |-> Rank(S, i)]
<1>1. /\ c \in Nat
      /\ \A i \in S : Rank(S, i) \in 1..c
      /\ \A i \in S, j \in S : i < j => Rank(S, i) < Rank(S, j)
  BY RankGrows
<1>2. \A i \in S, j \in S : Rank(S, i) = Rank(S, j) => i = j
  <2> SUFFICES ASSUME NEW i \in S, NEW j \in S, Rank(S, i) = Rank(S, j), i # j
               PROVE  FALSE
    OBVIOUS
  <2>1. i < j \/ j < i
    <3>1. i \in Int /\ j \in Int
      BY DEF Numbers
    <3> QED
      BY <3>1
  <2>2. Rank(S, i) \in Int /\ Rank(S, j) \in Int
    BY <1>1
  <2> HIDE DEF c
  <2> QED
    BY <1>1, <2>1, <2>2
<1>3. f \in Injection(S, 1..c)
  <2>1. f \in [S -> 1..c]
    BY <1>1
  <2> QED
    BY <1>2, <2>1 DEF Injection, IsInjective
<1>4. IsFiniteSet(1..c) /\ Cardinality(1..c) = c
  <2>1. /\ IsFiniteSet(1..c)
        /\ Cardinality(1..c) = IF 1 > c THEN 0 ELSE c - 1 + 1
    BY <1>1, FS_Interval
  <2> HIDE DEF c
  <2> QED
    BY <1>1, <2>1
<1>5. f \in Surjection(S, 1..c)
  BY <1>3, <1>4, FS_Injection
<1>6. \A k \in 1..c : \E i \in S : f[i] = k
  BY <1>5 DEF Surjection
<1> QED
  BY <1>2, <1>6

\* Numbers in ascending order: at every position the number of that rank.
LEMMA InOrderFacts ==
  ASSUME NEW S, Numbers(S)
  PROVE  /\ InOrder(S) \in Seq(S) /\ Len(InOrder(S)) = Cardinality(S)
         /\ \A k \in 1..Cardinality(S) : InOrder(S)[k] \in S /\ Rank(S, InOrder(S)[k]) = k
         /\ \A i \in S : InOrder(S)[Rank(S, i)] = i
<1> DEFINE At(k) == CHOOSE i \in S : Rank(S, i) = k
<1>1. InOrder(S) = [k \in 1..Cardinality(S) |-> At(k)]
  BY DEF InOrder, Rank, UpTo
<1>2. \A k \in 1..Cardinality(S) : At(k) \in S /\ Rank(S, At(k)) = k
  BY RankReaches
<1>3. /\ Cardinality(S) \in Nat
      /\ \A i \in S : Rank(S, i) \in 1..Cardinality(S)
  BY RankGrows
<1>4. \A i \in S, j \in S : Rank(S, i) = Rank(S, j) => i = j
  BY RankReaches
<1> HIDE DEF At
<1>5. InOrder(S) \in [1..Cardinality(S) -> S]
  BY <1>1, <1>2
<1>6. InOrder(S) \in Seq(S) /\ Len(InOrder(S)) = Cardinality(S)
  BY <1>3, <1>5
<1> QED
  BY <1>1, <1>2, <1>3, <1>4, <1>6

\* A set of numbers mapped onto a beginning of another without changing the
\* order: the two are alike position by position.
Ascends(H, r) == \A m \in H, n \in H : m < n => r[m] < r[n]
Beginning(H, T, r) == \A n \in H : \A j \in T : j < r[n] => \E m \in H : r[m] = j

\* Numbers carried over in their order, from a beginning, keep their rank.
LEMMA SameRank ==
  ASSUME NEW H, Numbers(H), NEW T, Numbers(T), NEW r \in [H -> T],
         Ascends(H, r), Beginning(H, T, r), NEW n \in H
  PROVE  Rank(T, r[n]) = Rank(H, n)
<1> DEFINE A == UpTo(H, n)
           B == UpTo(T, r[n])
           f == [m \in A |-> r[m]]
<1>0. H \subseteq Int /\ T \subseteq Int /\ n \in Int /\ r[n] \in Int
  BY DEF Numbers
<1>1. ASSUME NEW x \in H, NEW y \in H, r[x] < r[y]
      PROVE  x < y
  <2>1. x \in Int /\ y \in Int /\ r[x] \in Int /\ r[y] \in Int
    BY <1>0
  <2>2. CASE y < x
    <3>1. r[y] < r[x]
      BY <2>2 DEF Ascends
    <3> QED
      BY <1>1, <2>1, <3>1
  <2>3. CASE x = y
    BY <1>1, <2>1, <2>3
  <2> QED
    BY <2>1, <2>2, <2>3
<1>2. f \in [A -> B]
  <2> SUFFICES ASSUME NEW m \in A PROVE r[m] \in B
    OBVIOUS
  <2>1. m \in H /\ m \in Int /\ m <= n
    BY <1>0 DEF UpTo
  <2>2. r[m] \in T /\ r[m] \in Int
    BY <1>0, <2>1
  <2>3. CASE m = n
    BY <1>0, <2>2, <2>3 DEF UpTo
  <2>4. CASE m < n
    <3>1. r[m] < r[n]
      BY <2>1, <2>4 DEF Ascends
    <3> QED
      BY <1>0, <2>2, <3>1 DEF UpTo
  <2> QED
    BY <1>0, <2>1, <2>3, <2>4
<1>3. \A x \in A, y \in A : r[x] = r[y] => x = y
  <2> SUFFICES ASSUME NEW x \in A, NEW y \in A, r[x] = r[y], x # y PROVE FALSE
    OBVIOUS
  <2>1. x \in H /\ y \in H /\ x \in Int /\ y \in Int /\ r[x] \in Int /\ r[y] \in Int
    BY <1>0 DEF UpTo
  <2>2. x < y \/ y < x
    BY <2>1
  <2>3. r[x] < r[y] \/ r[y] < r[x]
    BY <2>1, <2>2 DEF Ascends
  <2> QED
    BY <2>1, <2>3
<1>4. \A j \in B : \E m \in A : r[m] = j
  <2> TAKE j \in B
  <2>1. j \in T /\ j \in Int /\ j <= r[n]
    BY <1>0 DEF UpTo
  <2>2. CASE j = r[n]
    <3>1. n \in A
      BY <1>0 DEF UpTo
    <3> QED
      BY <2>2, <3>1
  <2>3. CASE j < r[n]
    <3>1. PICK m \in H : r[m] = j
      BY <2>1, <2>3 DEF Beginning
    <3>2. m < n
      BY <1>1, <2>3, <3>1
    <3>3. m \in A
      BY <1>0, <3>2 DEF UpTo
    <3> QED
      BY <3>1, <3>3
  <2> QED
    BY <1>0, <2>1, <2>2, <2>3
<1> HIDE DEF B
<1>5. f \in Bijection(A, B)
  <2>1. f \in Injection(A, B)
    BY <1>2, <1>3 DEF Injection, IsInjective
  <2>2. f \in Surjection(A, B)
    BY <1>2, <1>4 DEF Surjection
  <2> QED
    BY <2>1, <2>2 DEF Bijection
<1>6. IsFiniteSet(A)
  <2>1. A \in SUBSET H /\ IsFiniteSet(H)
    BY DEF UpTo, Numbers
  <2> QED
    BY <2>1, FS_Subset
<1>7. ExistsBijection(A, B)
  BY <1>5 DEF ExistsBijection
<1>8. Cardinality(B) = Cardinality(A)
  BY <1>6, <1>7, FS_Bijection
<1> QED
  BY <1>8 DEF B, Rank

\* ... and so come in the same places.
LEMMA AlikeInOrder ==
  ASSUME NEW H, Numbers(H), NEW T, Numbers(T), NEW r \in [H -> T],
         Ascends(H, r), Beginning(H, T, r)
  PROVE  /\ Cardinality(H) \in Nat /\ Cardinality(T) \in Nat
         /\ Cardinality(H) <= Cardinality(T)
         /\ \A k \in 1..Cardinality(H) : InOrder(T)[k] = r[InOrder(H)[k]]
         /\ (\A j \in T : \E m \in H : r[m] = j) => Cardinality(H) = Cardinality(T)
<1>1. /\ Cardinality(H) \in Nat /\ Cardinality(T) \in Nat
      /\ IsFiniteSet(H) /\ IsFiniteSet(T)
  BY RankGrows DEF Numbers
<1>2. \A k \in 1..Cardinality(H) : InOrder(T)[k] = r[InOrder(H)[k]]
  <2> TAKE k \in 1..Cardinality(H)
  <2>1. InOrder(H)[k] \in H /\ Rank(H, InOrder(H)[k]) = k
    BY InOrderFacts
  <2>2. r[InOrder(H)[k]] \in T /\ Rank(T, r[InOrder(H)[k]]) = k
    BY <2>1, SameRank
  <2>3. \A i \in T : InOrder(T)[Rank(T, i)] = i
    BY InOrderFacts
  <2> QED
    BY <2>2, <2>3
<1>3. r \in Injection(H, T)
  <2> SUFFICES ASSUME NEW x \in H, NEW y \in H, r[x] = r[y], x # y PROVE FALSE
    BY DEF Injection, IsInjective
  <2>1. x \in Int /\ y \in Int /\ r[x] \in Int /\ r[y] \in Int
    BY DEF Numbers
  <2>2. r[x] < r[y] \/ r[y] < r[x]
    BY <2>1 DEF Ascends
  <2> QED
    BY <2>1, <2>2
<1>4. Cardinality(H) <= Cardinality(T)
      /\ (r \in Surjection(H, T) => Cardinality(H) = Cardinality(T))
  BY <1>1, <1>3, FS_Injection
<1>5. (\A j \in T : \E m \in H : r[m] = j) => r \in Surjection(H, T)
  BY DEF Surjection
<1> QED
  BY <1>1, <1>2, <1>4, <1>5

\* The greatest of some numbers is one of them.
LEMMA LargestOf ==
  ASSUME NEW S, Numbers(S), S # {}
  PROVE  Largest(S) \in S /\ \A y \in S : y <= Largest(S)
<1>1. IsFiniteSet(S) /\ S \subseteq Int
  BY DEF Numbers
<1>2. Cardinality(S) \in Nat /\ Cardinality(S) # 0
  BY <1>1, FS_CardinalityType, FS_EmptySet
<1>3. PICK m \in S : Rank(S, m) = Cardinality(S)
  BY <1>2, RankReaches
<1>4. UpTo(S, m) = S
  <2>1. UpTo(S, m) \in SUBSET S
    BY DEF UpTo
  <2> QED
    BY <1>1, <1>3, <2>1, FS_Subset DEF Rank
<1>5. \A y \in S : y <= m
  BY <1>4 DEF UpTo
<1> QED
  BY <1>5 DEF Largest

(* The layer store.                                                         *)

\* A circuit: every gate on one atom or on two.
Circuit(gates) ==
  /\ gates \in Seq(Gate)
  /\ \A i \in DOMAIN gates : Len(gates[i]) = 2 => gates[i][1] # gates[i][2]

On(rows, S, q) == S \cap OfAtom(rows, q)

\* A layering: the layers lay of the rows in S are the earliest there are, and
\* next counts for each atom beyond its last.
Counted(rows, S, lay, next) ==
  /\ S \subseteq DOMAIN rows
  /\ next \in [Atoms -> Nat]
  /\ \A i \in S : lay[i] \in Nat
  /\ Asap(rows, S, lay)
  /\ \A q \in Atoms :
       /\ \A i \in On(rows, S, q) : lay[i] < next[q]
       /\ next[q] = 0 \/ \E i \in On(rows, S, q) : lay[i] = next[q] - 1

\* The rows and their indices.
LEMMA Appended ==
  ASSUME NEW rows \in Seq(Row), NEW row \in Row
  PROVE  /\ Append(rows, row) \in Seq(Row)
         /\ Len(rows) \in Nat
         /\ DOMAIN rows = 1..Len(rows)
         /\ Len(rows) + 1 \notin DOMAIN rows
         /\ DOMAIN Append(rows, row) = DOMAIN rows \cup {Len(rows) + 1}
         /\ Append(rows, row)[Len(rows) + 1] = row
         /\ \A i \in DOMAIN rows : Append(rows, row)[i] = rows[i] /\ i < Len(rows) + 1
         /\ \A i \in DOMAIN rows : i \in Nat /\ i <= Len(rows)
<1>1. Len(rows) \in Nat /\ DOMAIN rows = 1..Len(rows)
  OBVIOUS
<1>2. Append(rows, row) \in Seq(Row) /\ Len(Append(rows, row)) = Len(rows) + 1
  OBVIOUS
<1>3. DOMAIN Append(rows, row) = 1..(Len(rows) + 1)
  BY <1>2
<1>4. 1..(Len(rows) + 1) = (1..Len(rows)) \cup {Len(rows) + 1}
  BY <1>1
<1>5. Append(rows, row)[Len(rows) + 1] = row
  OBVIOUS
<1>6. \A i \in DOMAIN rows : Append(rows, row)[i] = rows[i]
  OBVIOUS
<1>7. \A i \in DOMAIN rows : i \in Nat /\ i <= Len(rows) /\ i < Len(rows) + 1
  BY <1>1
<1>8. Len(rows) + 1 \notin DOMAIN rows
  BY <1>1
<1> QED
  BY <1>1, <1>2, <1>3, <1>4, <1>5, <1>6, <1>7, <1>8

\* Old rows wait for the same gates as before, the new one for those on its atoms.
WaitsAlike(rows, row, S, k, new) ==
  /\ \A i \in DOMAIN rows : \A T \in SUBSET (S \cup {k}) :
       S \subseteq T => Before(new, i, T) = Before(rows, i, S)
  /\ \A T \in SUBSET (S \cup {k}) : S \subseteq T =>
       Before(new, k, T) = {j \in S : AtomsOf(rows[j]) \cap AtomsOf(row) # {}}
  /\ \A q \in Atoms : On(new, S, q) = On(rows, S, q)
  /\ \A q \in Atoms : On(new, S \cup {k}, q) =
       On(rows, S, q) \cup (IF q \in AtomsOf(row) THEN {k} ELSE {})

\* What the rows wait for is the same once another was appended.
LEMMA WaitsFor ==
  ASSUME NEW rows \in Seq(Row), NEW row \in Row, NEW S \in SUBSET DOMAIN rows,
         NEW k, k = Len(rows) + 1, NEW new, new = Append(rows, row)
  PROVE  WaitsAlike(rows, row, S, k, new)
<1>1. /\ Len(rows) \in Nat /\ k \notin DOMAIN rows
      /\ DOMAIN new = DOMAIN rows \cup {k}
      /\ new[k] = row
      /\ \A i \in DOMAIN rows : new[i] = rows[i] /\ i < k /\ i \in Nat
  BY Appended
<1>2. ASSUME NEW i \in DOMAIN rows, NEW T \in SUBSET (S \cup {k}), S \subseteq T
      PROVE  Before(new, i, T) = Before(rows, i, S)
  <2>1. i < k /\ i \in Nat /\ k \in Nat
    BY <1>1
  <2>2. ~ (k < i)
    BY <2>1
  <2>3. \A j \in S : new[j] = rows[j]
    BY <1>1
  <2>4. new[i] = rows[i]
    BY <1>1
  <2> QED
    BY <1>2, <2>2, <2>3, <2>4 DEF Before
<1>3. ASSUME NEW T \in SUBSET (S \cup {k}), S \subseteq T
      PROVE  Before(new, k, T) = {j \in S : AtomsOf(rows[j]) \cap AtomsOf(row) # {}}
  <2>1. \A j \in S : new[j] = rows[j] /\ j < k
    BY <1>1
  <2>2. ~ (k < k)
    BY <1>1
  <2> QED
    BY <1>1, <1>3, <2>1, <2>2 DEF Before
<1>4. \A q \in Atoms : On(new, S, q) = On(rows, S, q)
  BY <1>1 DEF On, OfAtom
<1>5. \A q \in Atoms : On(new, S \cup {k}, q) =
              On(rows, S, q) \cup (IF q \in AtomsOf(row) THEN {k} ELSE {})
  BY <1>1 DEF On, OfAtom
<1> QED
  BY <1>2, <1>3, <1>4, <1>5 DEF WaitsAlike

\* A row that is not of the layering leaves it as it is.
LEMMA CountNone ==
  ASSUME NEW rows \in Seq(Row), NEW row \in Row, NEW S, NEW lay, NEW next,
         Counted(rows, S, lay, next),
         NEW lay2, \A i \in S : lay2[i] = lay[i]
  PROVE  Counted(Append(rows, row), S, lay2, next)
<1> DEFINE k == Len(rows) + 1
           new == Append(rows, row)
<1>1. /\ S \in SUBSET DOMAIN rows /\ next \in [Atoms -> Nat]
      /\ \A i \in S : lay[i] \in Nat
      /\ Asap(rows, S, lay)
      /\ \A q \in Atoms :
           /\ \A i \in On(rows, S, q) : lay[i] < next[q]
           /\ next[q] = 0 \/ \E i \in On(rows, S, q) : lay[i] = next[q] - 1
  BY DEF Counted
<1>2. /\ \A i \in S : Before(new, i, S) = Before(rows, i, S)
      /\ \A q \in Atoms : On(new, S, q) = On(rows, S, q)
  <2>1. PICK m, longer : m = Len(rows) + 1 /\ longer = Append(rows, row)
    OBVIOUS
  <2>2. /\ \A i \in DOMAIN rows : \A T \in SUBSET (S \cup {m}) :
             S \subseteq T => Before(longer, i, T) = Before(rows, i, S)
        /\ \A q \in Atoms : On(longer, S, q) = On(rows, S, q)
    <3>1. rows \in Seq(Row) /\ row \in Row /\ S \in SUBSET DOMAIN rows
      BY <1>1
    <3>2. WaitsAlike(rows, row, S, m, longer)
      BY ONLY <2>1, <3>1, WaitsFor
    <3> QED
      BY ONLY <3>2 DEF WaitsAlike
  <2>3. S \in SUBSET (S \cup {m})
    OBVIOUS
  <2>4. \A i \in S : Before(longer, i, S) = Before(rows, i, S)
    BY <1>1, <2>2, <2>3
  <2> QED
    BY <2>1, <2>2, <2>4
<1>3. S \subseteq DOMAIN new
  BY <1>1, Appended
<1> HIDE DEF new
<1>4. Asap(new, S, lay2)
  <2>1. \A i \in S : Before(rows, i, S) \subseteq S
    BY DEF Before
  <2> QED
    BY <1>1, <1>2, <2>1 DEF Asap
<1>5. \A q \in Atoms : On(rows, S, q) \subseteq S
  BY DEF On
<1> QED
  BY <1>1, <1>2, <1>3, <1>4, <1>5 DEF Counted, new

\* A row of the layering goes on the first layer above all that its atoms have.
Raised(next, touched, l) == [q \in Atoms |-> IF q \in touched THEN l + 1 ELSE next[q]]

\* A row that is counted takes the layer above those its atoms were in.
LEMMA CountOne ==
  ASSUME NEW rows \in Seq(Row), NEW row \in Row, NEW S, NEW lay, NEW next,
         Counted(rows, S, lay, next),
         AtomsOf(row) \subseteq Atoms,
         NEW l \in Nat, NEW top \in AtomsOf(row), l = next[top],
         \A q \in AtomsOf(row) : next[q] <= l,
         NEW lay2, \A i \in S : lay2[i] = lay[i], lay2[Len(rows) + 1] = l
  PROVE  Counted(Append(rows, row), S \cup {Len(rows) + 1}, lay2, Raised(next, AtomsOf(row), l))
<1> DEFINE k == Len(rows) + 1
           new == Append(rows, row)
           up == Raised(next, AtomsOf(row), l)
<1>1. /\ S \in SUBSET DOMAIN rows /\ next \in [Atoms -> Nat]
      /\ \A i \in S : lay[i] \in Nat
      /\ Asap(rows, S, lay)
      /\ \A q \in Atoms :
           /\ \A i \in On(rows, S, q) : lay[i] < next[q]
           /\ next[q] = 0 \/ \E i \in On(rows, S, q) : lay[i] = next[q] - 1
  BY DEF Counted
<1>2. /\ \A i \in S : Before(new, i, S \cup {k}) = Before(rows, i, S)
      /\ Before(new, k, S \cup {k}) = {j \in S : AtomsOf(rows[j]) \cap AtomsOf(row) # {}}
      /\ \A q \in Atoms : On(new, S \cup {k}, q) =
              On(rows, S, q) \cup (IF q \in AtomsOf(row) THEN {k} ELSE {})
  <2>1. PICK m, longer : m = Len(rows) + 1 /\ longer = Append(rows, row)
    OBVIOUS
  <2>2. /\ \A i \in DOMAIN rows : \A T \in SUBSET (S \cup {m}) :
             S \subseteq T => Before(longer, i, T) = Before(rows, i, S)
        /\ \A T \in SUBSET (S \cup {m}) : S \subseteq T =>
             Before(longer, m, T) = {j \in S : AtomsOf(rows[j]) \cap AtomsOf(row) # {}}
        /\ \A q \in Atoms : On(longer, S \cup {m}, q) =
              On(rows, S, q) \cup (IF q \in AtomsOf(row) THEN {m} ELSE {})
    <3>1. rows \in Seq(Row) /\ row \in Row /\ S \in SUBSET DOMAIN rows
      BY <1>1
    <3>2. WaitsAlike(rows, row, S, m, longer)
      BY ONLY <2>1, <3>1, WaitsFor
    <3> QED
      BY ONLY <3>2 DEF WaitsAlike
  <2>3. S \cup {m} \in SUBSET (S \cup {m}) /\ S \subseteq S \cup {m}
    OBVIOUS
  <2>4. /\ \A i \in S : Before(longer, i, S \cup {m}) = Before(rows, i, S)
        /\ Before(longer, m, S \cup {m}) = {j \in S : AtomsOf(rows[j]) \cap AtomsOf(row) # {}}
    BY <1>1, <2>2, <2>3
  <2> QED
    BY <2>1, <2>2, <2>4
<1>3. S \cup {k} \subseteq DOMAIN new /\ k \notin S
  BY <1>1, Appended
<1>4. \A q \in Atoms : up[q] = IF q \in AtomsOf(row) THEN l + 1 ELSE next[q]
  BY DEF Raised
<1>5. up \in [Atoms -> Nat]
  BY <1>1 DEF Raised
<1>6. \A q \in Atoms : On(rows, S, q) \subseteq S
  BY DEF On
<1>7. lay2[k] = l
  OBVIOUS
<1> HIDE DEF new, up, k
<1>8. Asap(new, S \cup {k}, lay2)
  <2>1. ASSUME NEW i \in S
        PROVE  /\ \A j \in Before(new, i, S \cup {k}) : lay2[j] < lay2[i]
               /\ lay2[i] = 0 \/ \E j \in Before(new, i, S \cup {k}) : lay2[j] = lay2[i] - 1
    <3>1. Before(rows, i, S) \subseteq S
      BY DEF Before
    <3> QED
      BY <1>1, <1>2, <3>1 DEF Asap
  <2>2. ASSUME NEW j \in Before(new, k, S \cup {k})
        PROVE  lay2[j] < lay2[k]
    <3>1. j \in S /\ AtomsOf(rows[j]) \cap AtomsOf(row) # {}
      BY <1>2
    <3>2. PICK q \in AtomsOf(row) : q \in AtomsOf(rows[j])
      BY <3>1
    <3>3. q \in Atoms /\ j \in On(rows, S, q)
      BY <1>1, <3>1, <3>2 DEF On, OfAtom
    <3>4. lay[j] < next[q] /\ next[q] <= l
      BY <1>1, <3>3
    <3>5. lay[j] \in Nat /\ next[q] \in Nat
      BY <1>1, <3>1, <3>3
    <3>6. lay2[j] = lay[j]
      BY <3>1
    <3> QED
      BY <1>7, <3>4, <3>5, <3>6
  <2>3. l = 0 \/ \E j \in Before(new, k, S \cup {k}) : lay2[j] = l - 1
    <3>0. top \in Atoms
      OBVIOUS
    <3>1. CASE l # 0
      <4>1. PICK j \in On(rows, S, top) : lay[j] = l - 1
        BY <1>1, <3>0, <3>1
      <4>2. j \in S /\ top \in AtomsOf(rows[j])
        BY <4>1 DEF On, OfAtom
      <4>3. j \in Before(new, k, S \cup {k})
        BY <1>2, <4>2
      <4> QED
        BY <4>1, <4>2, <4>3
    <3> QED
      BY <3>1
  <2> QED
    BY <1>7, <2>1, <2>2, <2>3 DEF Asap
<1>9. ASSUME NEW q \in Atoms
      PROVE  /\ \A i \in On(new, S \cup {k}, q) : lay2[i] < up[q]
             /\ up[q] = 0 \/ \E i \in On(new, S \cup {k}, q) : lay2[i] = up[q] - 1
  <2>0. \A i \in On(rows, S, q) : lay2[i] = lay[i] /\ lay[i] \in Nat /\ lay[i] < next[q]
    BY <1>1, <1>6
  <2>1. CASE q \in AtomsOf(row)
    <3>1. On(new, S \cup {k}, q) = On(rows, S, q) \cup {k} /\ up[q] = l + 1
      BY <1>2, <1>4, <2>1
    <3>2. next[q] \in Nat /\ next[q] <= l
      BY <1>1, <2>1
    <3>3. \A i \in On(rows, S, q) : lay2[i] < l + 1
      BY <2>0, <3>2
    <3>4. lay2[k] < l + 1 /\ lay2[k] = (l + 1) - 1
      BY <1>7
    <3> QED
      BY <3>1, <3>3, <3>4
  <2>2. CASE q \notin AtomsOf(row)
    <3>1. On(new, S \cup {k}, q) = On(rows, S, q) /\ up[q] = next[q]
      BY <1>2, <1>4, <2>2
    <3> QED
      BY <1>1, <2>0, <3>1
  <2> QED
    BY <2>1, <2>2
<1>10. \A i \in S \cup {k} : lay2[i] \in Nat
  BY <1>1, <1>7
<1> QED
  BY <1>3, <1>5, <1>8, <1>9, <1>10 DEF Counted, new, up, k

-----------------------------------------------------------------------------
(* The layer store: what holds of the rows while a circuit is scanned.      *)

Accumulators == [next : [Atoms -> Nat], nextCz : [Atoms -> Nat], rows : Seq(Row)]

LayersOf(rows) == [i \in DOMAIN rows |-> rows[i].layer]
CzLayersOf(rows) == [i \in DOMAIN rows |-> rows[i].cz]

\* What holds of the rows written so far.
ScanInv(acc) ==
  /\ acc \in Accumulators
  /\ Counted(acc.rows, DOMAIN acc.rows, LayersOf(acc.rows), acc.next)
  /\ Counted(acc.rows, Czs(acc.rows), CzLayersOf(acc.rows), acc.nextCz)
  /\ \A i \in Czs(acc.rows) : \E p, q \in Atoms : p # q /\ acc.rows[i].atoms = <<p, q>>
  /\ \A i \in DOMAIN acc.rows : acc.rows[i].layer < i

GateOK(gate) == gate \in Gate /\ (Len(gate) = 2 => gate[1] # gate[2])
Touched(gate) == {gate[k] : k \in DOMAIN gate}

LEMMA TouchedAtoms ==
  ASSUME NEW gate \in Gate
  PROVE  \E a \in Atoms, b \in Atoms : Touched(gate) = {a, b}
<1>1. CASE \E a \in Atoms : gate = <<a>>
  <2>1. PICK a \in Atoms : gate = <<a>>
    BY <1>1
  <2>2. DOMAIN gate = {1} /\ gate[1] = a
    BY <2>1
  <2>3. Touched(gate) = {a, a}
    BY <2>2 DEF Touched
  <2> QED
    BY <2>3
<1>2. CASE \E a \in Atoms, b \in Atoms : gate = <<a, b>>
  <2>1. PICK a \in Atoms, b \in Atoms : gate = <<a, b>>
    BY <1>2
  <2>2. DOMAIN gate = {1, 2} /\ gate[1] = a /\ gate[2] = b
    BY <2>1
  <2>3. Touched(gate) = {a, b}
    BY <2>2 DEF Touched
  <2> QED
    BY <2>3
<1> QED
  BY <1>1, <1>2 DEF Gate

\* The layer of a gate is that of one of its atoms, and no other is above it.
TopOf(next, gate) == Largest({next[q] : q \in Touched(gate)})

LEMMA TopLayer ==
  ASSUME NEW next \in [Atoms -> Nat], NEW gate \in Gate
  PROVE  /\ TopOf(next, gate) \in Nat
         /\ \E top \in Touched(gate) : TopOf(next, gate) = next[top]
         /\ \A q \in Touched(gate) : next[q] <= TopOf(next, gate)
         /\ Touched(gate) \subseteq Atoms
<1>1. PICK a \in Atoms, b \in Atoms : Touched(gate) = {a, b}
  BY TouchedAtoms
<1> DEFINE S == {next[q] : q \in Touched(gate)}
<1>2. S = {next[a], next[b]} /\ next[a] \in Nat /\ next[b] \in Nat
  BY <1>1
<1>3. IsFiniteSet({next[a]} \cup {next[b]})
  BY FS_Singleton, FS_AddElement
<1>4. {next[a]} \cup {next[b]} = {next[a], next[b]}
  OBVIOUS
<1>5. Numbers(S) /\ S # {}
  BY <1>2, <1>3, <1>4 DEF Numbers
<1> HIDE DEF S
<1>6. Largest(S) \in S /\ \A y \in S : y <= Largest(S)
  BY <1>5, LargestOf
<1>7. TopOf(next, gate) = Largest(S)
  BY DEF TopOf, S
<1> QED
  BY <1>1, <1>2, <1>6, <1>7 DEF S

\* The row of a gate, and the accumulator with it.
RowOfGate(acc, gate) ==
  [atoms |-> gate, layer |-> TopOf(acc.next, gate),
   cz |-> IF Len(gate) = 2 THEN TopOf(acc.nextCz, gate) ELSE NoLayer]

\* What one statement does to the counters and the rows.
LEMMA EventFacts ==
  ASSUME NEW acc \in Accumulators, NEW gate \in Gate
  PROVE  /\ RowOfGate(acc, gate) \in Row
         /\ AtomsOf(RowOfGate(acc, gate)) = Touched(gate)
         /\ LayerEvent(acc, gate) \in Accumulators
         /\ LayerEvent(acc, gate).rows = Append(acc.rows, RowOfGate(acc, gate))
         /\ LayerEvent(acc, gate).next = Raised(acc.next, Touched(gate), TopOf(acc.next, gate))
         /\ LayerEvent(acc, gate).nextCz =
              IF Len(gate) = 2 THEN Raised(acc.nextCz, Touched(gate), TopOf(acc.nextCz, gate))
              ELSE acc.nextCz
<1> DEFINE row == RowOfGate(acc, gate)
           up == Raised(acc.next, Touched(gate), TopOf(acc.next, gate))
           upCz == [q \in Atoms |-> IF q \in Touched(gate) /\ Len(gate) = 2
                                    THEN TopOf(acc.nextCz, gate) + 1 ELSE acc.nextCz[q]]
<1>1. acc.next \in [Atoms -> Nat] /\ acc.nextCz \in [Atoms -> Nat] /\ acc.rows \in Seq(Row)
  BY DEF Accumulators
<1>2. TopOf(acc.next, gate) \in Nat /\ TopOf(acc.nextCz, gate) \in Nat
  BY <1>1, TopLayer
<1>3. row \in Row
  BY <1>2 DEF RowOfGate, Row
<1>4. AtomsOf(row) = Touched(gate)
  BY DEF RowOfGate, AtomsOf, Touched
<1>5. LayerEvent(acc, gate) = [next |-> up, nextCz |-> upCz, rows |-> Append(acc.rows, row)]
  BY DEF LayerEvent, Raised, TopOf, Touched, RowOfGate
<1>6. up \in [Atoms -> Nat] /\ upCz \in [Atoms -> Nat]
  BY <1>1, <1>2 DEF Raised
<1>7. Append(acc.rows, row) \in Seq(Row)
  BY <1>1, <1>3, Appended
<1>8. upCz = IF Len(gate) = 2 THEN Raised(acc.nextCz, Touched(gate), TopOf(acc.nextCz, gate))
             ELSE acc.nextCz
  <2>1. CASE Len(gate) = 2
    BY <2>1 DEF Raised
  <2>2. CASE Len(gate) # 2
    BY <1>1, <2>2
  <2> QED
    BY <2>1, <2>2
<1> HIDE DEF row, up, upCz
<1>9. LayerEvent(acc, gate) \in Accumulators
  BY <1>5, <1>6, <1>7 DEF Accumulators
<1> QED
  BY <1>3, <1>4, <1>5, <1>8, <1>9 DEF row, up

\* One statement more keeps the layers the earliest there are.
LEMMA EventKeeps ==
  ASSUME NEW acc, ScanInv(acc), NEW gate, GateOK(gate)
  PROVE  ScanInv(LayerEvent(acc, gate))
<1> DEFINE row == RowOfGate(acc, gate)
           rows == acc.rows
           k == Len(rows) + 1
           new == Append(rows, row)
           l == TopOf(acc.next, gate)
           z == TopOf(acc.nextCz, gate)
<1>1. acc \in Accumulators /\ gate \in Gate
  BY DEF ScanInv, GateOK
<1>2. rows \in Seq(Row) /\ acc.next \in [Atoms -> Nat] /\ acc.nextCz \in [Atoms -> Nat]
  BY <1>1 DEF Accumulators
<1>3. /\ row \in Row
      /\ AtomsOf(row) = Touched(gate)
      /\ LayerEvent(acc, gate) \in Accumulators
      /\ LayerEvent(acc, gate).rows = new
      /\ LayerEvent(acc, gate).next = Raised(acc.next, Touched(gate), l)
  BY <1>1, EventFacts
<1>4. LayerEvent(acc, gate).nextCz =
        IF Len(gate) = 2 THEN Raised(acc.nextCz, Touched(gate), z) ELSE acc.nextCz
  BY <1>1, EventFacts
<1>5. row.atoms = gate /\ row.layer = l /\ row.cz = IF Len(gate) = 2 THEN z ELSE NoLayer
  BY DEF RowOfGate
<1>6. /\ l \in Nat
      /\ \E top \in Touched(gate) : l = acc.next[top]
      /\ \A q \in Touched(gate) : acc.next[q] <= l
      /\ Touched(gate) \subseteq Atoms
  BY <1>1, <1>2, TopLayer
<1>7. /\ z \in Nat
      /\ \E top \in Touched(gate) : z = acc.nextCz[top]
      /\ \A q \in Touched(gate) : acc.nextCz[q] <= z
  BY <1>1, <1>2, TopLayer
<1> HIDE DEF row, l, z
<1>8. /\ Len(rows) \in Nat /\ DOMAIN rows = 1..Len(rows) /\ k \notin DOMAIN rows
      /\ DOMAIN new = DOMAIN rows \cup {k} /\ new[k] = row
      /\ \A i \in DOMAIN rows : new[i] = rows[i] /\ i < k
      /\ \A i \in DOMAIN rows : i \in Nat /\ i <= Len(rows)
  BY <1>2, <1>3, Appended
<1> HIDE DEF new, k
<1>9. /\ Counted(rows, DOMAIN rows, LayersOf(rows), acc.next)
      /\ Counted(rows, Czs(rows), CzLayersOf(rows), acc.nextCz)
      /\ \A i \in Czs(rows) : \E p, q \in Atoms : p # q /\ rows[i].atoms = <<p, q>>
      /\ \A i \in DOMAIN rows : rows[i].layer < i
  BY DEF ScanInv
<1> HIDE DEF rows
<1>10. \A i \in DOMAIN rows : LayersOf(new)[i] = LayersOf(rows)[i]
                              /\ CzLayersOf(new)[i] = CzLayersOf(rows)[i]
  BY <1>8 DEF LayersOf, CzLayersOf
<1>11. LayersOf(new)[k] = l /\ CzLayersOf(new)[k] = row.cz
  BY <1>5, <1>8 DEF LayersOf, CzLayersOf
<1>12. Counted(new, DOMAIN new, LayersOf(new), Raised(acc.next, Touched(gate), l))
  <2>1. PICK top \in AtomsOf(row) : l = acc.next[top]
    BY <1>3, <1>6
  <2>2. PICK lay, lay2, next : lay = LayersOf(rows) /\ lay2 = LayersOf(new) /\ next = acc.next
    OBVIOUS
  <2>3. /\ Counted(rows, DOMAIN rows, lay, next) /\ AtomsOf(row) \subseteq Atoms
        /\ l = next[top] /\ \A q \in AtomsOf(row) : next[q] <= l
    BY <1>3, <1>6, <1>9, <2>1, <2>2
  <2>4. (\A i \in DOMAIN rows : lay2[i] = lay[i]) /\ lay2[Len(rows) + 1] = l
    BY <1>10, <1>11, <2>2 DEF k
  <2>5. rows \in Seq(Row) /\ row \in Row /\ l \in Nat /\ top \in AtomsOf(row)
    BY <1>2, <1>3, <1>6, <2>1
  <2>6. PICK S : S = DOMAIN rows
    OBVIOUS
  <2>7. Counted(Append(rows, row), S \cup {Len(rows) + 1}, lay2, Raised(next, AtomsOf(row), l))
    BY ONLY <2>3, <2>4, <2>5, <2>6, CountOne
  <2> QED
    BY <1>3, <1>8, <2>2, <2>6, <2>7 DEF k, new
<1>15. \A i \in DOMAIN new : new[i].layer < i
  <2>1. l < k
    <3>1. CASE l = 0
      BY <1>8, <3>1 DEF k
    <3>2. CASE l # 0
      <4>1. PICK t \in Touched(gate) : l = acc.next[t]
        BY <1>6
      <4>2. PICK i \in On(rows, DOMAIN rows, t) : LayersOf(rows)[i] = l - 1
        BY <1>6, <1>9, <3>2, <4>1 DEF Counted
      <4>3. i \in DOMAIN rows /\ rows[i].layer = l - 1 /\ rows[i].layer < i
        BY <1>9, <4>2 DEF On, OfAtom, LayersOf
      <4> QED
        BY <1>6, <1>8, <4>3 DEF k
    <3> QED
      BY <3>1, <3>2
  <2> QED
    BY <1>5, <1>8, <1>9, <2>1
<1>13. CASE Len(gate) = 2
  <2>1. PICK top \in AtomsOf(row) : z = acc.nextCz[top]
    BY <1>3, <1>7
  <2>2. PICK lay, lay2, next, S :
          lay = CzLayersOf(rows) /\ lay2 = CzLayersOf(new) /\ next = acc.nextCz /\ S = Czs(rows)
    OBVIOUS
  <2>3. /\ Counted(rows, S, lay, next) /\ AtomsOf(row) \subseteq Atoms
        /\ z = next[top] /\ \A q \in AtomsOf(row) : next[q] <= z
    BY <1>3, <1>6, <1>7, <1>9, <2>1, <2>2
  <2>4. (\A i \in S : lay2[i] = lay[i]) /\ lay2[Len(rows) + 1] = z
    BY <1>5, <1>10, <1>11, <1>13, <2>2 DEF k, Czs
  <2>5. rows \in Seq(Row) /\ row \in Row /\ z \in Nat /\ top \in AtomsOf(row)
    BY <1>2, <1>3, <1>7, <2>1
  <2>6. Counted(Append(rows, row), S \cup {Len(rows) + 1}, lay2, Raised(next, AtomsOf(row), z))
    BY ONLY <2>3, <2>4, <2>5, CountOne
  <2>7. row.cz # NoLayer
    BY <1>5, <1>7, <1>13 DEF NoLayer
  <2>8. Czs(new) = S \cup {k}
    BY <1>8, <2>2, <2>7 DEF Czs
  <2>9. Counted(new, Czs(new), CzLayersOf(new), LayerEvent(acc, gate).nextCz)
    BY <1>3, <1>4, <1>13, <2>2, <2>6, <2>8 DEF k, new
  <2>10. \E p, q \in Atoms : p # q /\ row.atoms = <<p, q>>
    <3>1. PICK p \in Atoms, q \in Atoms : gate = <<p, q>>
      <4>1. \A a : Len(<<a>>) # 2
        OBVIOUS
      <4> QED
        BY <1>1, <1>13, <4>1 DEF Gate
    <3>2. gate[1] # gate[2] /\ gate[1] = p /\ gate[2] = q
      BY <1>13, <3>1 DEF GateOK
    <3> QED
      BY <1>5, <3>1, <3>2
  <2>11. \A i \in Czs(new) : \E p, q \in Atoms : p # q /\ new[i].atoms = <<p, q>>
    BY <1>8, <1>9, <2>2, <2>8, <2>10 DEF Czs
  <2> QED
    BY <1>3, <1>12, <1>15, <2>9, <2>11 DEF ScanInv
<1>14. CASE Len(gate) # 2
  <2>2. PICK lay, lay2, next, S :
          lay = CzLayersOf(rows) /\ lay2 = CzLayersOf(new) /\ next = acc.nextCz /\ S = Czs(rows)
    OBVIOUS
  <2>3. Counted(rows, S, lay, next) /\ (\A i \in S : lay2[i] = lay[i])
    BY <1>9, <1>10, <2>2 DEF Czs
  <2>4. rows \in Seq(Row) /\ row \in Row
    BY <1>2, <1>3
  <2>6. Counted(Append(rows, row), S, lay2, next)
    BY ONLY <2>3, <2>4, CountNone
  <2>7. row.cz = NoLayer
    BY <1>5, <1>14
  <2>8. Czs(new) = S
    BY <1>8, <2>2, <2>7 DEF Czs
  <2>9. Counted(new, Czs(new), CzLayersOf(new), LayerEvent(acc, gate).nextCz)
    BY <1>4, <1>14, <2>2, <2>6, <2>8 DEF new
  <2>11. \A i \in Czs(new) : \E p, q \in Atoms : p # q /\ new[i].atoms = <<p, q>>
    BY <1>8, <1>9, <2>2, <2>8 DEF Czs
  <2> QED
    BY <1>3, <1>12, <1>15, <2>9, <2>11 DEF ScanInv
<1> QED
  BY <1>13, <1>14

\* The scan of a circuit, gate by gate.
LEMMA ScanUpTo ==
  ASSUME NEW gates, Circuit(gates)
  PROVE  \E scan \in [0..Len(gates) -> Accumulators] :
           /\ scan[0] = EmptyStore
           /\ \A i \in 1..Len(gates) : scan[i] = LayerEvent(scan[i - 1], gates[i])
           /\ Stored(gates) = scan[Len(gates)].rows
<1> DEFINE n == Len(gates)
           S == Accumulators
           Line(u, i) == IF i = 0 THEN EmptyStore ELSE LayerEvent(u[i - 1], gates[i])
           Fits(u) == u = [i \in 0..n |-> Line(u, i)]
           step == [i \in 1..n |-> [acc \in S |-> LayerEvent(acc, gates[i])]]
           none == EmptyStore
<1>1. n \in Nat /\ none \in S
  BY DEF Circuit, EmptyStore, Accumulators
<1>2. \A i \in 1..n, acc \in S : LayerEvent(acc, gates[i]) \in S
  <2> TAKE i \in 1..n, acc \in S
  <2>1. gates[i] \in Gate
    BY DEF Circuit
  <2> QED
    BY <2>1, EventFacts
<1>3. \A u, i : i \in 1..n => Line(u, i) = LayerEvent(u[i - 1], gates[i])
  BY <1>1
<1>4. \A u : Line(u, 0) = none
  OBVIOUS
<1>5. Stored(gates) = (CHOOSE u : Fits(u))[n].rows
  BY DEF Stored
<1> HIDE DEF n, S, Line, none
<1>6. step \in Steps(n, S)
  BY <1>2 DEF Steps
<1>7. \A i \in 1..n, acc \in S : step[i][acc] = LayerEvent(acc, gates[i])
  OBVIOUS
<1> HIDE DEF step
<1>8. PICK u : Recursion(u, none, n, S, step)
  BY <1>1, <1>6, RecursionUpTo
<1>9. /\ u \in [0..n -> S] /\ u[0] = none
      /\ \A i \in 1..n : u[i] = LayerEvent(u[i - 1], gates[i])
  BY <1>1, <1>7, <1>8 DEF Recursion
<1>10. \A i \in 0..n : u[i] = Line(u, i)
  <2> TAKE i \in 0..n
  <2>1. i = 0 \/ i \in 1..n
    BY <1>1
  <2> QED
    BY <1>3, <1>4, <1>9, <2>1
<1>11. Fits(u)
  BY <1>9, <1>10
<1> DEFINE v == CHOOSE w : Fits(w)
<1> HIDE DEF Fits
<1>12. Fits(v)
  BY <1>11
<1> HIDE DEF v
<1>13. v = [i \in 0..n |-> Line(v, i)]
  BY <1>12 DEF Fits
<1>14. \A i \in 0..n : v[i] = Line(v, i)
  BY <1>13
<1>15. v[0] = none /\ \A i \in 1..n : v[i] = LayerEvent(v[i - 1], gates[i])
  BY <1>1, <1>3, <1>4, <1>14
<1>16. \A i \in 0..n : v[i] = u[i]
  <2>1. StaysAlike(v, u, n)
    BY <1>9, <1>15 DEF StaysAlike
  <2> QED
    BY <1>1, <2>1, SameFromZero DEF Alike
<1>17. v[n] = u[n]
  BY <1>1, <1>16
<1>18. Stored(gates) = u[n].rows
  BY <1>5, <1>17 DEF v
<1> QED
  BY <1>9, <1>18 DEF n, S, none

\* The empty store.
LEMMA EmptyScan == ScanInv(EmptyStore)
<1>1. EmptyStore \in Accumulators
  BY DEF EmptyStore, Accumulators
<1>2. /\ EmptyStore.rows = <<>> /\ DOMAIN EmptyStore.rows = {}
      /\ EmptyStore.next = [q \in Atoms |-> 0] /\ EmptyStore.nextCz = [q \in Atoms |-> 0]
  BY DEF EmptyStore
<1>3. Czs(EmptyStore.rows) = {}
  BY <1>2 DEF Czs
<1>4. \A lay, next : next = [q \in Atoms |-> 0] => Counted(EmptyStore.rows, {}, lay, next)
  BY DEF Counted, Asap, On
<1> QED
  BY <1>1, <1>2, <1>3, <1>4 DEF ScanInv

\* What a scan writes: rows whose layers are the earliest there are.
LEMMA ScanSound ==
  ASSUME NEW gates, Circuit(gates)
  PROVE  \E acc : ScanInv(acc) /\ acc.rows = Stored(gates) /\ Len(acc.rows) = Len(gates)
<1>1. PICK scan \in [0..Len(gates) -> Accumulators] :
           /\ scan[0] = EmptyStore
           /\ \A i \in 1..Len(gates) : scan[i] = LayerEvent(scan[i - 1], gates[i])
           /\ Stored(gates) = scan[Len(gates)].rows
  BY ScanUpTo
<1>2. Len(gates) \in Nat /\ \A i \in 1..Len(gates) : GateOK(gates[i])
  BY DEF Circuit, GateOK
<1> DEFINE n == Len(gates)
           Good == {i \in 0..n : ScanInv(scan[i]) /\ Len(scan[i].rows) = i}
<1> HIDE DEF n
<1>3. 0 \in Good
  BY <1>1, <1>2, EmptyScan DEF EmptyStore, n
<1>4. ASSUME NEW i \in Nat, i < n, i \in Good
      PROVE  i + 1 \in Good
  <2>1. i + 1 \in 1..n /\ i + 1 \in 0..n /\ (i + 1) - 1 = i
    BY <1>2, <1>4 DEF n
  <2>2. ScanInv(scan[i]) /\ Len(scan[i].rows) = i
    BY <1>4
  <2>3. scan[i + 1] = LayerEvent(scan[i], gates[i + 1]) /\ GateOK(gates[i + 1])
    BY <1>1, <1>2, <2>1 DEF n
  <2>4. ScanInv(scan[i + 1])
    BY <2>2, <2>3, EventKeeps
  <2>5. Len(scan[i + 1].rows) = i + 1
    <3>1. scan[i] \in Accumulators /\ gates[i + 1] \in Gate
      BY <2>2, <2>3 DEF ScanInv, GateOK
    <3>2. scan[i].rows \in Seq(Row)
      BY <3>1 DEF Accumulators
    <3>3. scan[i + 1].rows = Append(scan[i].rows, RowOfGate(scan[i], gates[i + 1]))
      BY <2>3, <3>1, EventFacts
    <3>4. Len(scan[i + 1].rows) = Len(scan[i].rows) + 1
      BY <3>2, <3>3
    <3> QED
      BY <2>2, <3>4
  <2> QED
    BY <2>1, <2>4, <2>5
<1> HIDE DEF Good
<1>5. \A i \in 0..n : i \in Good
  BY <1>2, <1>3, <1>4, IntervalInduction DEF n
<1>6. n \in Good
  BY <1>2, <1>5 DEF n
<1> QED
  BY <1>1, <1>6 DEF Good, n

\* A sound store.
Sound(s) ==
  /\ s \in Seq(Row)
  /\ \A i \in Czs(s) : \E p, q \in Atoms : p # q /\ s[i].atoms = <<p, q>>
  /\ Asap(s, DOMAIN s, LayersOf(s))
  /\ Asap(s, Czs(s), CzLayersOf(s))
  /\ \A i \in DOMAIN s : s[i].layer < i

\* The store of a circuit is sound, and no longer than the circuit.
LEMMA StoredSound ==
  ASSUME NEW c \in Circuits
  PROVE  Sound(Stored(c)) /\ Len(Stored(c)) <= Longest
<1>1. Circuit(c) /\ Len(c) <= Longest
  BY CompilerAssumption DEF Circuit
<1>2. PICK acc : ScanInv(acc) /\ acc.rows = Stored(c) /\ Len(acc.rows) = Len(c)
  BY <1>1, ScanSound
<1>3. acc.rows \in Seq(Row)
  BY <1>2 DEF ScanInv, Accumulators
<1> QED
  BY <1>1, <1>2, <1>3 DEF ScanInv, Counted, Sound

-----------------------------------------------------------------------------
(* The trace and the gates of an atom in it.                                *)

Emitted(t) == UNION {t[n] : n \in DOMAIN t}

\* Rows that share an atom.
Share(i, j) == AtomsOf(store[i]) \cap AtomsOf(store[j]) # {}

\* A trace never goes back: gates that share an atom are in the order of the
\* circuit and in events of their own, and none is there before those it waits for.
Events(t) == t \in Seq(SUBSET DOMAIN store)
Forward(t) ==
  \A n, m \in DOMAIN t : \A i \in t[n], j \in t[m] :
    Share(i, j) => (n < m => i < j) /\ (n = m => i = j)
Grounded(t) == \A i \in Emitted(t) : Before(store, i, DOMAIN store) \subseteq Emitted(t)

TraceOK(t) == Events(t) /\ Forward(t) /\ Grounded(t)

\* A beginning of such a trace is another.
LEMMA PrefixOK ==
  ASSUME NEW t, TraceOK(t), NEW n \in 0..Len(t), Sound(store)
  PROVE  TraceOK(SubSeq(t, 1, n)) /\ Len(SubSeq(t, 1, n)) = n
<1> DEFINE p == SubSeq(t, 1, n)
<1>0. DOMAIN store \subseteq Int
  <2>1. store \in Seq(Row)
    BY DEF Sound
  <2> QED
    BY <2>1
<1>1. t \in Seq(SUBSET DOMAIN store) /\ Len(t) \in Nat /\ DOMAIN t = 1..Len(t)
  BY DEF TraceOK, Events
<1>2. p \in Seq(SUBSET DOMAIN store) /\ Len(p) = n
  BY <1>1
<1>3. \A k \in 1..n : p[k] = t[k] /\ k \in DOMAIN t
  BY <1>1
<1>4. DOMAIN p = 1..n
  BY <1>2
<1> HIDE DEF p
<1>5. Forward(p)
  BY <1>3, <1>4 DEF TraceOK, Forward
<1>6. Grounded(p)
  <2> SUFFICES ASSUME NEW i \in Emitted(p), NEW j \in Before(store, i, DOMAIN store)
               PROVE  j \in Emitted(p)
    BY DEF Grounded
  <2>1. PICK k \in 1..n : i \in p[k]
    BY <1>4 DEF Emitted
  <2>2. k \in DOMAIN t /\ i \in t[k]
    BY <1>3, <2>1
  <2>3. i \in Emitted(t)
    BY <2>2 DEF Emitted
  <2>4. j \in Emitted(t)
    BY <2>3 DEF TraceOK, Grounded
  <2>5. PICK m \in DOMAIN t : j \in t[m]
    BY <2>4 DEF Emitted
  <2>6. j < i /\ Share(i, j) /\ i \in Int /\ j \in Int
    <3>1. i \in DOMAIN store
      BY <1>1, <2>2
    <3> QED
      BY <1>0, <3>1 DEF Before, Share
  <2>7. Share(i, j) => (k < m => i < j) /\ (k = m => i = j)
    BY <2>2, <2>5 DEF TraceOK, Forward
  <2>8. ~ (k < m)
    BY <2>6, <2>7
  <2>9. m \in 1..n
    BY <1>1, <2>1, <2>5, <2>8
  <2>10. j \in p[m]
    BY <1>3, <2>5, <2>9
  <2> QED
    BY <1>4, <2>9, <2>10 DEF Emitted
<1> QED
  BY <1>2, <1>5, <1>6 DEF TraceOK, Events, p

\* In such a trace every atom has the first of its gates, in order.
LEMMA GatesBegin ==
  ASSUME NEW t, TraceOK(t), Sound(store), NEW q \in Atoms
  PROVE  /\ Begins(GatesOn(q, t), Ledger(q))
         /\ Emitted(t) = DOMAIN store => GatesOn(q, t) = Ledger(q)
<1> DEFINE H == {n \in DOMAIN t : q \in AtomsIn(t[n])}
           T == OfAtom(store, q)
           One(n) == CHOOSE i \in t[n] : q \in AtomsOf(store[i])
           r == [n \in H |-> One(n)]
<1>1. t \in Seq(SUBSET DOMAIN store) /\ Len(t) \in Nat /\ DOMAIN t = 1..Len(t)
  BY DEF TraceOK, Events
<1>2. store \in Seq(Row) /\ Len(store) \in Nat /\ DOMAIN store = 1..Len(store)
  BY DEF Sound
<1>3. Numbers(H)
  <2>1. H \in SUBSET (1..Len(t)) /\ IsFiniteSet(1..Len(t))
    BY <1>1, FS_Interval
  <2>2. IsFiniteSet(H)
    BY <2>1, FS_Subset
  <2>3. 1..Len(t) \subseteq Int
    BY <1>1
  <2> QED
    BY <2>1, <2>2, <2>3 DEF Numbers
<1>4. Numbers(T)
  <2>1. T \in SUBSET (1..Len(store)) /\ IsFiniteSet(1..Len(store))
    BY <1>2, FS_Interval DEF OfAtom
  <2>2. IsFiniteSet(T)
    BY <2>1, FS_Subset
  <2>3. 1..Len(store) \subseteq Int
    BY <1>2
  <2> QED
    BY <2>1, <2>2, <2>3 DEF Numbers
<1>5. ASSUME NEW n \in H
      PROVE  /\ n \in DOMAIN t /\ One(n) \in t[n] /\ One(n) \in T
             /\ q \in AtomsOf(store[One(n)])
  <2>1. \E i \in t[n] : q \in AtomsOf(store[i])
    BY DEF AtomsIn
  <2>2. One(n) \in t[n] /\ q \in AtomsOf(store[One(n)])
    BY <2>1
  <2>3. t[n] \subseteq DOMAIN store
    BY <1>1
  <2> QED
    BY <2>2, <2>3 DEF OfAtom
<1>6. r \in [H -> T]
  BY <1>5
<1>7. \A n \in H : r[n] = One(n)
  OBVIOUS
<1>8. GatesOn(q, t) = [k \in DOMAIN InOrder(H) |-> One(InOrder(H)[k])]
  BY DEF GatesOn
<1> HIDE DEF One, r
<1>9. Ascends(H, r)
  <2> SUFFICES ASSUME NEW m \in H, NEW n \in H, m < n
               PROVE  r[m] < r[n]
    BY DEF Ascends
  <2>1. Share(r[m], r[n]) /\ r[m] \in t[m] /\ r[n] \in t[n] /\ m \in DOMAIN t /\ n \in DOMAIN t
    BY <1>5, <1>7 DEF Share
  <2> QED
    BY <2>1 DEF TraceOK, Forward
<1>10. \A j \in T : j \in Emitted(t) => \E m \in H : r[m] = j
  <2> SUFFICES ASSUME NEW j \in T, j \in Emitted(t)
               PROVE  \E m \in H : r[m] = j
    OBVIOUS
  <2>1. PICK m \in DOMAIN t : j \in t[m]
    BY DEF Emitted
  <2>2. q \in AtomsOf(store[j])
    BY DEF OfAtom
  <2>3. m \in H
    BY <2>1, <2>2 DEF AtomsIn
  <2>4. r[m] \in t[m] /\ Share(r[m], j)
    BY <1>5, <1>7, <2>2, <2>3 DEF Share
  <2>5. r[m] = j
    BY <2>1, <2>4 DEF TraceOK, Forward
  <2> QED
    BY <2>3, <2>5
<1>11. Beginning(H, T, r)
  <2> SUFFICES ASSUME NEW n \in H, NEW j \in T, j < r[n]
               PROVE  \E m \in H : r[m] = j
    BY DEF Beginning
  <2>1. /\ n \in DOMAIN t /\ r[n] \in t[n]
        /\ q \in AtomsOf(store[r[n]]) /\ q \in AtomsOf(store[j]) /\ j \in DOMAIN store
    BY <1>5, <1>7 DEF OfAtom
  <2>2. r[n] \in Emitted(t)
    BY <2>1 DEF Emitted
  <2>3. j \in Before(store, r[n], DOMAIN store)
    BY <2>1 DEF Before
  <2>4. j \in Emitted(t)
    BY <2>2, <2>3 DEF TraceOK, Grounded
  <2> QED
    BY <1>10, <2>4
<1> HIDE DEF H, T
<1>12. /\ Cardinality(H) \in Nat /\ Cardinality(T) \in Nat
       /\ Cardinality(H) <= Cardinality(T)
       /\ \A k \in 1..Cardinality(H) : InOrder(T)[k] = r[InOrder(H)[k]]
       /\ (\A j \in T : \E m \in H : r[m] = j) => Cardinality(H) = Cardinality(T)
  BY <1>3, <1>4, <1>6, <1>9, <1>11, AlikeInOrder
<1>13. InOrder(T) \in Seq(T) /\ Len(InOrder(T)) = Cardinality(T)
  BY <1>4, InOrderFacts
<1>14. /\ InOrder(H) \in Seq(H) /\ Len(InOrder(H)) = Cardinality(H)
       /\ \A k \in 1..Cardinality(H) : InOrder(H)[k] \in H
  BY <1>3, InOrderFacts
<1>15. DOMAIN InOrder(H) = 1..Cardinality(H)
  BY <1>14
<1>16. GatesOn(q, t) = [k \in 1..Cardinality(H) |-> InOrder(T)[k]]
  BY <1>7, <1>8, <1>12, <1>14, <1>15
<1>17. Ledger(q) = InOrder(T)
  BY DEF Ledger, T
<1>18. InOrder(T) = [k \in 1..Cardinality(T) |-> InOrder(T)[k]]
  BY <1>13
<1>19. Len(GatesOn(q, t)) = Cardinality(H)
  BY <1>12, <1>16
<1>20. SubSeq(InOrder(T), 1, Cardinality(H)) = [k \in 1..Cardinality(H) |-> InOrder(T)[k]]
  BY <1>12, <1>13
<1>21. Begins(GatesOn(q, t), Ledger(q))
  BY <1>12, <1>13, <1>16, <1>17, <1>19, <1>20 DEF Begins
<1>22. ASSUME Emitted(t) = DOMAIN store
       PROVE  GatesOn(q, t) = Ledger(q)
  <2>1. \A j \in T : \E m \in H : r[m] = j
    <3>1. T \subseteq DOMAIN store
      BY DEF T, OfAtom
    <3> QED
      BY <1>10, <1>22, <3>1
  <2> QED
    BY <1>12, <1>16, <1>17, <1>18, <2>1
<1> QED
  BY <1>21, <1>22

(* How a trace grows.                                                       *)

Below(l) == {i \in DOMAIN store : store[i].layer < l}

\* A layer is below the number of its row.
LEMMA RowFacts ==
  ASSUME Sound(store)
  PROVE  \A i \in DOMAIN store : i \in Nat /\ store[i].layer \in Nat /\ store[i].layer < i
<1>1. store \in Seq(Row) /\ Len(store) \in Nat /\ DOMAIN store = 1..Len(store)
  BY DEF Sound
<1>2. \A i \in DOMAIN store : store[i] \in Row /\ store[i].layer < i
  BY <1>1 DEF Sound
<1>3. \A i \in DOMAIN store : store[i].layer \in Nat
  BY <1>2 DEF Row
<1> QED
  BY <1>1, <1>2, <1>3

\* The gates of a layer, in events without one in common, may follow when the
\* layers below it are all there.
LEMMA TraceGrows ==
  ASSUME Sound(store), NEW t, TraceOK(t), NEW l \in Nat,
         Below(l) \subseteq Emitted(t), Emitted(t) \subseteq Below(l + 1),
         NEW u \in Seq(SUBSET (Batch(store, l) \ Emitted(t))),
         \A n, m \in DOMAIN u : n # m => u[n] \cap u[m] = {}
  PROVE  TraceOK(t \o u) /\ Emitted(t \o u) = Emitted(t) \cup Emitted(u)
<1> DEFINE w == t \o u
           a == Len(t)
           b == Len(u)
<1>1. t \in Seq(SUBSET DOMAIN store) /\ a \in Nat /\ DOMAIN t = 1..a
  BY DEF TraceOK, Events
<1>2. b \in Nat /\ DOMAIN u = 1..b
  OBVIOUS
<1>3. \A n \in DOMAIN u : u[n] \subseteq Batch(store, l) \ Emitted(t)
  OBVIOUS
<1>4. u \in Seq(SUBSET DOMAIN store)
  <2>1. Batch(store, l) \subseteq DOMAIN store
    BY DEF Batch
  <2>2. SUBSET (Batch(store, l) \ Emitted(t)) \subseteq SUBSET DOMAIN store
    BY <2>1
  <2> QED
    BY <2>2, SeqMonotonic
<1>5. w \in Seq(SUBSET DOMAIN store) /\ Len(w) = a + b
  BY <1>1, <1>4
<1>6. \A k \in 1..(a + b) : w[k] = IF k <= a THEN t[k] ELSE u[k - a]
  BY <1>1, <1>4, ConcatProperties
<1>7. DOMAIN w = 1..(a + b)
  BY <1>5
<1> HIDE DEF w, a, b
<1>8. ASSUME NEW k \in DOMAIN w
      PROVE  \/ k \in DOMAIN t /\ w[k] = t[k]
             \/ k - a \in DOMAIN u /\ w[k] = u[k - a] /\ k > a
  BY <1>1, <1>2, <1>6, <1>7
<1>9. Emitted(w) = Emitted(t) \cup Emitted(u)
  <2>1. \A k \in DOMAIN t : k \in DOMAIN w /\ w[k] = t[k]
    BY <1>1, <1>2, <1>6, <1>7
  <2>2. \A k \in DOMAIN u : k + a \in DOMAIN w /\ w[k + a] = u[k]
    BY <1>1, <1>2, <1>6, <1>7
  <2>3. Emitted(w) \subseteq Emitted(t) \cup Emitted(u)
    BY <1>8 DEF Emitted
  <2>4. Emitted(t) \subseteq Emitted(w)
    BY <2>1 DEF Emitted
  <2>5. Emitted(u) \subseteq Emitted(w)
    BY <2>2 DEF Emitted
  <2> QED
    BY <2>3, <2>4, <2>5
<1>10. \A i \in DOMAIN store : i \in Nat /\ store[i].layer \in Nat
  BY RowFacts
<1>11. \A i \in DOMAIN store : \A j \in Before(store, i, DOMAIN store) :
         store[j].layer < store[i].layer
  <2>1. Asap(store, DOMAIN store, LayersOf(store))
    BY DEF Sound
  <2>2. \A i \in DOMAIN store : \A j \in Before(store, i, DOMAIN store) :
          LayersOf(store)[j] < LayersOf(store)[i]
    BY <2>1 DEF Asap
  <2>3. \A i \in DOMAIN store : Before(store, i, DOMAIN store) \subseteq DOMAIN store
    BY DEF Before
  <2>4. \A i \in DOMAIN store : LayersOf(store)[i] = store[i].layer
    BY DEF LayersOf
  <2> QED
    BY <2>2, <2>3, <2>4
\* New rows come after all that they share an atom with.
<1>12. ASSUME NEW i \in Emitted(t), NEW j \in Batch(store, l) \ Emitted(t), Share(i, j)
       PROVE  i < j
  <2>1. i \in DOMAIN store /\ j \in DOMAIN store /\ store[j].layer = l /\ i # j
    BY <1>1 DEF Batch, Emitted
  <2>2. store[i].layer < l + 1
    BY DEF Below
  <2>3. i \in Nat /\ j \in Nat /\ store[i].layer \in Nat
    BY <1>10, <2>1
  <2>4. CASE j < i
    <3>1. j \in Before(store, i, DOMAIN store)
      BY <1>12, <2>1, <2>4 DEF Before, Share
    <3>2. l < store[i].layer
      BY <1>11, <2>1, <3>1
    <3> QED
      BY <2>2, <2>3, <3>2
  <2> QED
    BY <2>1, <2>3, <2>4
\* New rows share no atom.
<1>13. ASSUME NEW i \in Batch(store, l), NEW j \in Batch(store, l), Share(i, j)
       PROVE  i = j
  <2>1. i \in DOMAIN store /\ j \in DOMAIN store /\ store[j].layer = l /\ store[i].layer = l
    BY DEF Batch
  <2>2. i \in Nat /\ j \in Nat
    BY <1>10, <2>1
  <2>3. CASE j < i
    <3>1. j \in Before(store, i, DOMAIN store)
      BY <1>13, <2>1, <2>3 DEF Before, Share
    <3> QED
      BY <1>11, <2>1, <3>1
  <2>4. CASE i < j
    <3>1. i \in Before(store, j, DOMAIN store)
      BY <1>13, <2>1, <2>4 DEF Before, Share
    <3> QED
      BY <1>11, <2>1, <3>1
  <2> QED
    BY <2>2, <2>3, <2>4
<1>14. Forward(w)
  <2> SUFFICES ASSUME NEW n \in DOMAIN w, NEW m \in DOMAIN w, NEW i \in w[n], NEW j \in w[m],
                      Share(i, j)
               PROVE  (n < m => i < j) /\ (n = m => i = j)
    BY DEF Forward
  <2>0. n \in Int /\ m \in Int /\ a \in Int
    BY <1>1, <1>2, <1>7
  <2>1. CASE n \in DOMAIN t /\ w[n] = t[n] /\ m \in DOMAIN t /\ w[m] = t[m]
    BY <2>1 DEF TraceOK, Forward
  <2>2. CASE /\ n \in DOMAIN t /\ w[n] = t[n]
             /\ m - a \in DOMAIN u /\ w[m] = u[m - a] /\ m > a
    <3>1. i \in Emitted(t) /\ j \in Batch(store, l) \ Emitted(t)
      BY <1>3, <2>2 DEF Emitted
    <3>2. n # m
      BY <1>1, <2>0, <2>2
    <3> QED
      BY <1>12, <3>1, <3>2
  <2>3. CASE /\ n - a \in DOMAIN u /\ w[n] = u[n - a] /\ n > a
             /\ m \in DOMAIN t /\ w[m] = t[m]
    <3>1. m <= a
      BY <1>1, <2>3
    <3>2. m < n
      BY <2>0, <2>3, <3>1
    <3> QED
      BY <2>0, <3>2
  <2>4. CASE /\ n - a \in DOMAIN u /\ w[n] = u[n - a]
             /\ m - a \in DOMAIN u /\ w[m] = u[m - a]
    <3>1. i \in Batch(store, l) /\ j \in Batch(store, l)
      BY <1>3, <2>4
    <3>2. i = j
      BY <1>13, <3>1
    <3>3. n - a = m - a
      BY <2>4, <3>2
    <3> QED
      BY <2>0, <3>2, <3>3
  <2> QED
    BY <1>8, <2>1, <2>2, <2>3, <2>4
<1>15. Grounded(w)
  <2> SUFFICES ASSUME NEW i \in Emitted(w), NEW j \in Before(store, i, DOMAIN store)
               PROVE  j \in Emitted(t)
    BY <1>9 DEF Grounded
  <2>1. CASE i \in Emitted(t)
    BY <2>1 DEF TraceOK, Grounded
  <2>2. CASE i \in Emitted(u)
    <3>1. i \in Batch(store, l)
      BY <1>3, <2>2 DEF Emitted
    <3>2. i \in DOMAIN store /\ store[i].layer = l /\ j \in DOMAIN store
      BY <3>1 DEF Batch, Before
    <3>3. store[j].layer < l
      BY <1>11, <3>2
    <3> QED
      BY <3>2, <3>3 DEF Below
  <2> QED
    BY <1>9, <2>1, <2>2
<1> QED
  BY <1>5, <1>9, <1>14, <1>15 DEF TraceOK, Events, w

-----------------------------------------------------------------------------
(* Mappings.                                                                *)

\* A mapping that seats everybody alone.
MapOK(m) == m \in [Atoms -> Sites \cup {Home}] /\ SeatsAlone(m)

\* The places of some atoms.
Places(m, atoms) == {m[q] : q \in atoms}

\* Two atoms put on the sites of a pair.
Put(m, a, b, site) == [m EXCEPT ![a] = site, ![b] = Other(site)]

LEMMA SiteFacts ==
  ASSUME NEW s \in Sites
  PROVE  /\ PairOf(s) \in Pairs
         /\ s \in SitesOf(PairOf(s))
         /\ SitesOf(PairOf(s)) = {s, Other(s)}
         /\ s # Home
<1>1. NPairs \in Nat BY CompilerAssumption
<1>2. s \in Nat /\ s >= 1 /\ s <= 2 * NPairs BY <1>1 DEF Sites
<1>3. PICK p \in Int : s = 2 * p - 1 \/ s = 2 * p
  <2>1. s = 2 * ((s + 1) \div 2) - 1 \/ s = 2 * ((s + 1) \div 2) BY <1>2
  <2> QED BY <2>1, <1>2
<1>4. PairOf(s) = p BY <1>2, <1>3 DEF PairOf
<1>5. p >= 1 /\ p <= NPairs BY <1>1, <1>2, <1>3
<1>6. Other(s) = IF s = 2 * p - 1 THEN s + 1 ELSE s - 1 BY <1>2, <1>3 DEF Other
<1> QED BY <1>1, <1>2, <1>3, <1>4, <1>5, <1>6 DEF Pairs, SitesOf, Home

LEMMA PairFacts ==
  ASSUME NEW p \in Pairs
  PROVE  /\ SitesOf(p) \subseteq Sites
         /\ 2 * p - 1 \in SitesOf(p)
         /\ \A s \in SitesOf(p) : PairOf(s) = p
<1>1. NPairs \in Nat BY CompilerAssumption
<1>2. p \in Nat /\ p >= 1 /\ p <= NPairs BY <1>1 DEF Pairs
<1>3. (2 * p - 1 + 1) \div 2 = p /\ (2 * p + 1) \div 2 = p BY <1>2
<1> QED BY <1>1, <1>2, <1>3 DEF SitesOf, Sites, PairOf

LEMMA SitesAreIntegers ==
  ASSUME NEW m, MapOK(m)
  PROVE  m \in [Atoms -> Int]
<1>1. m \in [Atoms -> Sites \cup {Home}] BY DEF MapOK
<1>2. Sites \cup {Home} \subseteq Int BY CompilerAssumption DEF Sites, Home
<1> QED BY <1>1, <1>2

\* Going home makes no two atoms share a site.
LEMMA ReturnedOK ==
  ASSUME NEW m, MapOK(m), NEW atoms
  PROVE  MapOK(Returned(m, atoms))
BY DEF MapOK, Returned, SeatsAlone

\* Two atoms put on the two sites of a pair that nobody else is on.
LEMMA SeatedOK ==
  ASSUME NEW m, MapOK(m), NEW a \in Atoms, NEW b \in Atoms, a # b,
         NEW p \in Pairs, NEW s \in SitesOf(p),
         \A q \in Atoms \ {a, b} : m[q] \notin SitesOf(p),
         NEW n \in [Atoms -> Int], n[a] = s, n[b] = Other(s),
         \A q \in Atoms \ {a, b} : n[q] = m[q]
  PROVE  MapOK(n) /\ SitesOf(p) = {s, Other(s)}
<1>1. s \in Sites /\ PairOf(s) = p BY PairFacts
<1>2. SitesOf(p) = {s, Other(s)} BY <1>1, SiteFacts
<1>3. s # Other(s) BY <1>1, CompilerAssumption DEF Other, Sites
<1>4. Other(s) \in Sites BY <1>2, PairFacts
<1>5. m \in [Atoms -> Sites \cup {Home}] /\ SeatsAlone(m) BY DEF MapOK
<1>6. n \in [Atoms -> Sites \cup {Home}] BY <1>1, <1>4, <1>5
<1>8. SeatsAlone(n)
  <2> SUFFICES ASSUME NEW x \in Atoms, NEW y \in Atoms, n[x] = n[y], n[x] # Home
               PROVE  x = y
    BY DEF SeatsAlone
  <2>1. CASE x \in {a, b} /\ y \in {a, b} BY <2>1, <1>3
  <2>2. CASE x \in {a, b} /\ y \notin {a, b} BY <2>2, <1>2
  <2>3. CASE x \notin {a, b} /\ y \in {a, b} BY <2>3, <1>2
  <2>4. CASE x \notin {a, b} /\ y \notin {a, b} BY <2>4, <1>5 DEF SeatsAlone
  <2> QED BY <2>1, <2>2, <2>3, <2>4
<1> QED BY <1>2, <1>6, <1>8 DEF MapOK

-----------------------------------------------------------------------------
(* The seats and the pairs: the first part of the invariant.                *)

MapInv == MapOK(mapping) /\ MapOK(saved.mapping)

\* The rows of the layer that are still on their way to a pulse, all of one
\* dependency layer, so that no two of them share an atom.
LayerInv ==
  /\ rest \cup pending \cup remaining \cup ChunkRows \subseteq Czs(store) \cap Batch(store, nextLayer)
  /\ pending \cap ChunkRows = {}
  /\ rest \cap (pending \cup remaining \cup ChunkRows) = {}
  /\ pending \cap remaining = {} /\ remaining \cap ChunkRows = {}
  /\ pc # "pass" => pending = {} /\ remaining = {} /\ chunk = {}
  /\ pc \notin {"groups", "pass"} => rest = {}
  /\ pc = "pass" => pending \cup remaining \cup ChunkRows # {}

\* While the chunk is empty, a gate that was put off has both atoms at home
\* and every pair is somebody's.
WaitInv ==
  pc = "pass" /\ chunk = {} /\ remaining # {} =>
    /\ \A q \in AtomsIn(remaining) : mapping[q] = Home
    /\ FreePairs(mapping) = {}

IInv ==
  /\ StoreIsSound
  /\ MapInv /\ LayerInv /\ WaitInv
  /\ \A g \in chunk : g.row \in ChunkRows /\ g.pair \in Pairs
  /\ ChunkStaysPlaced
  /\ NeverOutOfRoom

\* Two CZs of one dependency layer share no atom.
LEMMA LayerDisjoint ==
  ASSUME StoreIsSound, NEW l,
         NEW i \in Batch(store, l), NEW j \in Batch(store, l), i # j
  PROVE  AtomsOf(store[i]) \cap AtomsOf(store[j]) = {}
<1> SUFFICES ASSUME AtomsOf(store[i]) \cap AtomsOf(store[j]) # {} PROVE FALSE
  OBVIOUS
<1> DEFINE layer == [r \in DOMAIN store |-> store[r].layer]
<1>0. DOMAIN store \subseteq Nat /\ \A r \in DOMAIN store : store[r].layer \in Nat
  <2>1. store \in Seq(Row) BY DEF StoreIsSound
  <2>2. DOMAIN store = 1..Len(store) /\ Len(store) \in Nat BY <2>1
  <2>3. \A r \in DOMAIN store : store[r] \in Row BY <2>1, <2>2
  <2> QED BY <2>2, <2>3 DEF Row
<1>1. i \in DOMAIN store /\ j \in DOMAIN store /\ layer[i] = l /\ layer[j] = l
  BY DEF Batch
<1>2. \A r \in DOMAIN store : \A e \in Before(store, r, DOMAIN store) : layer[e] < layer[r]
  BY DEF StoreIsSound, Asap
<1>3. i < j \/ j < i BY <1>0, <1>1
<1>4. i \in Before(store, j, DOMAIN store) \/ j \in Before(store, i, DOMAIN store)
  BY <1>1, <1>3 DEF Before
<1>5. l < l BY <1>1, <1>2, <1>4
<1>6. l \in Nat BY <1>0, <1>1
<1> QED BY <1>5, <1>6

\* The two atoms of a CZ.
LEMMA CzAtoms ==
  ASSUME StoreIsSound, NEW g \in Czs(store)
  PROVE  /\ store[g].atoms[1] \in Atoms /\ store[g].atoms[2] \in Atoms
         /\ store[g].atoms[1] # store[g].atoms[2]
         /\ AtomsOf(store[g]) = {store[g].atoms[1], store[g].atoms[2]}
<1>1. PICK p \in Atoms, q \in Atoms : p # q /\ store[g].atoms = <<p, q>>
  BY DEF StoreIsSound
<1>2. store[g].atoms[1] = p /\ store[g].atoms[2] = q /\ DOMAIN store[g].atoms = {1, 2}
  BY <1>1
<1>3. AtomsOf(store[g]) = {p, q} BY <1>2 DEF AtomsOf
<1> QED BY <1>1, <1>2, <1>3

LEMMA LargestOfTwo ==
  ASSUME NEW a \in Atoms, NEW b \in Atoms
  PROVE  Largest({a, b}) \in {a, b}
<1>1. a \in Int /\ b \in Int BY CompilerAssumption DEF Atoms
<1>2. \E x \in {a, b} : \A y \in {a, b} : y <= x BY <1>1
<1> QED BY <1>2 DEF Largest

\* Bringing two atoms together moves nobody else.
LEMMA BroughtOK ==
  ASSUME MapInv, NEW a \in Atoms, NEW b \in Atoms
  PROVE  /\ MapOK(BroughtTogether(a, b))
         /\ \A q \in Atoms \ {a, b} : BroughtTogether(a, b)[q] = mapping[q]
         /\ BroughtTogether(a, b)[a] = Home /\ BroughtTogether(a, b)[b] = Home
              => BroughtTogether(a, b) = mapping
<1> DEFINE m == BroughtTogether(a, b)
           home == Largest({a, b})
<1>1. MapOK(mapping) BY DEF MapInv
<1>2. CASE m = mapping BY <1>1, <1>2
<1>3. CASE m # mapping
  <2>1. m = Returned(mapping, {home}) /\ mapping[a] # Home /\ mapping[b] # Home /\ a # b
    BY <1>3 DEF BroughtTogether
  <2>2. home \in {a, b} BY LargestOfTwo
  <2>3. MapOK(m) BY <1>1, <2>1, ReturnedOK
  <2>4. \A q \in Atoms : m[q] = IF q = home THEN Home ELSE mapping[q]
    BY <2>1 DEF Returned
  <2>5. m[a] # Home \/ m[b] # Home BY <2>1, <2>2, <2>4
  <2> QED BY <2>2, <2>3, <2>4, <2>5
<1> QED BY <1>2, <1>3

\* A gate is given a pair that no gate of the chunk has, and once that pair
\* is cleared nobody else sits there.
LEMMA AssignedOK ==
  ASSUME NEW m, MapOK(m), NEW a \in Atoms, NEW b \in Atoms,
         NEW p \in Assignments(m, a, b)
  PROVE  /\ p \in Pairs \ UsedPairs
         /\ MapOK(Cleared(m, a, b, p))
         /\ \A q \in Atoms \ {a, b} : Cleared(m, a, b, p)[q] \notin SitesOf(p)
         /\ \A q \in Atoms : m[q] \notin SitesOf(p) => Cleared(m, a, b, p)[q] = m[q]
         /\ SiteFor(Cleared(m, a, b, p), a, b, p) \in SitesOf(p)
<1> DEFINE seated == {PairOf(m[q]) : q \in {x \in {a, b} : m[x] # Home}} \ UsedPairs
           n == Cleared(m, a, b, p)
<1>1. m \in [Atoms -> Sites \cup {Home}] BY DEF MapOK
<1>2. \A q \in Atoms : m[q] # Home =>
        PairOf(m[q]) \in Pairs /\ m[q] \in SitesOf(PairOf(m[q]))
  BY <1>1, SiteFacts
<1>3. p \in Pairs \ UsedPairs
  <2>1. CASE seated # {} BY <2>1, <1>2 DEF Assignments
  <2>2. CASE seated = {} BY <2>2 DEF Assignments, FreePairs
  <2> QED BY <2>1, <2>2
<1>4. MapOK(n) BY ReturnedOK DEF Cleared
<1>5. SitesOf(p) \subseteq Sites /\ 2 * p - 1 \in SitesOf(p)
  BY <1>3, PairFacts
<1>6. Home \notin SitesOf(p) BY <1>5, SiteFacts
<1>7. \A q \in Atoms \ {a, b} : n[q] \notin SitesOf(p)
  <2>1. CASE {m[a], m[b]} \cap SitesOf(p) = {}
    <3>1. p \notin seated BY <2>1, <1>2
    <3>2. p \in FreePairs(m) BY <3>1 DEF Assignments
    <3> QED BY <3>2, <2>1 DEF FreePairs, Cleared
  <2>2. CASE {m[a], m[b]} \cap SitesOf(p) # {}
    BY <2>2, <1>6 DEF Cleared, Returned
  <2> QED BY <2>1, <2>2
<1>8. \A q \in Atoms : m[q] \notin SitesOf(p) => n[q] = m[q]
  BY <1>1 DEF Cleared, Returned
<1>9. SiteFor(n, a, b, p) \in SitesOf(p)
  <2>1. ASSUME n[b] \in SitesOf(p) PROVE Other(n[b]) \in SitesOf(p)
    <3>1. n[b] \in Sites /\ PairOf(n[b]) = p BY <2>1, <1>3, <1>5, PairFacts
    <3> QED BY <3>1, SiteFacts
  <2> QED BY <2>1, <1>5 DEF SiteFor
<1> QED BY <1>3, <1>4, <1>7, <1>8, <1>9

-----------------------------------------------------------------------------
(* The steps, for the seats and the pairs.                                  *)

\* Between groups nothing is on its way to a pulse.
LEMMA Settled ==
  ASSUME IInv, UNCHANGED store, MapInv', NeverOutOfRoom', pc' # "pass",
         pending' = {}, remaining' = {}, chunk' = {},
         rest' \subseteq Czs(store) \cap Batch(store, nextLayer'),
         pc' # "groups" => rest' = {}
  PROVE  IInv'
<1>1. StoreIsSound' BY DEF IInv, StoreIsSound
<1>2. ChunkRows' = {} BY DEF ChunkRows
<1>3. LayerInv' BY <1>2 DEF LayerInv
<1>4. WaitInv' BY DEF WaitInv
<1>5. ChunkStaysPlaced' BY DEF ChunkStaysPlaced
<1> QED BY <1>1, <1>3, <1>4, <1>5 DEF IInv

LEMMA InitStep ==
  ASSUME StoreIsSound, Init
  PROVE  IInv
<1>1. MapInv BY DEF Init, MapInv, MapOK, AllHome, SeatsAlone, NoCheckpoint
<1>2. LayerInv BY DEF Init, LayerInv, ChunkRows
<1>3. WaitInv /\ ChunkStaysPlaced /\ NeverOutOfRoom
  BY DEF Init, WaitInv, ChunkStaysPlaced, NeverOutOfRoom
<1>4. \A g \in chunk : g.row \in ChunkRows /\ g.pair \in Pairs BY DEF Init
<1> QED BY <1>1, <1>2, <1>3, <1>4 DEF IInv

LEMMA StartFreshStep ==
  ASSUME IInv, StartFresh
  PROVE  IInv'
<1>1. UNCHANGED store /\ pc' = "layer" /\ UNCHANGED failure BY DEF StartFresh, call
<1>2. rest' = {} /\ pending' = {} /\ remaining' = {} /\ chunk' = {}
  BY DEF StartFresh, IInv, LayerInv, group
<1>3. MapInv'
  BY DEF StartFresh, IInv, MapInv, MapOK, AllHome, SeatsAlone, disk
<1>4. NeverOutOfRoom' BY <1>1 DEF IInv, NeverOutOfRoom
<1> QED BY <1>1, <1>2, <1>3, <1>4, Settled

LEMMA ResumeStep ==
  ASSUME IInv, Resume
  PROVE  IInv'
<1>1. UNCHANGED store /\ pc' \notin {"pass", "groups"} /\ failure' \in {failure, "resume"}
  BY DEF Resume, Fail, call
<1>2. rest' = {} /\ pending' = {} /\ remaining' = {} /\ chunk' = {}
  BY DEF Resume, IInv, LayerInv, group
<1>3. MapInv' BY DEF Resume, IInv, MapInv, disk
<1>4. NeverOutOfRoom' BY <1>1 DEF IInv, NeverOutOfRoom
<1> QED BY <1>1, <1>2, <1>3, <1>4, Settled

LEMMA BeginLayerStep ==
  ASSUME IInv, BeginLayer
  PROVE  IInv'
<1>1. UNCHANGED store /\ pc' = "groups" /\ UNCHANGED <<failure, nextLayer>>
  BY DEF BeginLayer, call
<1>2. rest' = Batch(store, nextLayer) \cap Czs(store) BY DEF BeginLayer
<1>3. pending' = {} /\ remaining' = {} /\ chunk' = {}
  BY DEF BeginLayer, IInv, LayerInv
<1>4. MapInv' BY DEF BeginLayer, IInv, MapInv, disk
<1>5. NeverOutOfRoom' BY <1>1 DEF IInv, NeverOutOfRoom
<1> QED BY <1>1, <1>2, <1>3, <1>4, <1>5, Settled

LEMMA EndLayerStep ==
  ASSUME IInv, EndLayer
  PROVE  IInv'
<1>1. UNCHANGED store /\ pc' = "cadence" /\ UNCHANGED failure BY DEF EndLayer, call
<1>2. rest' = {} /\ pending' = {} /\ remaining' = {} /\ chunk' = {}
  BY DEF EndLayer, IInv, LayerInv, group
<1>3. MapInv' BY DEF EndLayer, IInv, MapInv, disk
<1>4. NeverOutOfRoom' BY <1>1 DEF IInv, NeverOutOfRoom
<1> QED BY <1>1, <1>2, <1>3, <1>4, Settled

\* A checkpoint and the end of an invocation.
LEMMA CheckpointStep ==
  ASSUME IInv, Cadence \/ Pause \/ Finish
  PROVE  IInv'
<1>1. UNCHANGED store /\ pc' \notin {"pass", "groups"} /\ UNCHANGED failure
  BY DEF Cadence, Pause, Finish, call
<1>2. rest' = {} /\ pending' = {} /\ remaining' = {} /\ chunk' = {}
  BY DEF Cadence, Pause, Finish, IInv, LayerInv, group
<1>3. mapping' = mapping /\ saved'.mapping \in {mapping, saved.mapping}
  BY DEF Cadence, Pause, Finish, Save
<1>4. MapInv' BY <1>3 DEF IInv, MapInv, MapOK, SeatsAlone
<1>5. NeverOutOfRoom' BY <1>1 DEF IInv, NeverOutOfRoom
<1> QED BY <1>1, <1>2, <1>4, <1>5, Settled

LEMMA PublishStep ==
  ASSUME IInv, Publish
  PROVE  IInv'
<1>1. UNCHANGED store /\ pc' \in {"done", "failed"} /\ failure' \in {failure, "verify"}
  BY DEF Publish, Fail, call
<1>2. rest' = {} /\ pending' = {} /\ remaining' = {} /\ chunk' = {}
  BY DEF Publish, IInv, LayerInv, group
<1>3. MapInv' BY DEF Publish, IInv, MapInv
<1>4. NeverOutOfRoom' BY <1>1 DEF IInv, NeverOutOfRoom
<1> QED BY <1>1, <1>2, <1>3, <1>4, Settled

LEMMA KillStep ==
  ASSUME IInv, Kill
  PROVE  IInv'
<1>1. UNCHANGED store /\ pc' = "idle" /\ UNCHANGED failure BY DEF Kill, call
<1>2. rest' = {} /\ pending' = {} /\ remaining' = {} /\ chunk' = {} BY DEF Kill
<1>3. MapInv'
  BY DEF Kill, IInv, MapInv, MapOK, AllHome, SeatsAlone, disk
<1>4. NeverOutOfRoom' BY <1>1 DEF IInv, NeverOutOfRoom
<1> QED BY <1>1, <1>2, <1>3, <1>4, Settled

LEMMA BeginGroupStep ==
  ASSUME IInv, BeginGroup
  PROVE  IInv'
<1>1. PICK b \in {store[i].cz : i \in rest} :
        /\ pending' = {i \in rest : store[i].cz = b}
        /\ rest' = rest \ {i \in rest : store[i].cz = b}
        /\ \E atoms : mapping' = Returned(mapping, atoms)
  BY DEF BeginGroup
<1>2. UNCHANGED <<store, nextLayer, failure, remaining, chunk, saved>> /\ pc' = "pass"
  BY DEF BeginGroup, call, disk
<1>3. pc = "groups" BY DEF BeginGroup
<1>4. remaining = {} /\ chunk = {} /\ ChunkRows' = {}
  BY <1>2, <1>3 DEF IInv, LayerInv, ChunkRows
<1>5. StoreIsSound' BY <1>2 DEF IInv, StoreIsSound
<1>6. MapInv' BY <1>1, <1>2, ReturnedOK DEF IInv, MapInv, MapOK, SeatsAlone
<1>7. LayerInv'
  <2>1. rest \subseteq Czs(store) \cap Batch(store, nextLayer)
    BY DEF IInv, LayerInv
  <2>2. pending' \subseteq rest /\ rest' \subseteq rest /\ pending' # {} /\ rest' \cap pending' = {}
    BY <1>1
  <2> QED BY <1>2, <1>4, <2>1, <2>2 DEF LayerInv
<1>8. WaitInv' /\ ChunkStaysPlaced' /\ NeverOutOfRoom'
  BY <1>2, <1>4 DEF WaitInv, ChunkStaysPlaced, IInv, NeverOutOfRoom
<1> QED BY <1>2, <1>4, <1>5, <1>6, <1>7, <1>8 DEF IInv

\* Room can be made: the deferred gates' atoms are at home, and the first
\* pair is somebody's.
LEMMA MakeRoomStep ==
  ASSUME IInv, MakeRoom
  PROVE  IInv'
<1>1. pc = "pass" /\ pending = {} /\ chunk = {} BY DEF MakeRoom
<1>2. remaining # {} BY <1>1 DEF IInv, LayerInv, ChunkRows
<1>3. ~(Residents \subseteq AtomsIn(remaining))
  <2>1. (\A q \in AtomsIn(remaining) : mapping[q] = Home) /\ FreePairs(mapping) = {}
    BY <1>1, <1>2 DEF IInv, WaitInv
  <2>2. 1 \in Pairs BY CompilerAssumption DEF Pairs
  <2>3. UsedPairs = {} BY <1>1 DEF UsedPairs
  <2>4. PICK q \in Atoms : mapping[q] \in SitesOf(1) BY <2>1, <2>2, <2>3 DEF FreePairs
  <2>5. mapping[q] # Home BY <2>2, <2>4, PairFacts, SiteFacts
  <2> QED BY <2>1, <2>4, <2>5 DEF Residents
<1>4. UNCHANGED <<pc, failure>> /\ \E atoms : mapping' = Returned(mapping, atoms)
  BY <1>3 DEF MakeRoom
<1>5. UNCHANGED <<store, nextLayer, rest, chunk, saved>> /\ pending' = remaining /\ remaining' = {}
  BY DEF MakeRoom, call, disk
<1>6. ChunkRows = {} /\ ChunkRows' = {} BY <1>1, <1>5 DEF ChunkRows
<1>7. StoreIsSound' BY <1>5 DEF IInv, StoreIsSound
<1>8. MapInv' BY <1>4, <1>5, ReturnedOK DEF IInv, MapInv, MapOK, SeatsAlone
<1>9. LayerInv'
  <2>1. LayerInv BY DEF IInv
  <2> QED BY <1>1, <1>2, <1>4, <1>5, <1>6, <2>1 DEF LayerInv
<1>10. WaitInv' /\ ChunkStaysPlaced' /\ NeverOutOfRoom'
  BY <1>1, <1>4, <1>5 DEF WaitInv, ChunkStaysPlaced, IInv, NeverOutOfRoom
<1> QED BY <1>1, <1>5, <1>6, <1>7, <1>8, <1>9, <1>10 DEF IInv

LEMMA PulseStep ==
  ASSUME IInv, Pulse
  PROVE  IInv'
<1>1. pc = "pass" /\ pending = {} /\ chunk # {} BY DEF Pulse
<1>2. \E atoms : mapping' = Returned(mapping, atoms) BY DEF Pulse
<1>3. /\ UNCHANGED <<store, failure, nextLayer, rest, saved>>
      /\ pending' = remaining /\ remaining' = {} /\ chunk' = {}
      /\ pc' = IF remaining = {} THEN "groups" ELSE "pass"
  BY DEF Pulse, call, disk
<1>4. ChunkRows' = {} BY <1>3 DEF ChunkRows
<1>5. StoreIsSound' BY <1>3 DEF IInv, StoreIsSound
<1>6. MapInv' BY <1>2, <1>3, ReturnedOK DEF IInv, MapInv, MapOK, SeatsAlone
<1>7. LayerInv'
  <2>1. LayerInv BY DEF IInv
  <2> QED BY <1>1, <1>3, <1>4, <2>1 DEF LayerInv
<1>8. WaitInv' /\ ChunkStaysPlaced' /\ NeverOutOfRoom'
  BY <1>3 DEF WaitInv, ChunkStaysPlaced, IInv, NeverOutOfRoom
<1> QED BY <1>3, <1>4, <1>5, <1>6, <1>7, <1>8 DEF IInv

\* The atoms of a gate that is looked at belong to no other row on its way.
LEMMA PendingApart ==
  ASSUME IInv, NEW g \in pending,
         NEW i \in remaining \cup ChunkRows
  PROVE  g \in Czs(store) /\ i \in Czs(store) /\ AtomsOf(store[g]) \cap AtomsOf(store[i]) = {}
<1>1. g # i /\ g \in Batch(store, nextLayer) /\ i \in Batch(store, nextLayer)
      /\ g \in Czs(store) /\ i \in Czs(store)
  BY DEF IInv, LayerInv
<1> QED BY <1>1, LayerDisjoint DEF IInv

\* The chunk stays placed in any mapping that leaves alone who sits on its
\* pairs and has no part in the gate that is looked at.
LEMMA ChunkUnmoved ==
  ASSUME IInv, NEW g \in pending, NEW n,
         \A h \in chunk : \A q \in Atoms \ AtomsOf(store[g]) :
           mapping[q] \in SitesOf(h.pair) => n[q] = mapping[q]
  PROVE  \A h \in chunk : Places(n, AtomsOf(store[h.row])) = SitesOf(h.pair)
<1> SUFFICES ASSUME NEW h \in chunk
             PROVE  Places(n, AtomsOf(store[h.row])) = SitesOf(h.pair)
  OBVIOUS
<1>1. h.row \in ChunkRows BY DEF IInv
<1>2. Places(mapping, AtomsOf(store[h.row])) = SitesOf(h.pair)
  BY DEF IInv, ChunkStaysPlaced, Places
<1>3. ASSUME NEW q \in AtomsOf(store[h.row]) PROVE n[q] = mapping[q]
  <2>1. h.row \in Czs(store) /\ q \notin AtomsOf(store[g]) BY <1>1, PendingApart
  <2>2. q \in Atoms BY <2>1, CzAtoms DEF IInv
  <2>3. mapping[q] \in SitesOf(h.pair) BY <1>2 DEF Places
  <2> QED BY <2>1, <2>2, <2>3
<1> QED BY <1>2, <1>3 DEF Places

\* The gate finds no pair: with the chunk empty, its atoms are at home.
LEMMA GateDeferred ==
  ASSUME IInv, NEW g \in pending, pc = "pass",
         UNCHANGED <<store, pc, failure, nextLayer, rest, chunk, saved>>,
         NEW a \in Atoms, NEW b \in Atoms, AtomsOf(store[g]) = {a, b},
         NEW m, m = BroughtTogether(a, b), Assignments(m, a, b) = {},
         mapping' = m, pending' = pending \ {g}, remaining' = remaining \cup {g}
  PROVE  IInv'
<1>0. StoreIsSound /\ MapInv /\ LayerInv /\ WaitInv BY DEF IInv
<1>3. /\ MapOK(m)
      /\ \A q \in Atoms \ {a, b} : m[q] = mapping[q]
      /\ m[a] = Home /\ m[b] = Home => m = mapping
  BY <1>0, BroughtOK
<1>4. StoreIsSound' BY <1>0 DEF StoreIsSound
<1>5. MapInv' BY <1>0, <1>3 DEF MapInv, MapOK, SeatsAlone
<1>6. ChunkRows' = ChunkRows BY DEF ChunkRows
<1>7. LayerInv'
  BY <1>0, <1>6 DEF LayerInv
<1>8. WaitInv'
  <2> SUFFICES ASSUME chunk = {}
               PROVE  (\A q \in AtomsIn(remaining \cup {g}) : m[q] = Home) /\ FreePairs(m) = {}
    BY DEF WaitInv, AtomsIn, FreePairs, UsedPairs
  <2>1. UsedPairs = {} BY DEF UsedPairs
  <2>2. m[a] = Home /\ m[b] = Home /\ FreePairs(m) = {}
    BY <2>1 DEF Assignments
  <2>3. m = mapping BY <1>3, <2>2
  <2>4. \A q \in AtomsIn(remaining) : m[q] = Home
    <3>1. CASE remaining = {} BY <3>1 DEF AtomsIn
    <3>2. CASE remaining # {} BY <3>2, <1>0, <2>3 DEF WaitInv
    <3> QED BY <3>1, <3>2
  <2>5. AtomsIn(remaining \cup {g}) = AtomsIn(remaining) \cup {a, b}
    BY DEF AtomsIn
  <2> QED BY <2>2, <2>4, <2>5
<1>9. ChunkStaysPlaced'
  <2>1. \A h \in chunk : Places(m, AtomsOf(store[h.row])) = SitesOf(h.pair)
    <3>1. \A h \in chunk : \A q \in Atoms \ AtomsOf(store[g]) :
            mapping[q] \in SitesOf(h.pair) => m[q] = mapping[q]
      BY <1>3
    <3> QED BY <3>1, ChunkUnmoved
  <2>2. \A h, k \in chunk : h.pair = k.pair => h = k BY DEF IInv, ChunkStaysPlaced
  <2> QED BY <2>1, <2>2 DEF ChunkStaysPlaced, Places
<1>10. NeverOutOfRoom' BY DEF IInv, NeverOutOfRoom
<1>11. \A h \in chunk' : h.row \in ChunkRows' /\ h.pair \in Pairs BY <1>6 DEF IInv
<1> QED BY <1>4, <1>5, <1>7, <1>8, <1>9, <1>10, <1>11 DEF IInv

\* A gate is put on its pair: nobody else is left there, and who was not there
\* has not moved.
LEMMA GateSeated ==
  ASSUME MapInv, NEW a \in Atoms, NEW b \in Atoms, a # b,
         NEW p \in Assignments(BroughtTogether(a, b), a, b), NEW cleared, NEW site,
         cleared = Cleared(BroughtTogether(a, b), a, b, p),
         site = SiteFor(cleared, a, b, p)
  PROVE  /\ p \in Pairs \ UsedPairs
         /\ ~ \E q \in Atoms \ {a, b} : cleared[q] \in SitesOf(p)
         /\ \A n : n = Put(cleared, a, b, site) =>
              /\ MapOK(n)
              /\ Places(n, {a, b}) = SitesOf(p)
              /\ \A q \in Atoms \ {a, b} : mapping[q] \notin SitesOf(p) => n[q] = mapping[q]
<1>1. PICK m : m = BroughtTogether(a, b) OBVIOUS
<1>2. MapOK(m) /\ \A q \in Atoms \ {a, b} : m[q] = mapping[q]
  BY <1>1, BroughtOK
<1>3. /\ p \in Pairs \ UsedPairs
      /\ MapOK(cleared)
      /\ \A q \in Atoms \ {a, b} : cleared[q] \notin SitesOf(p)
      /\ \A q \in Atoms : m[q] \notin SitesOf(p) => cleared[q] = m[q]
      /\ site \in SitesOf(p)
  BY <1>1, <1>2, AssignedOK
<1>4. cleared \in [Atoms -> Int] BY <1>3, SitesAreIntegers
<1>5. site \in Int /\ Other(site) \in Int
  <2>1. site \in Sites BY <1>3, PairFacts
  <2>2. NPairs \in Nat BY CompilerAssumption
  <2>3. site \in Int BY <2>1, <2>2 DEF Sites
  <2> HIDE DEF Sites
  <2> QED BY ONLY <2>3 DEF Other
<1> SUFFICES ASSUME NEW n, n = Put(cleared, a, b, site)
             PROVE  /\ MapOK(n)
                    /\ Places(n, {a, b}) = SitesOf(p)
                    /\ \A q \in Atoms \ {a, b} : mapping[q] \notin SitesOf(p) => n[q] = mapping[q]
  BY <1>3
<1>6. n \in [Atoms -> Int] BY <1>4, <1>5 DEF Put
<1>7. n[a] = site /\ n[b] = Other(site) BY <1>4 DEF Put
<1>8. \A q \in Atoms \ {a, b} : n[q] = cleared[q] BY <1>4 DEF Put
<1>9. MapOK(n) /\ SitesOf(p) = {site, Other(site)}
  <2>1. a \in Atoms /\ b \in Atoms /\ a # b OBVIOUS
  <2> QED BY ONLY <2>1, <1>3, <1>6, <1>7, <1>8, SeatedOK
<1>10. Places(n, {a, b}) = SitesOf(p) BY <1>7, <1>9 DEF Places
<1> QED BY <1>2, <1>3, <1>8, <1>9, <1>10

\* The chunk with a gate that is put on a pair of its own.
LEMMA GatePlaced ==
  ASSUME IInv, NEW g \in pending, pc = "pass",
         UNCHANGED <<store, pc, failure, nextLayer, rest, remaining, saved>>,
         NEW p \in Pairs \ UsedPairs, NEW n, MapOK(n),
         Places(n, AtomsOf(store[g])) = SitesOf(p),
         \A q \in Atoms \ AtomsOf(store[g]) :
           mapping[q] \notin SitesOf(p) => n[q] = mapping[q],
         NEW new, new = [row |-> g, pair |-> p],
         mapping' = n, pending' = pending \ {g}, chunk' = chunk \cup {new}
  PROVE  IInv'
<1>1. new.row = g /\ new.pair = p OBVIOUS
<1>2. StoreIsSound' BY DEF IInv, StoreIsSound
<1>3. MapInv' BY DEF IInv, MapInv, MapOK, SeatsAlone
<1>4. ChunkRows' = ChunkRows \cup {g} BY <1>1 DEF ChunkRows
<1>5. LayerInv'
  <2>1. LayerInv /\ chunk' # {} BY DEF IInv
  <2> QED BY <1>4, <2>1 DEF LayerInv
<1>6. WaitInv'
  <2>1. chunk' # {} OBVIOUS
  <2> QED BY ONLY <2>1 DEF WaitInv
<1>7. \A h, k \in chunk' : h.pair = k.pair => h = k
  <2>1. \A h, k \in chunk : h.pair = k.pair => h = k BY DEF IInv, ChunkStaysPlaced
  <2>2. \A h \in chunk : h.pair # new.pair BY <1>1 DEF UsedPairs
  <2> QED BY <2>1, <2>2
<1>8. \A h \in chunk : Places(n, AtomsOf(store[h.row])) = SitesOf(h.pair)
  <2>1. ASSUME NEW h \in chunk, NEW q \in Atoms \ AtomsOf(store[g]),
               mapping[q] \in SitesOf(h.pair)
        PROVE  n[q] = mapping[q]
    <3>1. h.pair \in Pairs /\ h.pair # p BY DEF IInv, UsedPairs
    <3>2. mapping[q] \notin SitesOf(p) BY <2>1, <3>1, PairFacts
    <3> QED BY <3>2
  <2>2. \A h \in chunk : \A q \in Atoms \ AtomsOf(store[g]) :
          mapping[q] \in SitesOf(h.pair) => n[q] = mapping[q]
    BY <2>1
  <2> QED BY <2>2, ChunkUnmoved
<1>9. \A h \in chunk' : Places(n, AtomsOf(store[h.row])) = SitesOf(h.pair)
  BY <1>1, <1>8
<1>10. ChunkStaysPlaced' BY <1>7, <1>9 DEF ChunkStaysPlaced, Places
<1>11. NeverOutOfRoom' BY DEF IInv, NeverOutOfRoom
<1>12. \A h \in chunk' : h.row \in ChunkRows' /\ h.pair \in Pairs
  <2>1. \A h \in chunk : h.row \in ChunkRows /\ h.pair \in Pairs BY DEF IInv
  <2>2. chunk' = chunk \cup {new} /\ p \in Pairs OBVIOUS
  <2> QED BY ONLY <1>1, <1>4, <2>1, <2>2
<1> QED BY <1>2, <1>3, <1>5, <1>6, <1>10, <1>11, <1>12 DEF IInv

LEMMA PlaceGateStep ==
  ASSUME IInv, PlaceGate
  PROVE  IInv'
<1>1. pc = "pass" /\ UNCHANGED <<store, nextLayer, rest, saved>>
  <2>1. pc = "pass" BY Zenon DEF PlaceGate
  <2>2. UNCHANGED <<call, nextLayer, rest, disk>> BY Zenon DEF PlaceGate
  <2> QED BY <2>1, <2>2 DEF call, disk
<1>2. PICK g \in pending :
        /\ pending' = pending \ {g}
        /\ LET a == store[g].atoms[1]
               b == store[g].atoms[2]
               m == BroughtTogether(a, b)
           IN \/ /\ Assignments(m, a, b) = {}
                 /\ mapping' = m
                 /\ remaining' = remaining \cup {g}
                 /\ UNCHANGED <<pc, failure, chunk>>
              \/ \E p \in Assignments(m, a, b) :
                   LET cleared == Cleared(m, a, b, p)
                       site == SiteFor(cleared, a, b, p)
                   IN /\ UNCHANGED remaining
                      /\ IF \E q \in Atoms \ {a, b} : cleared[q] \in SitesOf(p)
                         THEN Fail("occupied") /\ UNCHANGED <<mapping, chunk>>
                         ELSE /\ mapping' = [cleared EXCEPT ![a] = site, ![b] = Other(site)]
                              /\ chunk' = chunk \cup {[row |-> g, pair |-> p]}
                              /\ UNCHANGED <<pc, failure>>
  BY ZenonT(40) DEF PlaceGate
<1>3. g \in Czs(store) /\ StoreIsSound /\ MapInv BY DEF IInv, LayerInv
<1>4. PICK a \in Atoms, b \in Atoms :
        /\ a = store[g].atoms[1] /\ b = store[g].atoms[2] /\ a # b
        /\ AtomsOf(store[g]) = {a, b}
  BY <1>3, CzAtoms
<1>5. CASE /\ Assignments(BroughtTogether(a, b), a, b) = {}
           /\ mapping' = BroughtTogether(a, b)
           /\ remaining' = remaining \cup {g}
           /\ UNCHANGED <<pc, failure, chunk>>
  <2>1. pending' = pending \ {g} BY <1>2
  <2>2. PICK m : m = BroughtTogether(a, b) OBVIOUS
  <2>3. Assignments(m, a, b) = {} /\ mapping' = m /\ remaining' = remaining \cup {g}
        /\ UNCHANGED <<pc, failure, chunk>>
    BY ONLY <1>5, <2>2
  <2> QED BY ONLY IInv, g \in pending, a \in Atoms, b \in Atoms, <1>1, <1>4, <2>1, <2>2, <2>3, GateDeferred
<1>6. CASE \E p \in Assignments(BroughtTogether(a, b), a, b) :
             LET cleared == Cleared(BroughtTogether(a, b), a, b, p)
                 site == SiteFor(cleared, a, b, p)
             IN /\ UNCHANGED remaining
                /\ IF \E q \in Atoms \ {a, b} : cleared[q] \in SitesOf(p)
                   THEN Fail("occupied") /\ UNCHANGED <<mapping, chunk>>
                   ELSE /\ mapping' = [cleared EXCEPT ![a] = site, ![b] = Other(site)]
                        /\ chunk' = chunk \cup {[row |-> g, pair |-> p]}
                        /\ UNCHANGED <<pc, failure>>
  <2>0. PICK p \in Assignments(BroughtTogether(a, b), a, b) :
          LET cleared == Cleared(BroughtTogether(a, b), a, b, p)
              site == SiteFor(cleared, a, b, p)
          IN /\ UNCHANGED remaining
             /\ IF \E q \in Atoms \ {a, b} : cleared[q] \in SitesOf(p)
                THEN Fail("occupied") /\ UNCHANGED <<mapping, chunk>>
                ELSE /\ mapping' = [cleared EXCEPT ![a] = site, ![b] = Other(site)]
                     /\ chunk' = chunk \cup {[row |-> g, pair |-> p]}
                     /\ UNCHANGED <<pc, failure>>
    BY ONLY <1>6
  <2>1. PICK cleared, site :
          /\ cleared = Cleared(BroughtTogether(a, b), a, b, p)
          /\ site = SiteFor(cleared, a, b, p)
          /\ UNCHANGED remaining
          /\ IF \E q \in Atoms \ {a, b} : cleared[q] \in SitesOf(p)
             THEN Fail("occupied") /\ UNCHANGED <<mapping, chunk>>
             ELSE /\ mapping' = [cleared EXCEPT ![a] = site, ![b] = Other(site)]
                  /\ chunk' = chunk \cup {[row |-> g, pair |-> p]}
                  /\ UNCHANGED <<pc, failure>>
    BY ONLY <2>0
  <2>2. /\ p \in Pairs \ UsedPairs
        /\ ~ \E q \in Atoms \ {a, b} : cleared[q] \in SitesOf(p)
        /\ \A n : n = Put(cleared, a, b, site) =>
             /\ MapOK(n)
             /\ Places(n, {a, b}) = SitesOf(p)
             /\ \A q \in Atoms \ {a, b} : mapping[q] \notin SitesOf(p) => n[q] = mapping[q]
    <3>1. /\ MapInv /\ a \in Atoms /\ b \in Atoms /\ a # b
          /\ p \in Assignments(BroughtTogether(a, b), a, b)
          /\ cleared = Cleared(BroughtTogether(a, b), a, b, p)
          /\ site = SiteFor(cleared, a, b, p)
      BY <1>3, <1>4, <2>0, <2>1
    <3> QED BY ONLY <3>1, GateSeated
  <2>3. PICK n, new : n = Put(cleared, a, b, site)
                      /\ new = [row |-> g, pair |-> p]
    OBVIOUS
  <2>4. mapping' = n /\ chunk' = chunk \cup {new} /\ UNCHANGED <<pc, failure, remaining>>
    BY ONLY <2>1, <2>2, <2>3 DEF Put
  <2>5. /\ MapOK(n)
        /\ Places(n, AtomsOf(store[g])) = SitesOf(p)
        /\ \A q \in Atoms \ AtomsOf(store[g]) : mapping[q] \notin SitesOf(p) => n[q] = mapping[q]
    <3>1. MapOK(n) /\ Places(n, {a, b}) = SitesOf(p)
          /\ \A q \in Atoms \ {a, b} : mapping[q] \notin SitesOf(p) => n[q] = mapping[q]
      BY ONLY <2>2, <2>3, Zenon
    <3> QED BY ONLY <1>4, <3>1
  <2>6. pending' = pending \ {g} BY <1>2
  <2> QED BY ONLY IInv, g \in pending, <1>1, <2>2, <2>3, <2>4, <2>5, <2>6, GatePlaced
<1> QED
  <2>1. a = store[g].atoms[1] /\ b = store[g].atoms[2] BY <1>4
  <2> QED BY ONLY <1>2, <2>1, <1>5, <1>6, ZenonT(40)

LEMMA StutterStep ==
  ASSUME IInv, UNCHANGED vars
  PROVE  IInv'
<1>1. UNCHANGED <<store, pc, failure, mapping, nextLayer, rest, pending, remaining, chunk, saved>>
  BY DEF vars, call, group, disk
<1>2. StoreIsSound' BY <1>1 DEF IInv, StoreIsSound
<1>3. MapInv' BY <1>1 DEF IInv, MapInv, MapOK, SeatsAlone
<1>4. LayerInv' BY <1>1 DEF IInv, LayerInv, ChunkRows
<1>5. WaitInv' BY <1>1 DEF IInv, WaitInv, AtomsIn, FreePairs, UsedPairs
<1>6. ChunkStaysPlaced' /\ NeverOutOfRoom'
  BY <1>1 DEF IInv, ChunkStaysPlaced, NeverOutOfRoom
<1>7. \A g \in chunk' : g.row \in ChunkRows' /\ g.pair \in Pairs
  BY <1>1 DEF IInv, ChunkRows
<1> QED BY <1>2, <1>3, <1>4, <1>5, <1>6, <1>7 DEF IInv

LEMMA NextStep ==
  ASSUME IInv, [Next]_vars
  PROVE  IInv'
BY StartFreshStep, ResumeStep, BeginLayerStep, BeginGroupStep, PlaceGateStep,
   MakeRoomStep, PulseStep, EndLayerStep, CheckpointStep, PublishStep, KillStep,
   StutterStep DEF Next, Compile

-----------------------------------------------------------------------------
(* What holds of the trace, the checkpoint and the result.                  *)

InFlight == rest \cup pending \cup remaining \cup ChunkRows

\* The layer that is compiled, when there is one.
Inside == pc \in {"groups", "pass"}
Running == pc \notin {"idle", "done", "failed"}

StoreInv ==
  /\ Sound(store)
  /\ Depth(store) \in Nat /\ Depth(store) <= Longest
  /\ \A i \in DOMAIN store : store[i].layer < Depth(store)

\* The checkpoint counts a beginning of the trace that owns its layers.
SavedInv ==
  /\ saved.layer \in Int /\ saved.layer >= -1 /\ saved.layer <= Depth(store)
  /\ Events(saved.trace) /\ Begins(saved.trace, trace)
  /\ ~HasCheckpoint => saved.trace = <<>>
  /\ CheckpointOwnsItsLayers

\* A process has written the layers below its own, and of its own the gates
\* that are no longer in flight.
ProcessInv ==
  Running =>
    /\ nextLayer \in Nat /\ nextLayer <= Depth(store) /\ saved.layer <= nextLayer
    /\ Inside => nextLayer < Depth(store) /\ Emitted(trace) = Below(nextLayer + 1) \ InFlight
    /\ ~Inside => Emitted(trace) = Below(nextLayer)
    /\ pc = "verify" =>
         nextLayer = Depth(store) /\ saved.layer = Depth(store) /\ saved.trace = trace

ResultInv ==
  /\ NeverRefused
  /\ result # NoResult => pc = "done" /\ Complete(result)

LogInv == StoreInv /\ TraceOK(trace) /\ SavedInv /\ ProcessInv /\ ResultInv

(* Why an atom waits in the zone.                                           *)

InGroup == pending \cup remaining \cup ChunkRows

\* A gate of q that the method sees from the group on: not written and not in
\* the group, or of a layer that is done.
Waits(q) ==
  /\ method # "M1"
  /\ \/ \E i \in Window(store, boundary, SeenAhead) \cap OfAtom(store, q) :
          i \notin Emitted(trace) \cup InGroup \/ store[i].layer < nextLayer
     \/ method \in {"M3", "M4"} /\ boundary = LastCzLayer(store)

LitInv ==
  /\ method \in {"M1", "M2", "M3", "M4"}
  /\ method = "M1" => /\ \A q \in Atoms : saved.mapping[q] = Home
                      /\ \A q \in Residents : pc = "pass" /\ q \in Pulsed
  /\ Inside => \A i \in rest : \A j \in (Batch(store, nextLayer) \cap Czs(store)) \ rest :
                 store[j].cz < store[i].cz
  /\ pc = "pass" =>
       /\ \A i \in InGroup : store[i].cz = boundary
       /\ \A q \in Residents \ AtomsIn(InGroup) : Waits(q)

-----------------------------------------------------------------------------
LEMMA ImageFinite ==
  ASSUME NEW S, IsFiniteSet(S), NEW f \in [S -> Int]
  PROVE  Numbers({f[x] : x \in S})
<1> DEFINE T == {f[x] : x \in S}
<1>1. f \in Surjection(S, T)
  BY DEF Surjection
<1>2. IsFiniteSet(T)
  BY <1>1, FS_Surjection
<1>3. T \subseteq Int
  OBVIOUS
<1> QED
  BY <1>2, <1>3 DEF Numbers

LEMMA WithNone ==
  ASSUME NEW S, Numbers(S)
  PROVE  /\ Largest({-1} \cup S) \in {-1} \cup S
         /\ \A y \in {-1} \cup S : y <= Largest({-1} \cup S)
         /\ Largest({-1} \cup S) \in Int
<1>1. IsFiniteSet(S) /\ S \subseteq Int
  BY DEF Numbers
<1>2. IsFiniteSet(S \cup {-1})
  BY <1>1, FS_AddElement
<1>3. S \cup {-1} = {-1} \cup S
  OBVIOUS
<1>4. Numbers({-1} \cup S)
  BY <1>1, <1>2, <1>3 DEF Numbers
<1>5. {-1} \cup S # {}
  OBVIOUS
<1>6. /\ Largest({-1} \cup S) \in {-1} \cup S
      /\ \A y \in {-1} \cup S : y <= Largest({-1} \cup S)
  BY <1>4, <1>5, LargestOf
<1>7. {-1} \cup S \subseteq Int
  BY <1>1
<1> QED
  BY <1>6, <1>7

\* The depth is above every layer, and no greater than the number of gates.
LEMMA DepthFacts ==
  ASSUME NEW s, Sound(s)
  PROVE  /\ Depth(s) \in Nat /\ Depth(s) <= Len(s)
         /\ \A i \in DOMAIN s : s[i].layer < Depth(s)
         /\ \A i \in DOMAIN s : s[i].cz \in Int /\ s[i].cz <= LastCzLayer(s)
         /\ LastCzLayer(s) \in Int
<1>1. s \in Seq(Row) /\ Len(s) \in Nat /\ DOMAIN s = 1..Len(s)
  BY DEF Sound
<1>2. IsFiniteSet(DOMAIN s)
  BY <1>1, FS_Interval
<1>3. \A i \in DOMAIN s : s[i].layer \in Nat /\ s[i].cz \in Int
  <2>1. \A i \in DOMAIN s : s[i] \in Row
    BY <1>1
  <2>2. \A i \in DOMAIN s : s[i].layer \in Nat /\ s[i].cz \in Nat \cup {NoLayer}
    BY <2>1 DEF Row
  <2> QED
    BY <2>2 DEF NoLayer
<1>4. LayersOf(s) \in [DOMAIN s -> Int] /\ CzLayersOf(s) \in [DOMAIN s -> Int]
  BY <1>3 DEF LayersOf, CzLayersOf
<1> DEFINE L == {LayersOf(s)[x] : x \in DOMAIN s}
           C == {CzLayersOf(s)[x] : x \in DOMAIN s}
<1>5. L = {s[i].layer : i \in DOMAIN s} /\ C = {s[i].cz : i \in DOMAIN s}
  BY DEF LayersOf, CzLayersOf
<1>6. Numbers(L) /\ Numbers(C)
  BY <1>2, <1>4, ImageFinite
<1>7. Depth(s) = 1 + Largest({-1} \cup L) /\ LastCzLayer(s) = Largest({-1} \cup C)
  BY <1>5 DEF Depth, LastCzLayer
<1>8. \A i \in DOMAIN s : s[i].layer \in L /\ s[i].cz \in C
  BY <1>5
<1>9. ASSUME NEW x \in L PROVE x \in Nat /\ x < Len(s)
  <2>1. PICK i \in DOMAIN s : x = s[i].layer
    BY <1>5
  <2>2. x < i /\ i <= Len(s) /\ i \in Nat /\ x \in Nat
    BY <1>1, <1>3, <2>1 DEF Sound
  <2> QED
    BY <1>1, <2>2
<1> HIDE DEF L, C
<1>10. /\ Largest({-1} \cup L) \in {-1} \cup L
       /\ \A y \in {-1} \cup L : y <= Largest({-1} \cup L)
       /\ Largest({-1} \cup L) \in Int
  BY <1>6, WithNone
<1>11. /\ \A y \in {-1} \cup C : y <= Largest({-1} \cup C)
       /\ Largest({-1} \cup C) \in Int
  BY <1>6, WithNone
<1>12. -1 <= Largest({-1} \cup L)
  BY <1>10
<1>13. Largest({-1} \cup L) < Len(s)
  BY <1>1, <1>9, <1>10
<1>14. Depth(s) \in Nat /\ Depth(s) <= Len(s)
  BY <1>1, <1>7, <1>10, <1>12, <1>13
<1>15. ASSUME NEW i \in DOMAIN s PROVE s[i].layer < Depth(s)
  <2>1. s[i].layer <= Largest({-1} \cup L) /\ s[i].layer \in Nat
    BY <1>3, <1>8, <1>10
  <2> QED
    BY <1>7, <1>10, <2>1
<1> QED
  BY <1>3, <1>7, <1>8, <1>11, <1>14, <1>15

\* The store that a compile begins with.
LEMMA StoreAtInit ==
  ASSUME Init
  PROVE  StoreInv
<1>1. PICK c \in Circuits : store = Stored(c)
  BY DEF Init
<1>2. Sound(store) /\ Len(store) <= Longest
  BY <1>1, StoredSound
<1>3. Depth(store) \in Nat /\ Depth(store) <= Len(store)
      /\ \A i \in DOMAIN store : store[i].layer < Depth(store)
  BY <1>2, DepthFacts
<1>4. Len(store) \in Nat /\ Longest \in Nat
  BY <1>2, CompilerAssumption DEF Sound
<1> QED
  BY <1>2, <1>3, <1>4 DEF StoreInv

(* Beginnings.                                                              *)

\* Beginnings of a sequence that grows or is cut.
LEMMA BeginsFacts ==
  ASSUME NEW S, NEW t \in Seq(S), NEW p \in Seq(S), Begins(p, t)
  PROVE  /\ Len(p) \in 0..Len(t) /\ SubSeq(t, 1, Len(p)) = p
         /\ \A u \in Seq(S) : Begins(p, t \o u)
         /\ \A n \in Len(p)..Len(t) : Begins(p, SubSeq(t, 1, n))
<1>1. Len(p) \in Nat /\ Len(t) \in Nat /\ Len(p) <= Len(t) /\ SubSeq(t, 1, Len(p)) = p
  BY DEF Begins
<1>2. Len(p) \in 0..Len(t)
  BY <1>1
<1>3. \A k \in 1..Len(p) : p[k] = t[k]
  <2> TAKE k \in 1..Len(p)
  <2>1. SubSeq(t, 1, Len(p))[k] = t[k]
    BY <1>1
  <2> QED
    BY <1>1, <2>1
<1>4. ASSUME NEW w \in Seq(S), Len(p) <= Len(w), \A k \in 1..Len(p) : w[k] = p[k]
      PROVE  Begins(p, w)
  <2>1. Len(w) \in Nat
    OBVIOUS
  <2>2. SubSeq(w, 1, Len(p)) \in Seq(S) /\ Len(SubSeq(w, 1, Len(p))) = Len(p)
    BY <1>1, <1>4, <2>1
  <2>3. \A k \in 1..Len(p) : SubSeq(w, 1, Len(p))[k] = p[k]
    BY <1>1, <1>4, <2>1
  <2>4. SubSeq(w, 1, Len(p)) = p
    BY <2>2, <2>3, SeqEqual
  <2> QED
    BY <1>4, <2>4 DEF Begins
<1>5. ASSUME NEW u \in Seq(S) PROVE Begins(p, t \o u)
  <2>1. t \o u \in Seq(S) /\ Len(t \o u) = Len(t) + Len(u) /\ Len(u) \in Nat
    OBVIOUS
  <2>2. \A k \in 1..Len(p) : (t \o u)[k] = p[k]
    BY <1>1, <1>3, <2>1
  <2>3. Len(p) <= Len(t \o u)
    BY <1>1, <2>1
  <2> QED
    BY <1>4, <2>1, <2>2, <2>3
<1>6. ASSUME NEW n \in Len(p)..Len(t) PROVE Begins(p, SubSeq(t, 1, n))
  <2>1. SubSeq(t, 1, n) \in Seq(S) /\ Len(SubSeq(t, 1, n)) = n
    BY <1>1
  <2>2. \A k \in 1..Len(p) : SubSeq(t, 1, n)[k] = p[k]
    BY <1>1, <1>3
  <2>3. Len(p) <= n
    BY <1>1
  <2> QED
    BY <1>4, <2>1, <2>2, <2>3
<1> QED
  BY <1>1, <1>2, <1>5, <1>6

-----------------------------------------------------------------------------
(* The steps, for the trace and the checkpoint.                             *)

LEMMA StoreCarried ==
  ASSUME StoreInv, UNCHANGED store
  PROVE  StoreInv'
BY DEF StoreInv

LEMMA TraceCarried ==
  ASSUME UNCHANGED store, NEW t, TraceOK(t), trace' = t
  PROVE  TraceOK(trace)' /\ Emitted(trace)' = Emitted(t)
<1>1. Emitted(trace)' = Emitted(t) BY DEF Emitted
<1>2. Events(trace)' BY DEF TraceOK, Events
<1>3. Forward(trace)'
  <2>1. \A i, j : Share(i, j)' <=> Share(i, j) BY DEF Share
  <2> QED BY <2>1 DEF TraceOK, Forward
<1>4. Grounded(trace)'
  <2>1. \A i : Before(store, i, DOMAIN store)' = Before(store, i, DOMAIN store) BY DEF Before
  <2> QED BY <1>1, <2>1 DEF TraceOK, Grounded
<1> QED BY <1>1, <1>2, <1>3, <1>4 DEF TraceOK

\* The checkpoint stays, and so does what the trace has of it.
LEMMA SavedCarried ==
  ASSUME SavedInv, UNCHANGED <<store, saved>>, Begins(saved.trace, trace')
  PROVE  SavedInv'
BY DEF SavedInv, Events, HasCheckpoint, CheckpointOwnsItsLayers

\* Nothing is written.
LEMMA NothingWritten ==
  ASSUME LogInv, UNCHANGED <<store, trace, saved>>, ProcessInv', ResultInv'
  PROVE  LogInv'
<1>1. StoreInv' BY StoreCarried DEF LogInv
<1>2. TraceOK(trace)'
  <2>1. PICK t : t = trace OBVIOUS
  <2>2. TraceOK(t) /\ trace' = t BY <2>1 DEF LogInv
  <2> QED BY <2>2, TraceCarried
<1>3. SavedInv' BY SavedCarried DEF LogInv, SavedInv
<1> QED BY <1>1, <1>2, <1>3 DEF LogInv

\* Between two layers, or within one.
LEMMA OutsideOf ==
  ASSUME LogInv, Running, ~Inside
  PROVE  /\ nextLayer \in Nat /\ nextLayer <= Depth(store) /\ saved.layer <= nextLayer
         /\ Emitted(trace) = Below(nextLayer)
BY DEF LogInv, ProcessInv

LEMMA InsideOf ==
  ASSUME LogInv, Inside
  PROVE  /\ nextLayer \in Nat /\ nextLayer < Depth(store) /\ saved.layer <= nextLayer
         /\ Emitted(trace) = Below(nextLayer + 1) \ InFlight
BY DEF LogInv, ProcessInv, Running, Inside

\* Only the end of a compile has a result.
LEMMA ResultCarried ==
  ASSUME LogInv, pc # "done", UNCHANGED <<store, result>>, failure' \notin {"resume", "verify"}
  PROVE  ResultInv'
BY DEF LogInv, ResultInv, NeverRefused

LEMMA Unfailed ==
  ASSUME LogInv
  PROVE  failure \notin {"resume", "verify"}
BY DEF LogInv, ResultInv, NeverRefused

LEMMA LogInit ==
  ASSUME Init
  PROVE  LogInv
<1>1. StoreInv BY StoreAtInit
<1>2. trace = <<>> /\ saved = NoCheckpoint /\ result = NoResult /\ failure = "none" /\ pc = "idle"
  BY DEF Init
<1>3. TraceOK(trace)
  BY <1>2 DEF TraceOK, Events, Forward, Grounded, Emitted
<1>4. SavedInv
  <2>1. saved.layer = -1 /\ saved.trace = <<>>
    BY <1>2 DEF NoCheckpoint
  <2>2. Begins(<<>>, <<>>)
    BY DEF Begins
  <2>3. Depth(store) \in Nat
    BY <1>1 DEF StoreInv
  <2> QED
    BY <1>2, <2>1, <2>2, <2>3 DEF SavedInv, Events, HasCheckpoint, CheckpointOwnsItsLayers
<1>5. ProcessInv /\ ResultInv
  BY <1>2 DEF ProcessInv, ResultInv, Running, NeverRefused
<1> QED BY <1>1, <1>3, <1>4, <1>5 DEF LogInv

LEMMA LogStartFresh ==
  ASSUME LogInv, StartFresh
  PROVE  LogInv'
<1>1. /\ pc = "idle" /\ ~HasCheckpoint /\ trace' = <<InitEvent>> /\ nextLayer' = 0
      /\ pc' = "layer" /\ UNCHANGED <<store, failure, saved, result>>
  BY DEF StartFresh, call, disk
<1>2. StoreInv' BY <1>1, StoreCarried DEF LogInv
<1>3. PICK t : t = <<InitEvent>> OBVIOUS
<1>4. t \in Seq(SUBSET DOMAIN store) /\ Len(t) = 1 /\ DOMAIN t = {1} /\ t[1] = {}
  BY <1>3 DEF InitEvent
<1>5. TraceOK(t) /\ Emitted(t) = {}
  BY <1>4 DEF TraceOK, Events, Forward, Grounded, Emitted
<1>6. TraceOK(trace)' /\ Emitted(trace)' = {} BY <1>1, <1>3, <1>5, TraceCarried
<1>7. SavedInv'
  <2>1. saved.trace = <<>>
    BY <1>1 DEF LogInv, SavedInv
  <2>2. Begins(<<>>, t)
    <3>1. SubSeq(t, 1, 0) = <<>> BY SubSeqEmpty
    <3> QED BY <1>4, <3>1 DEF Begins
  <2> QED BY <1>1, <1>3, <2>1, <2>2, SavedCarried DEF LogInv
<1>8. ProcessInv'
  <2>1. saved.layer <= 0
    BY <1>1 DEF LogInv, SavedInv, HasCheckpoint
  <2>2. Below(0) = {}
    <3>1. \A i \in DOMAIN store : store[i].layer \in Nat
      BY RowFacts DEF LogInv, StoreInv
    <3> QED BY <3>1 DEF Below
  <2>3. Below(nextLayer)' = Below(0)
    BY <1>1 DEF Below
  <2>4. Depth(store)' \in Nat
    BY <1>2 DEF StoreInv
  <2> QED
    BY <1>1, <1>6, <2>1, <2>2, <2>3, <2>4 DEF ProcessInv, Inside
<1>9. ResultInv' BY <1>1, ResultCarried, Unfailed
<1> QED BY <1>2, <1>6, <1>7, <1>8, <1>9 DEF LogInv

LEMMA LogResume ==
  ASSUME LogInv, IInv, Resume
  PROVE  LogInv'
<1>1. /\ pc = "idle" /\ HasCheckpoint /\ nextLayer' = saved.layer
      /\ UNCHANGED <<store, saved, result>>
  BY DEF Resume, call, disk
<1>2. Begins(saved.trace, trace) BY DEF LogInv, SavedInv
<1>3. SeatsAlone(saved.mapping) BY DEF IInv, MapInv, MapOK
<1>4. trace' = Cut /\ pc' = "layer" /\ UNCHANGED failure
  BY <1>2, <1>3 DEF Resume
<1>5. Cut = saved.trace BY <1>2 DEF Cut, Begins
<1>6. StoreInv' BY <1>1, StoreCarried DEF LogInv
<1>7. PICK t : t = saved.trace OBVIOUS
<1>8. t \in Seq(SUBSET DOMAIN store) /\ trace \in Seq(SUBSET DOMAIN store)
  BY <1>7 DEF LogInv, SavedInv, TraceOK, Events
<1>9. Len(t) \in 0..Len(trace) /\ SubSeq(trace, 1, Len(t)) = t
  BY <1>2, <1>7, <1>8, BeginsFacts
<1>10. TraceOK(t)
  <2>1. TraceOK(trace) /\ Sound(store) BY DEF LogInv, StoreInv
  <2> QED BY <1>9, <2>1, PrefixOK
<1>11. TraceOK(trace)' /\ Emitted(trace)' = Emitted(t)
  BY <1>1, <1>4, <1>5, <1>7, <1>10, TraceCarried
<1>12. SavedInv'
  <2>1. Begins(t, t)
    <3>1. Len(t) \in Nat /\ SubSeq(t, 1, Len(t)) = t BY <1>8, SubSeqFull
    <3> QED BY <3>1 DEF Begins
  <2> QED BY <1>1, <1>4, <1>5, <1>7, <2>1, SavedCarried DEF LogInv
<1>13. ProcessInv'
  <2>1. saved.layer \in Nat /\ saved.layer <= Depth(store) /\ Emitted(t) = Below(saved.layer)
    BY <1>1, <1>7 DEF LogInv, SavedInv, HasCheckpoint, CheckpointOwnsItsLayers, Emitted, Below
  <2>2. Below(nextLayer)' = Below(saved.layer)
    BY <1>1 DEF Below
  <2> QED
    BY <1>1, <1>4, <1>11, <2>1, <2>2 DEF ProcessInv, Inside
<1>14. ResultInv' BY <1>1, <1>4, ResultCarried, Unfailed
<1> QED BY <1>6, <1>11, <1>12, <1>13, <1>14 DEF LogInv

\* A process writes more of its layer.
LEMMA LogWrites ==
  ASSUME LogInv, Running, pc # "done", UNCHANGED <<store, saved, result, nextLayer>>,
         nextLayer < Depth(store), Inside', failure' = failure,
         Below(nextLayer) \subseteq Emitted(trace),
         Emitted(trace) \subseteq Below(nextLayer + 1),
         NEW u \in Seq(SUBSET (Batch(store, nextLayer) \ Emitted(trace))),
         \A n, m \in DOMAIN u : n # m => u[n] \cap u[m] = {},
         trace' = trace \o u,
         Emitted(trace) \cup Emitted(u) = Below(nextLayer + 1) \ InFlight'
  PROVE  LogInv'
<1>1. StoreInv' BY StoreCarried DEF LogInv
<1>2. nextLayer \in Nat /\ saved.layer <= nextLayer /\ Depth(store) \in Nat
  BY DEF LogInv, ProcessInv, StoreInv
<1>3. PICK l, t, w : l = nextLayer /\ t = trace /\ w = t \o u OBVIOUS
<1>4. TraceOK(t) /\ Sound(store) BY <1>3 DEF LogInv, StoreInv
<1>5. TraceOK(w) /\ Emitted(w) = Emitted(t) \cup Emitted(u)
  <2>1. /\ l \in Nat /\ Below(l) \subseteq Emitted(t) /\ Emitted(t) \subseteq Below(l + 1)
        /\ u \in Seq(SUBSET (Batch(store, l) \ Emitted(t)))
    BY <1>2, <1>3
  <2> QED BY <1>3, <1>4, <2>1, TraceGrows
<1>6. trace' = w BY <1>3
<1>7. TraceOK(trace)' /\ Emitted(trace)' = Emitted(w) BY <1>5, <1>6, TraceCarried
<1>8. SavedInv'
  <2>1. saved.trace \in Seq(SUBSET DOMAIN store) /\ Begins(saved.trace, t)
        /\ t \in Seq(SUBSET DOMAIN store)
    BY <1>3 DEF LogInv, SavedInv, TraceOK, Events
  <2>2. u \in Seq(SUBSET DOMAIN store)
    <3>1. Batch(store, nextLayer) \subseteq DOMAIN store BY DEF Batch
    <3>2. SUBSET (Batch(store, nextLayer) \ Emitted(trace)) \subseteq SUBSET DOMAIN store BY <3>1
    <3> QED BY <3>2, SeqMonotonic
  <2>3. Begins(saved.trace, t \o u)
    <3>1. PICK p : p = saved.trace OBVIOUS
    <3> QED BY <2>1, <2>2, <3>1, BeginsFacts
  <2> QED BY <1>3, <1>6, <2>3, SavedCarried DEF LogInv
<1>9. ProcessInv'
  <2>1. Below(nextLayer + 1)' = Below(nextLayer + 1) BY DEF Below
  <2>2. Emitted(trace)' = (Below(nextLayer + 1) \ InFlight)' BY <1>3, <1>5, <1>7, <2>1
  <2>3. pc' \in {"groups", "pass"} BY DEF Inside
  <2> QED BY <1>2, <2>2, <2>3 DEF ProcessInv, Inside
<1>10. ResultInv' BY ResultCarried, Unfailed
<1> QED BY <1>1, <1>7, <1>8, <1>9, <1>10 DEF LogInv

\* The rows of a layer, one by one.
OneEach(S) == [k \in DOMAIN InOrder(S) |-> {InOrder(S)[k]}]

LEMMA OneByOne ==
  ASSUME NEW S, Numbers(S), NEW u, u = OneEach(S)
  PROVE  /\ u \in Seq(SUBSET S) /\ Emitted(u) = S
         /\ \A n, m \in DOMAIN u : n # m => u[n] \cap u[m] = {}
<1> DEFINE c == Cardinality(S)
<1>1. /\ InOrder(S) \in Seq(S) /\ Len(InOrder(S)) = c
      /\ \A k \in 1..c : InOrder(S)[k] \in S /\ Rank(S, InOrder(S)[k]) = k
      /\ \A i \in S : InOrder(S)[Rank(S, i)] = i
  BY InOrderFacts
<1>2. c \in Nat /\ \A i \in S : Rank(S, i) \in 1..c
  BY RankGrows
<1> HIDE DEF c
<1>3. DOMAIN InOrder(S) = 1..c BY <1>1, <1>2
<1>4. DOMAIN u = 1..c /\ \A k \in 1..c : u[k] = {InOrder(S)[k]} BY <1>3 DEF OneEach
<1>5. u \in Seq(SUBSET S)
  <2>1. u \in [1..c -> SUBSET S] BY <1>1, <1>3 DEF OneEach
  <2> QED BY <1>2, <2>1
<1>6. Emitted(u) = S
  <2>1. Emitted(u) \subseteq S BY <1>1, <1>4 DEF Emitted
  <2>2. \A i \in S : i \in u[Rank(S, i)] BY <1>1, <1>2, <1>4
  <2> QED BY <1>2, <1>4, <2>1, <2>2 DEF Emitted
<1>7. ASSUME NEW n \in DOMAIN u, NEW m \in DOMAIN u, n # m PROVE u[n] \cap u[m] = {}
  <2>1. InOrder(S)[n] # InOrder(S)[m] BY <1>1, <1>4, <1>7
  <2> QED BY <1>4, <2>1
<1> QED BY <1>5, <1>6, <1>7

LEMMA RowsAreNumbers ==
  ASSUME Sound(store), NEW S \in SUBSET DOMAIN store
  PROVE  Numbers(S)
<1>1. Len(store) \in Nat /\ DOMAIN store = 1..Len(store) BY DEF Sound
<1>2. IsFiniteSet(DOMAIN store) BY <1>1, FS_Interval
<1>3. IsFiniteSet(S) BY <1>2, FS_Subset
<1>4. DOMAIN store \subseteq Int BY <1>1
<1> QED BY <1>3, <1>4 DEF Numbers

\* The layers below the next and the layer itself.
LEMMA NextBelow ==
  ASSUME Sound(store), NEW l \in Nat
  PROVE  /\ Below(l + 1) = Below(l) \cup Batch(store, l)
         /\ Below(l) \cap Batch(store, l) = {}
<1>1. \A i \in DOMAIN store : store[i].layer \in Nat BY RowFacts
<1>2. \A x \in Nat : (x < l + 1 <=> x < l \/ x = l) /\ ~(x < l /\ x = l) OBVIOUS
<1> QED BY <1>1, <1>2 DEF Below, Batch

LEMMA LogBeginLayer ==
  ASSUME LogInv, IInv, BeginLayer
  PROVE  LogInv'
<1> DEFINE batch == Batch(store, nextLayer)
<1>1. /\ pc = "layer" /\ nextLayer < Depth(store) /\ pc' = "groups"
      /\ UNCHANGED <<store, failure, nextLayer, pending, remaining, chunk, saved, result>>
  BY DEF BeginLayer, call, disk
<1>2. trace' = trace \o OneEach(batch \ Czs(store)) /\ rest' = batch \cap Czs(store)
  BY DEF BeginLayer, OneEach
<1>3. /\ nextLayer \in Nat /\ Emitted(trace) = Below(nextLayer)
  BY <1>1, OutsideOf DEF Running, Inside
<1>4. Sound(store) BY DEF LogInv, StoreInv
<1>5. /\ Below(nextLayer + 1) = Below(nextLayer) \cup batch
      /\ Below(nextLayer) \cap batch = {}
  BY <1>3, <1>4, NextBelow
<1>6. PICK S : S = batch \ Czs(store) OBVIOUS
<1>7. PICK u : u = OneEach(S) OBVIOUS
<1>8. Numbers(S)
  <2>1. S \in SUBSET DOMAIN store BY <1>6 DEF Batch
  <2> QED BY <1>4, <2>1, RowsAreNumbers
<1>9. /\ u \in Seq(SUBSET S) /\ Emitted(u) = S
      /\ \A n, m \in DOMAIN u : n # m => u[n] \cap u[m] = {}
  BY <1>7, <1>8, OneByOne
<1>10. u \in Seq(SUBSET (batch \ Emitted(trace)))
  <2>1. S \subseteq batch \ Emitted(trace) BY <1>3, <1>5, <1>6
  <2>2. SUBSET S \subseteq SUBSET (batch \ Emitted(trace)) BY <2>1
  <2> QED BY <1>9, <2>2, SeqMonotonic
<1>11. trace' = trace \o u BY <1>2, <1>6, <1>7
<1>12. InFlight' = batch \cap Czs(store)
  <2>1. pending' = {} /\ remaining' = {} /\ ChunkRows' = {}
    BY <1>1 DEF IInv, LayerInv, ChunkRows
  <2> QED BY <1>2, <2>1 DEF InFlight
<1>13. Emitted(trace) \cup Emitted(u) = Below(nextLayer + 1) \ InFlight'
  BY <1>3, <1>5, <1>6, <1>9, <1>12
<1>14. Running /\ pc # "done" /\ Inside' BY <1>1 DEF Running, Inside
<1>15. Below(nextLayer) \subseteq Emitted(trace) /\ Emitted(trace) \subseteq Below(nextLayer + 1)
  BY <1>3, <1>5
<1> HIDE DEF batch
<1> QED BY <1>1, <1>9, <1>10, <1>11, <1>13, <1>14, <1>15, LogWrites DEF batch

\* A group moves atoms and rows about but writes nothing.
LEMMA SameInFlight ==
  ASSUME LogInv, Inside, UNCHANGED <<store, trace, saved, result, nextLayer>>,
         pc' \in {"groups", "pass", "failed"}, failure' \notin {"resume", "verify"},
         InFlight' = InFlight
  PROVE  LogInv'
<1>1. pc # "done" BY DEF Inside
<1>2. ResultInv' BY <1>1, ResultCarried
<1>3. ProcessInv'
  <2>1. /\ nextLayer \in Nat /\ nextLayer < Depth(store) /\ saved.layer <= nextLayer
        /\ Emitted(trace) = Below(nextLayer + 1) \ InFlight
    BY InsideOf
  <2>2. Depth(store) \in Nat BY DEF LogInv, StoreInv
  <2>3. Emitted(trace)' = Emitted(trace) /\ Below(nextLayer + 1)' = Below(nextLayer + 1)
    BY DEF Emitted, Below
  <2> QED BY <2>1, <2>2, <2>3 DEF ProcessInv, Running, Inside
<1> QED BY <1>2, <1>3, NothingWritten

LEMMA LogBeginGroup ==
  ASSUME LogInv, IInv, BeginGroup
  PROVE  LogInv'
<1>1. PICK b : /\ pending' = {i \in rest : store[i].cz = b}
               /\ rest' = rest \ {i \in rest : store[i].cz = b}
  BY DEF BeginGroup
<1>2. /\ pc = "groups" /\ pc' = "pass"
      /\ UNCHANGED <<store, failure, nextLayer, remaining, chunk, trace, saved, result>>
  BY DEF BeginGroup, call, disk
<1>3. pending = {} BY <1>2 DEF IInv, LayerInv
<1>4. InFlight' = InFlight BY <1>1, <1>2, <1>3 DEF InFlight, ChunkRows
<1> QED BY <1>2, <1>4, Unfailed, SameInFlight DEF Inside

LEMMA LogPlaceGate ==
  ASSUME LogInv, PlaceGate
  PROVE  LogInv'
<1>1. pc = "pass" /\ UNCHANGED <<store, nextLayer, rest, trace, saved, result>>
  <2>1. pc = "pass" BY Zenon DEF PlaceGate
  <2>2. UNCHANGED <<call, nextLayer, rest, trace, disk>> BY Zenon DEF PlaceGate
  <2> QED BY <2>1, <2>2 DEF call, disk
<1>2. PICK g \in pending :
        /\ pending' = pending \ {g}
        /\ \/ remaining' = remaining \cup {g} /\ UNCHANGED <<pc, failure, chunk>>
           \/ /\ UNCHANGED remaining
              /\ \/ Fail("occupied") /\ UNCHANGED chunk
                 \/ \E p : chunk' = chunk \cup {[row |-> g, pair |-> p]}
                           /\ UNCHANGED <<pc, failure>>
  BY ZenonT(60) DEF PlaceGate
<1>3. CASE remaining' = remaining \cup {g} /\ UNCHANGED <<pc, failure, chunk>>
  <2>1. InFlight' = InFlight BY <1>1, <1>2, <1>3 DEF InFlight, ChunkRows
  <2> QED BY <1>1, <1>3, <2>1, Unfailed, SameInFlight DEF Inside
<1>4. CASE UNCHANGED remaining /\ Fail("occupied")
  <2>1. pc' = "failed" /\ failure' = "occupied" BY <1>4 DEF Fail
  <2>2. ProcessInv' BY <2>1 DEF ProcessInv, Running
  <2>3. ResultInv' BY <1>1, <2>1, ResultCarried
  <2> QED BY <1>1, <2>2, <2>3, NothingWritten
<1>5. CASE UNCHANGED remaining /\ \E p : chunk' = chunk \cup {[row |-> g, pair |-> p]}
                                        /\ UNCHANGED <<pc, failure>>
  <2>1. PICK p : chunk' = chunk \cup {[row |-> g, pair |-> p]} /\ UNCHANGED <<pc, failure>>
    BY <1>5
  <2>2. ChunkRows' = ChunkRows \cup {g}
    <3>1. PICK new : new = [row |-> g, pair |-> p] OBVIOUS
    <3>2. new.row = g /\ chunk' = chunk \cup {new} BY <2>1, <3>1
    <3> QED BY ONLY <3>2 DEF ChunkRows
  <2>3. InFlight' = InFlight BY <1>1, <1>2, <1>5, <2>2 DEF InFlight
  <2> QED BY <1>1, <2>1, <2>3, Unfailed, SameInFlight DEF Inside
<1> QED BY <1>2, <1>3, <1>4, <1>5

LEMMA LogMakeRoom ==
  ASSUME LogInv, MakeRoom
  PROVE  LogInv'
<1>1. /\ pc = "pass" /\ pending = {} /\ chunk = {}
      /\ pending' = remaining /\ remaining' = {}
      /\ UNCHANGED <<store, nextLayer, rest, chunk, trace, saved, result>>
  BY DEF MakeRoom, call, disk
<1>2. pc' \in {pc, "failed"} /\ failure' \in {failure, "room"}
  BY DEF MakeRoom, Fail
<1>3. InFlight' = InFlight BY <1>1 DEF InFlight, ChunkRows
<1> QED BY <1>1, <1>2, <1>3, Unfailed, SameInFlight DEF Inside

LEMMA LogPulse ==
  ASSUME LogInv, IInv, Pulse
  PROVE  LogInv'
<1>1. /\ pc = "pass" /\ pending = {} /\ pc' \in {"groups", "pass"}
      /\ trace' = Append(trace, ChunkRows)
      /\ pending' = remaining /\ remaining' = {} /\ chunk' = {}
      /\ UNCHANGED <<store, failure, nextLayer, rest, saved, result>>
  BY DEF Pulse, call, disk
<1>2. /\ nextLayer \in Nat /\ nextLayer < Depth(store)
      /\ Emitted(trace) = Below(nextLayer + 1) \ InFlight
  BY <1>1, InsideOf DEF Inside
<1>3. /\ rest \cup pending \cup remaining \cup ChunkRows \subseteq Batch(store, nextLayer)
      /\ rest \cap (pending \cup remaining \cup ChunkRows) = {}
      /\ remaining \cap ChunkRows = {}
  BY DEF IInv, LayerInv
<1>4. /\ Below(nextLayer + 1) = Below(nextLayer) \cup Batch(store, nextLayer)
      /\ Below(nextLayer) \cap Batch(store, nextLayer) = {}
  BY <1>2, NextBelow DEF LogInv, StoreInv
<1>5. InFlight = rest \cup remaining \cup ChunkRows BY <1>1 DEF InFlight
<1>6. InFlight' = rest \cup remaining
  <2>1. ChunkRows' = {} BY <1>1 DEF ChunkRows
  <2> QED BY <1>1, <2>1 DEF InFlight
<1>7. PICK rows, u : rows = ChunkRows /\ u = <<rows>> OBVIOUS
<1>8. trace' = trace \o u
  <2>1. trace \in Seq(SUBSET DOMAIN store) BY DEF LogInv, TraceOK, Events
  <2>2. rows \in SUBSET DOMAIN store BY <1>3, <1>7 DEF Batch
  <2>3. Append(trace, rows) = trace \o <<rows>> BY <2>1, <2>2
  <2> QED BY <1>1, <1>7, <2>3
<1>9. rows \in SUBSET (Batch(store, nextLayer) \ Emitted(trace))
  BY <1>2, <1>3, <1>5, <1>7
<1>10. /\ u \in Seq(SUBSET (Batch(store, nextLayer) \ Emitted(trace)))
       /\ DOMAIN u = {1} /\ u[1] = rows
  BY <1>7, <1>9
<1>11. Emitted(u) = rows BY <1>10 DEF Emitted
<1>12. \A n, m \in DOMAIN u : n # m => u[n] \cap u[m] = {} BY <1>10
<1>13. /\ Below(nextLayer) \subseteq Emitted(trace)
       /\ Emitted(trace) \subseteq Below(nextLayer + 1)
       /\ Emitted(trace) \cup Emitted(u) = Below(nextLayer + 1) \ InFlight'
  BY <1>2, <1>3, <1>4, <1>5, <1>6, <1>7, <1>11
<1>14. Running /\ pc # "done" /\ Inside' BY <1>1 DEF Running, Inside
<1> QED BY <1>1, <1>2, <1>8, <1>10, <1>12, <1>13, <1>14, LogWrites

LEMMA LogEndLayer ==
  ASSUME LogInv, IInv, EndLayer
  PROVE  LogInv'
<1>1. /\ pc = "groups" /\ rest = {} /\ nextLayer' = nextLayer + 1 /\ pc' = "cadence"
      /\ UNCHANGED <<store, failure, trace, saved, result>>
  BY DEF EndLayer, call, disk
<1>2. InFlight = {} BY <1>1 DEF IInv, LayerInv, InFlight, ChunkRows
<1>3. /\ nextLayer \in Nat /\ nextLayer < Depth(store) /\ saved.layer <= nextLayer
      /\ Emitted(trace) = Below(nextLayer + 1)
  BY <1>1, <1>2, InsideOf DEF Inside
<1>4. Depth(store) \in Nat /\ saved.layer \in Int BY DEF LogInv, StoreInv, SavedInv
<1>5. Emitted(trace)' = Emitted(trace) /\ Below(nextLayer)' = Below(nextLayer + 1)
  BY <1>1 DEF Emitted, Below
<1>6. ProcessInv' BY <1>1, <1>3, <1>4, <1>5 DEF ProcessInv, Inside
<1>7. ResultInv' BY <1>1, ResultCarried, Unfailed
<1> QED BY <1>1, <1>6, <1>7, NothingWritten

\* A trace begins itself.
LEMMA BeginsItself ==
  ASSUME NEW S, NEW t \in Seq(S)
  PROVE  Begins(t, t)
<1>1. Len(t) \in Nat /\ SubSeq(t, 1, Len(t)) = t
  BY SubSeqFull
<1> QED
  BY <1>1 DEF Begins

\* A checkpoint is made between two layers.
LEMMA LogSave ==
  ASSUME LogInv, Running, ~Inside, Save, UNCHANGED <<store, trace>>
  PROVE  SavedInv' /\ saved'.layer = nextLayer /\ saved'.trace = trace
<1>1. /\ nextLayer \in Nat /\ nextLayer <= Depth(store) /\ Emitted(trace) = Below(nextLayer)
  BY OutsideOf
<1>2. saved'.layer = nextLayer /\ saved'.trace = trace
  BY DEF Save
<1>3. trace \in Seq(SUBSET DOMAIN store)
  BY DEF LogInv, TraceOK, Events
<1>4. Begins(trace, trace)
  BY <1>3, BeginsItself
<1>5. HasCheckpoint'
  BY <1>1, <1>2 DEF HasCheckpoint
<1>6. CheckpointOwnsItsLayers'
  BY <1>1, <1>2 DEF CheckpointOwnsItsLayers, Emitted, Below
<1> QED
  BY <1>1, <1>2, <1>3, <1>4, <1>5, <1>6 DEF SavedInv, Events

\* The store and the trace stay.
LEMMA LogCarried ==
  ASSUME LogInv, UNCHANGED <<store, trace>>
  PROVE  StoreInv' /\ TraceOK(trace)' /\ Emitted(trace)' = Emitted(trace)
<1>1. StoreInv'
  BY StoreCarried DEF LogInv
<1>2. PICK t : t = trace
  OBVIOUS
<1>3. TraceOK(t) /\ trace' = t
  BY <1>2 DEF LogInv
<1> QED
  BY <1>1, <1>2, <1>3, TraceCarried

LEMMA LogCheckpoint ==
  ASSUME LogInv, Cadence \/ Pause \/ Finish
  PROVE  LogInv'
<1>1. /\ Running /\ ~Inside /\ pc # "done"
      /\ UNCHANGED <<store, failure, nextLayer, trace, result>>
      /\ pc' \in {"layer", "idle", "verify"}
  BY DEF Cadence, Pause, Finish, Running, Inside, call
<1>2. StoreInv' /\ TraceOK(trace)' /\ Emitted(trace)' = Emitted(trace)
  BY <1>1, LogCarried
<1>3. ResultInv'
  BY <1>1, ResultCarried, Unfailed
<1>4. /\ nextLayer \in Nat /\ nextLayer <= Depth(store) /\ saved.layer <= nextLayer
      /\ Emitted(trace) = Below(nextLayer)
  BY <1>1, OutsideOf
<1>5. Below(nextLayer)' = Below(nextLayer)
  BY <1>1 DEF Below
<1>6. ~Inside'
  BY <1>1 DEF Inside
<1>7. CASE Save
  <2>1. SavedInv' /\ saved'.layer = nextLayer /\ saved'.trace = trace
    BY <1>1, <1>7, LogSave
  <2>2. pc' = "verify" => nextLayer = Depth(store)
    <3>1. Depth(store) \in Nat
      BY DEF LogInv, StoreInv
    <3>2. pc' = "verify" => nextLayer >= Depth(store)
      BY DEF Cadence, Pause, Finish
    <3> QED
      BY <1>4, <3>1, <3>2
  <2>3. ProcessInv'
    BY <1>1, <1>2, <1>4, <1>5, <1>6, <2>1, <2>2 DEF ProcessInv
  <2> QED
    BY <1>2, <1>3, <2>1, <2>3 DEF LogInv
<1>8. CASE Cadence /\ UNCHANGED saved
  <2>1. pc' = "layer"
    BY <1>8 DEF Cadence
  <2>2. ProcessInv'
    BY <1>1, <1>2, <1>4, <1>5, <1>6, <1>8, <2>1 DEF ProcessInv
  <2> QED
    BY <1>1, <1>3, <1>8, <2>2, NothingWritten
<1>9. Save \/ (Cadence /\ UNCHANGED saved)
  BY DEF Cadence, Pause, Finish
<1> QED
  BY <1>7, <1>8, <1>9

\* A finished trace has every row, and so is complete.
LEMMA FinishedIsComplete ==
  ASSUME LogInv, pc = "verify"
  PROVE  Complete(trace) /\ saved.trace = trace
<1>1. Running /\ ~Inside
  BY DEF Running, Inside
<1>2. nextLayer = Depth(store) /\ saved.trace = trace /\ Emitted(trace) = Below(nextLayer)
  BY <1>1 DEF LogInv, ProcessInv
<1>3. Below(Depth(store)) = DOMAIN store
  BY DEF LogInv, StoreInv, Below
<1>4. PICK t : t = trace
  OBVIOUS
<1>5. TraceOK(t) /\ Sound(store) /\ Emitted(t) = DOMAIN store
  BY <1>2, <1>3, <1>4 DEF LogInv, StoreInv
<1>6. \A q \in Atoms : GatesOn(q, t) = Ledger(q)
  BY <1>5, GatesBegin
<1> QED
  BY <1>2, <1>4, <1>6 DEF Complete

LEMMA LogPublish ==
  ASSUME LogInv, Publish
  PROVE  LogInv'
<1>1. pc = "verify" /\ UNCHANGED <<store, nextLayer, trace, saved>>
  BY DEF Publish, call
<1>2. Complete(trace) /\ saved.trace = trace
  BY <1>1, FinishedIsComplete
<1>3. result' = trace /\ pc' = "done" /\ UNCHANGED failure
  BY <1>2 DEF Publish
<1>4. Complete(result)'
  BY <1>1, <1>2, <1>3 DEF Complete, GatesOn, Ledger, AtomsIn, OfAtom
<1>5. ResultInv'
  BY <1>3, <1>4, Unfailed DEF ResultInv, NeverRefused
<1>6. ProcessInv'
  BY <1>3 DEF ProcessInv, Running
<1> QED
  BY <1>1, <1>5, <1>6, NothingWritten

\* What is lost of the file was written after the checkpoint.
LEMMA LogKill ==
  ASSUME LogInv, Kill
  PROVE  LogInv'
<1>1. /\ Running /\ pc # "done" /\ pc' = "idle"
      /\ UNCHANGED <<store, failure, saved, result>>
  BY DEF Kill, Running, call, disk
<1>2. PICK n \in Largest({1, Len(saved.trace)})..Len(trace) : trace' = SubSeq(trace, 1, n)
  BY DEF Kill
<1>3. PICK p, t : p = saved.trace /\ t = trace
  OBVIOUS
<1>4. TraceOK(t) /\ Sound(store) /\ t \in Seq(SUBSET DOMAIN store)
      /\ p \in Seq(SUBSET DOMAIN store) /\ Begins(p, t)
  BY <1>3 DEF LogInv, StoreInv, SavedInv, TraceOK, Events
<1>5. Len(p) \in Nat /\ Len(t) \in Nat
  BY <1>4
<1>6. /\ Largest({1, Len(p)}) \in {1, Len(p)}
      /\ \A y \in {1, Len(p)} : y <= Largest({1, Len(p)})
  <2>1. \E x \in {1, Len(p)} : \A y \in {1, Len(p)} : y <= x
    BY <1>5
  <2> QED
    BY <2>1 DEF Largest
<1>7. n \in Len(p)..Len(t) /\ n \in 0..Len(t)
  BY <1>2, <1>3, <1>5, <1>6
<1>8. PICK w : w = SubSeq(t, 1, n)
  OBVIOUS
<1>9. TraceOK(w)
  BY <1>4, <1>7, <1>8, PrefixOK
<1>10. Begins(p, w)
  BY <1>4, <1>7, <1>8, BeginsFacts
<1>11. trace' = w
  BY <1>2, <1>3, <1>8
<1>12. TraceOK(trace)'
  BY <1>1, <1>9, <1>11, TraceCarried
<1>13. SavedInv'
  BY <1>1, <1>3, <1>10, <1>11, SavedCarried DEF LogInv
<1>14. StoreInv'
  BY <1>1, StoreCarried DEF LogInv
<1>15. ProcessInv'
  BY <1>1 DEF ProcessInv, Running
<1>16. ResultInv'
  BY <1>1, ResultCarried, Unfailed
<1> QED
  BY <1>12, <1>13, <1>14, <1>15, <1>16 DEF LogInv

LEMMA LogStutter ==
  ASSUME LogInv, UNCHANGED vars
  PROVE  LogInv'
<1>1. UNCHANGED <<store, pc, failure, nextLayer, rest, pending, remaining, chunk, trace, saved, result>>
  BY DEF vars, call, group, disk
<1>2. StoreInv' /\ TraceOK(trace)' /\ Emitted(trace)' = Emitted(trace)
  BY <1>1, LogCarried
<1>3. ProcessInv'
  BY <1>1 DEF LogInv, ProcessInv, Running, Inside, Emitted, Below, InFlight, ChunkRows
<1>4. ResultInv'
  BY <1>1 DEF LogInv, ResultInv, NeverRefused, Complete, GatesOn, Ledger, AtomsIn, OfAtom
<1> QED
  BY <1>1, <1>3, <1>4, NothingWritten

LEMMA LogStep ==
  ASSUME LogInv, IInv, [Next]_vars
  PROVE  LogInv'
BY LogStartFresh, LogResume, LogBeginLayer, LogBeginGroup, LogPlaceGate, LogMakeRoom,
   LogPulse, LogEndLayer, LogCheckpoint, LogPublish, LogKill, LogStutter DEF Next, Compile

\* StoreIsSound is what the scan of the circuit gives.
LEMMA SoundAtInit ==
  ASSUME Init
  PROVE  StoreIsSound
BY StoreAtInit DEF StoreInv, Sound, StoreIsSound, LayersOf, CzLayersOf

-----------------------------------------------------------------------------
(* The steps, for who waits in the zone.                                    *)

\* Who is sent home is no resident any more.
LEMMA ResidentsReturned ==
  ASSUME NEW S, mapping' = Returned(mapping, S)
  PROVE  Residents' = Residents \ S
<1>1. PICK m : m = Returned(mapping, S)
  OBVIOUS
<1>2. \A q \in Atoms : m[q] = IF q \in S THEN Home ELSE mapping[q]
  BY <1>1 DEF Returned
<1>3. mapping' = m
  BY <1>1
<1> QED
  BY <1>2, <1>3 DEF Residents

\* Only the atoms of the gate that is looked at may come into the zone.
LEMMA OnlyItsAtomsCome ==
  ASSUME MapInv, NEW a \in Atoms, NEW b \in Atoms, NEW p,
         NEW m, m = BroughtTogether(a, b),
         NEW c, c = Cleared(m, a, b, p),
         NEW n, n = Put(c, a, b, SiteFor(c, a, b, p))
  PROVE  \A q \in Atoms \ {a, b} : /\ m[q] = mapping[q]
                                   /\ n[q] # Home => mapping[q] # Home
<1>1. MapOK(m) /\ \A q \in Atoms \ {a, b} : m[q] = mapping[q]
  BY BroughtOK
<1>2. MapOK(c)
  BY <1>1, ReturnedOK DEF Cleared
<1>3. \A q \in Atoms : c[q] \in {m[q], Home}
  BY <1>1 DEF Cleared, Returned
<1>4. \A q \in Atoms \ {a, b} : n[q] = c[q]
  BY <1>2 DEF Put, MapOK
<1> QED
  BY <1>1, <1>3, <1>4

\* A gate that is placed has its two atoms in the zone or none of them; the
\* rows of the group stay the same.
LEMMA PlacedOrDeferred ==
  ASSUME IInv, PlaceGate, failure' # "occupied"
  PROVE  \E g \in pending :
           /\ pending' = pending \ {g} /\ UNCHANGED pc
           /\ \/ /\ remaining' = remaining \cup {g} /\ UNCHANGED chunk
                 /\ Residents' \subseteq Residents
              \/ /\ UNCHANGED remaining /\ ChunkRows' = ChunkRows \cup {g}
                 /\ Residents' \subseteq Residents \cup AtomsOf(store[g])
<1>2. PICK g \in pending :
        /\ pending' = pending \ {g}
        /\ LET a == store[g].atoms[1]
               b == store[g].atoms[2]
               m == BroughtTogether(a, b)
           IN \/ /\ Assignments(m, a, b) = {}
                 /\ mapping' = m
                 /\ remaining' = remaining \cup {g}
                 /\ UNCHANGED <<pc, failure, chunk>>
              \/ \E p \in Assignments(m, a, b) :
                   LET cleared == Cleared(m, a, b, p)
                       site == SiteFor(cleared, a, b, p)
                   IN /\ UNCHANGED remaining
                      /\ IF \E q \in Atoms \ {a, b} : cleared[q] \in SitesOf(p)
                         THEN Fail("occupied") /\ UNCHANGED <<mapping, chunk>>
                         ELSE /\ mapping' = [cleared EXCEPT ![a] = site, ![b] = Other(site)]
                              /\ chunk' = chunk \cup {[row |-> g, pair |-> p]}
                              /\ UNCHANGED <<pc, failure>>
  BY ZenonT(60) DEF PlaceGate
<1>3. g \in Czs(store) /\ StoreIsSound /\ MapInv
  BY DEF IInv, LayerInv
<1>4. PICK a \in Atoms, b \in Atoms :
        /\ a = store[g].atoms[1] /\ b = store[g].atoms[2] /\ a # b
        /\ AtomsOf(store[g]) = {a, b}
  BY <1>3, CzAtoms
<1>5. PICK m : m = BroughtTogether(a, b)
  OBVIOUS
<1>6. CASE /\ mapping' = BroughtTogether(a, b)
           /\ remaining' = remaining \cup {g}
           /\ UNCHANGED <<pc, failure, chunk>>
  <2>1. Residents' \subseteq Residents
    <3>1. CASE m = mapping
      BY <1>5, <1>6, <3>1 DEF Residents
    <3>2. CASE m = Returned(mapping, {Largest({a, b})})
      BY <1>5, <1>6, <3>2, ResidentsReturned
    <3> QED
      BY <1>5, <3>1, <3>2 DEF BroughtTogether
  <2> QED
    BY <1>2, <1>6, <2>1
<1>7. CASE \E p \in Assignments(BroughtTogether(a, b), a, b) :
             LET cleared == Cleared(BroughtTogether(a, b), a, b, p)
                 site == SiteFor(cleared, a, b, p)
             IN /\ UNCHANGED remaining
                /\ IF \E q \in Atoms \ {a, b} : cleared[q] \in SitesOf(p)
                   THEN Fail("occupied") /\ UNCHANGED <<mapping, chunk>>
                   ELSE /\ mapping' = [cleared EXCEPT ![a] = site, ![b] = Other(site)]
                        /\ chunk' = chunk \cup {[row |-> g, pair |-> p]}
                        /\ UNCHANGED <<pc, failure>>
  <2>1. PICK p, c, site :
          /\ c = Cleared(BroughtTogether(a, b), a, b, p)
          /\ site = SiteFor(c, a, b, p)
          /\ UNCHANGED remaining
          /\ IF \E q \in Atoms \ {a, b} : c[q] \in SitesOf(p)
             THEN Fail("occupied") /\ UNCHANGED <<mapping, chunk>>
             ELSE /\ mapping' = [c EXCEPT ![a] = site, ![b] = Other(site)]
                  /\ chunk' = chunk \cup {[row |-> g, pair |-> p]}
                  /\ UNCHANGED <<pc, failure>>
    BY ONLY <1>7
  <2>2. failure' # "occupied"
    OBVIOUS
  <2>3. PICK n, new : n = Put(c, a, b, site) /\ new = [row |-> g, pair |-> p]
    OBVIOUS
  <2>4. mapping' = n /\ chunk' = chunk \cup {new} /\ UNCHANGED <<pc, remaining>>
    BY ONLY <2>1, <2>2, <2>3 DEF Put, Fail
  <2>5. new.row = g
    BY <2>3
  <2>6. ChunkRows' = ChunkRows \cup {g}
    BY ONLY <2>4, <2>5 DEF ChunkRows
  <2>7. c = Cleared(m, a, b, p) /\ n = Put(c, a, b, SiteFor(c, a, b, p))
    BY <1>5, <2>1, <2>3
  <2>8. \A q \in Atoms \ {a, b} : n[q] # Home => mapping[q] # Home
    BY <1>3, <1>5, <2>7, OnlyItsAtomsCome
  <2>9. Residents' \subseteq Residents \cup AtomsOf(store[g])
    BY <1>4, <2>4, <2>8 DEF Residents
  <2>10. pending' = pending \ {g}
    BY <1>2
  <2> QED
    BY <2>4, <2>6, <2>9, <2>10
<1> QED
  <2>1. a = store[g].atoms[1] /\ b = store[g].atoms[2]
    BY <1>4
  <2> QED
    BY ONLY <1>2, <2>1, <1>6, <1>7, ZenonT(60)

\* Between the layers, nothing is asked but that M1 lets nobody wait.
LEMMA LitOutside ==
  ASSUME method \in {"M1", "M2", "M3", "M4"}, UNCHANGED method, pc' \notin {"groups", "pass"},
         method = "M1" => Residents' = {} /\ \A q \in Atoms : saved'.mapping[q] = Home
  PROVE  LitInv'
BY DEF LitInv, Inside

\* M1 has nobody in the zone but at a pass.
LEMMA NobodyWaits ==
  ASSUME LitInv, method = "M1"
  PROVE  /\ \A q \in Atoms : saved.mapping[q] = Home
         /\ pc # "pass" => Residents = {}
BY DEF LitInv

LEMMA LitInit ==
  ASSUME Init
  PROVE  LitInv
<1>1. /\ method \in Methods /\ pc = "idle" /\ mapping = AllHome /\ saved = NoCheckpoint
  BY DEF Init
<1>2. method \in {"M1", "M2", "M3", "M4"}
  BY <1>1, CompilerAssumption
<1>3. \A q \in Atoms : mapping[q] = Home /\ saved.mapping[q] = Home
  BY <1>1 DEF AllHome, NoCheckpoint
<1>4. Residents = {}
  BY <1>3 DEF Residents
<1> QED
  BY <1>1, <1>2, <1>3, <1>4 DEF LitInv, Inside

\* Every step outside of a group.
LEMMA LitElsewhere ==
  ASSUME LitInv, IInv, \/ StartFresh \/ Resume \/ EndLayer
                       \/ Cadence \/ Pause \/ Finish \/ Publish \/ Kill
  PROVE  LitInv'
<1>1. /\ method \in {"M1", "M2", "M3", "M4"} /\ UNCHANGED method
      /\ pc' \notin {"groups", "pass"}
  <2>1. method \in {"M1", "M2", "M3", "M4"}
    BY DEF LitInv
  <2>2. CASE StartFresh \/ Resume \/ Kill
    BY <2>1, <2>2 DEF StartFresh, Resume, Kill, Fail, call
  <2>3. CASE EndLayer \/ Cadence \/ Pause \/ Finish \/ Publish
    BY <2>1, <2>3 DEF EndLayer, Cadence, Pause, Finish, Publish, Fail, call
  <2> QED
    BY <2>2, <2>3
<1>2. ASSUME method = "M1"
      PROVE  Residents' = {} /\ \A q \in Atoms : saved'.mapping[q] = Home
  <2>1. \A q \in Atoms : saved.mapping[q] = Home
    BY <1>2, NobodyWaits
  <2>2. \A q \in Atoms : AllHome[q] = Home
    BY DEF AllHome
  <2>3. CASE StartFresh \/ Resume \/ Kill
    <3>1. mapping' \in {AllHome, saved.mapping} /\ UNCHANGED saved
      BY <2>3 DEF StartFresh, Resume, Kill, disk
    <3>2. \A q \in Atoms : mapping'[q] = Home
      BY <2>1, <2>2, <3>1
    <3> QED
      BY <2>1, <3>1, <3>2 DEF Residents
  <2>4. CASE EndLayer \/ Cadence \/ Pause \/ Finish \/ Publish
    <3>1. pc # "pass" /\ UNCHANGED mapping
      BY <2>4 DEF EndLayer, Cadence, Pause, Finish, Publish
    <3>2. Residents = {}
      BY <1>2, <3>1, NobodyWaits
    <3>3. \A q \in Atoms : mapping[q] = Home
      BY <3>2 DEF Residents
    <3>4. saved'.mapping \in {saved.mapping, mapping}
      BY <2>4 DEF EndLayer, Cadence, Pause, Finish, Publish, Save, disk
    <3> QED
      BY <2>1, <3>1, <3>2, <3>3, <3>4 DEF Residents
  <2> QED
    BY <2>3, <2>4
<1> QED
  BY <1>1, <1>2, LitOutside

LEMMA LitBeginLayer ==
  ASSUME LitInv, BeginLayer
  PROVE  LitInv'
<1>1. /\ pc = "layer" /\ pc' = "groups" /\ UNCHANGED <<store, method, mapping, nextLayer, saved>>
      /\ rest' = Batch(store, nextLayer) \cap Czs(store)
  BY DEF BeginLayer, call, disk
<1>2. method = "M1" => Residents' = {} /\ \A q \in Atoms : saved'.mapping[q] = Home
  BY <1>1, NobodyWaits DEF Residents
<1>3. (Batch(store, nextLayer) \cap Czs(store))' \ rest' = {}
  BY <1>1
<1> QED
  BY <1>1, <1>2, <1>3 DEF LitInv

\* The reasons to wait stay what they are.
LEMMA SameReasons ==
  ASSUME UNCHANGED <<store, method, boundary, nextLayer>>,
         (Emitted(trace) \cup InGroup)' = Emitted(trace) \cup InGroup
  PROVE  \A q : Waits(q) => Waits(q)'
<1>1. \A i : i \notin Emitted(trace) \cup InGroup => i \notin (Emitted(trace) \cup InGroup)'
  OBVIOUS
<1>2. Window(store, boundary, SeenAhead)' = Window(store, boundary, SeenAhead)
  BY DEF SeenAhead
<1> QED
  BY <1>1, <1>2 DEF Waits

\* A gate that is moved about in its group gives and takes nobody a reason.
LEMMA LitInGroup ==
  ASSUME LitInv, pc = "pass", pc' = "pass",
         UNCHANGED <<store, method, boundary, nextLayer, rest, trace, saved>>,
         InGroup' = InGroup,
         NEW S, Residents' \subseteq Residents \cup S, S \subseteq AtomsIn(InGroup),
         S \cup Pulsed \subseteq Pulsed'
  PROVE  LitInv'
<1>1. /\ method \in {"M1", "M2", "M3", "M4"}
      /\ method = "M1" => /\ \A q \in Atoms : saved.mapping[q] = Home
                          /\ \A q \in Residents : q \in Pulsed
      /\ \A i \in rest : \A j \in (Batch(store, nextLayer) \cap Czs(store)) \ rest :
           store[j].cz < store[i].cz
      /\ \A i \in InGroup : store[i].cz = boundary
      /\ \A q \in Residents \ AtomsIn(InGroup) : Waits(q)
  BY DEF LitInv, Inside
<1>2. AtomsIn(InGroup)' = AtomsIn(InGroup)
  BY DEF AtomsIn
<1>3. (Emitted(trace) \cup InGroup)' = Emitted(trace) \cup InGroup
  BY DEF Emitted
<1>4. \A q \in Residents' \ AtomsIn(InGroup)' : Waits(q)'
  BY <1>1, <1>2, <1>3, SameReasons
<1>5. method = "M1" => \A q \in Residents' : q \in Pulsed'
  BY <1>1
<1> QED
  BY <1>1, <1>4, <1>5 DEF LitInv

LEMMA LitPlaceGate ==
  ASSUME LitInv, IInv, PlaceGate, failure' # "occupied"
  PROVE  LitInv'
<1>1. pc = "pass" /\ UNCHANGED <<store, method, boundary, nextLayer, rest, trace, saved>>
  <2>1. pc = "pass" BY Zenon DEF PlaceGate
  <2>2. UNCHANGED <<call, nextLayer, rest, boundary, trace, disk>> BY Zenon DEF PlaceGate
  <2> QED BY <2>1, <2>2 DEF call, disk
<1>2. PICK g \in pending :
           /\ pending' = pending \ {g} /\ UNCHANGED pc
           /\ \/ /\ remaining' = remaining \cup {g} /\ UNCHANGED chunk
                 /\ Residents' \subseteq Residents
              \/ /\ UNCHANGED remaining /\ ChunkRows' = ChunkRows \cup {g}
                 /\ Residents' \subseteq Residents \cup AtomsOf(store[g])
  BY PlacedOrDeferred
<1>3. CASE /\ remaining' = remaining \cup {g} /\ UNCHANGED chunk
           /\ Residents' \subseteq Residents
  <2>1. ChunkRows' = ChunkRows
    BY <1>3 DEF ChunkRows
  <2>2. InGroup' = InGroup
    BY <1>2, <1>3, <2>1 DEF InGroup
  <2>3. Pulsed' = Pulsed
    BY <1>1, <2>1 DEF Pulsed, AtomsIn
  <2>4. PICK S : S = {}
    OBVIOUS
  <2> QED
    BY <1>1, <1>2, <1>3, <2>2, <2>3, <2>4, LitInGroup
<1>4. CASE /\ UNCHANGED remaining /\ ChunkRows' = ChunkRows \cup {g}
           /\ Residents' \subseteq Residents \cup AtomsOf(store[g])
  <2>1. InGroup' = InGroup
    BY <1>2, <1>4 DEF InGroup
  <2>2. AtomsOf(store[g]) \subseteq Pulsed' /\ Pulsed \subseteq Pulsed'
    BY <1>1, <1>4 DEF Pulsed, AtomsIn
  <2>3. AtomsOf(store[g]) \subseteq AtomsIn(InGroup)
    BY DEF AtomsIn, InGroup
  <2>4. PICK S : S = AtomsOf(store[g])
    OBVIOUS
  <2> QED
    BY <1>1, <1>2, <1>4, <2>1, <2>2, <2>3, <2>4, LitInGroup
<1> QED
  BY <1>2, <1>3, <1>4

LEMMA LitMakeRoom ==
  ASSUME LitInv, MakeRoom, failure' # "room"
  PROVE  LitInv'
<1>1. /\ pc = "pass" /\ pending = {} /\ pc' = "pass"
      /\ pending' = remaining /\ remaining' = {}
      /\ UNCHANGED <<store, method, boundary, nextLayer, rest, chunk, trace, saved>>
  BY DEF MakeRoom, Fail, call, disk
<1>2. PICK out : mapping' = Returned(mapping, out)
  BY DEF MakeRoom, Fail
<1>3. Residents' \subseteq Residents
  BY <1>2, ResidentsReturned
<1>4. InGroup' = InGroup /\ Pulsed' = Pulsed
  BY <1>1 DEF InGroup, Pulsed, AtomsIn, ChunkRows
<1>5. PICK S : S = {}
  OBVIOUS
<1> QED
  BY <1>1, <1>3, <1>4, <1>5, LitInGroup

\* Who is let stay has a gate in sight, or it was the last CZ layer.
LEMMA WeighedUses ==
  ASSUME NEW uses, NEW b, TRUE \in Weighed(uses, b)
  PROVE  uses # {}
BY DEF Weighed

LEMMA StaysForAUse ==
  ASSUME NEW q \in Atoms, NEW b, NEW lower, NEW uses, uses = UsesOf(q, b, lower),
         uses # {}
  PROVE  \E i \in Window(store, b, SeenAhead) \cap OfAtom(store, q) : store[i].cz >= lower
BY DEF UsesOf

\* An idle atom that is let stay has a use from the group's layer on.
LEMMA IdleReason ==
  ASSUME NEW q \in Atoms, NEW b, TRUE \in StayIdle(q, b),
         method \in {"M1", "M2", "M3", "M4"}
  PROVE  /\ method # "M1"
         /\ \E i \in Window(store, b, SeenAhead) \cap OfAtom(store, q) : store[i].cz >= b
<1>1. PICK uses : uses = UsesOf(q, b, b)
  OBVIOUS
<1>2. CASE method = "M1"
  <2>1. StayIdle(q, b) = {FALSE}
    BY <1>2 DEF StayIdle
  <2> QED
    BY <2>1
<1>3. CASE method = "M2"
  <2>1. StayIdle(q, b) = {b \in uses}
    BY <1>1, <1>3 DEF StayIdle
  <2>2. b \in uses
    BY <2>1, Zenon
  <2>3. uses # {}
    BY <2>2
  <2> QED
    BY <1>1, <1>3, <2>3, StaysForAUse
<1>4. CASE method \in {"M3", "M4"}
  <2>1. StayIdle(q, b) = Weighed(uses, b)
    BY <1>1, <1>4 DEF StayIdle
  <2>2. uses # {}
    BY <2>1, WeighedUses
  <2> QED
    BY <1>1, <1>4, <2>2, StaysForAUse
<1> QED
  BY <1>2, <1>3, <1>4

\* An atom that is let stay after its gate has a use from the next layer on.
LEMMA GateReason ==
  ASSUME NEW q \in Atoms, NEW b, TRUE \in StayAfterGate(q, b),
         method \in {"M1", "M2", "M3", "M4"}
  PROVE  /\ method # "M1"
         /\ \/ \E i \in Window(store, b, SeenAhead) \cap OfAtom(store, q) : store[i].cz >= b + 1
            \/ method \in {"M3", "M4"} /\ b >= LastCzLayer(store)
<1>1. PICK uses : uses = UsesOf(q, b, b + 1)
  OBVIOUS
<1>2. CASE method = "M1"
  <2>1. StayAfterGate(q, b) = {FALSE}
    BY <1>2 DEF StayAfterGate
  <2> QED
    BY <2>1
<1>3. CASE method = "M2"
  <2>1. StayAfterGate(q, b) = {b + 1 \in uses}
    BY <1>1, <1>3 DEF StayAfterGate
  <2>2. b + 1 \in uses
    BY <2>1, Zenon
  <2>3. uses # {}
    BY <2>2
  <2> QED
    BY <1>1, <1>3, <2>3, StaysForAUse
<1>4. CASE method \in {"M3", "M4"} /\ ~(b >= LastCzLayer(store))
  <2>1. StayAfterGate(q, b) = Weighed(uses, b)
    BY <1>1, <1>4 DEF StayAfterGate
  <2>2. uses # {}
    BY <2>1, WeighedUses
  <2> QED
    BY <1>1, <1>4, <2>2, StaysForAUse
<1> QED
  BY <1>2, <1>3, <1>4

\* What a row on its way, or one in sight, is about.
LEMMA CzNumbers ==
  ASSUME LogInv
  PROVE  \A i \in DOMAIN store : /\ store[i].cz \in Int /\ store[i].layer \in Nat
                                 /\ store[i].cz <= LastCzLayer(store)
<1>1. Sound(store)
  BY DEF LogInv, StoreInv
<1> QED
  BY <1>1, DepthFacts, RowFacts

LEMMA LastIsNumber ==
  ASSUME LogInv
  PROVE  LastCzLayer(store) \in Int
BY DepthFacts DEF LogInv, StoreInv

\* The group takes the first CZ layer of its dependency layer: who stays has
\* a gate that is written but of another layer, or is still to come.
LEMMA LitBeginGroup ==
  ASSUME LogInv, IInv, LitInv, BeginGroup
  PROVE  LitInv'
<1>1. /\ pc = "groups" /\ pc' = "pass"
      /\ UNCHANGED <<store, method, nextLayer, remaining, chunk, trace, saved>>
  BY DEF BeginGroup, call, disk
<1>2. PICK b \in {store[i].cz : i \in rest} :
        LET rows == {i \in rest : store[i].cz = b}
            idlers == Residents \ AtomsIn(rows)
        IN /\ \A i \in rest : b <= store[i].cz
           /\ boundary' = b
           /\ pending' = rows
           /\ rest' = rest \ rows
           /\ \E stays \in [idlers -> BOOLEAN] :
                /\ \A q \in idlers : stays[q] \in StayIdle(q, b)
                /\ mapping' = Returned(mapping, {q \in idlers : ~stays[q]})
  BY DEF BeginGroup
<1>3. PICK rows, idlers :
        /\ rows = {i \in rest : store[i].cz = b} /\ idlers = Residents \ AtomsIn(rows)
        /\ boundary' = b /\ pending' = rows /\ rest' = rest \ rows
        /\ \E stays \in [idlers -> BOOLEAN] :
             /\ \A q \in idlers : stays[q] \in StayIdle(q, b)
             /\ mapping' = Returned(mapping, {q \in idlers : ~stays[q]})
  BY <1>2
<1>4. \A q \in Residents' : q \in Residents /\ (q \in idlers => TRUE \in StayIdle(q, b))
  <2>1. PICK stays \in [idlers -> BOOLEAN] :
          /\ \A q \in idlers : stays[q] \in StayIdle(q, b)
          /\ mapping' = Returned(mapping, {q \in idlers : ~stays[q]})
    BY <1>3
  <2>2. PICK out : out = {q \in idlers : ~stays[q]}
    OBVIOUS
  <2>3. Residents' = Residents \ out
    BY <2>1, <2>2, ResidentsReturned
  <2>4. \A q \in idlers : q \notin out => stays[q] = TRUE
    BY <2>1, <2>2, Zenon
  <2>5. \A q \in idlers : q \notin out => TRUE \in StayIdle(q, b)
    BY <2>1, <2>4
  <2> QED
    BY <2>3, <2>5
<1>5. /\ rest \subseteq Batch(store, nextLayer) /\ rest \subseteq Czs(store)
      /\ pending = {} /\ remaining = {} /\ ChunkRows = {} /\ ChunkRows' = {}
  BY <1>1 DEF IInv, LayerInv, ChunkRows
<1>6. \A i \in rest : \A j \in (Batch(store, nextLayer) \cap Czs(store)) \ rest :
        store[j].cz < store[i].cz
  BY <1>1 DEF LitInv, Inside
<1>7. InGroup' = rows
  BY <1>1, <1>3, <1>5 DEF InGroup
<1>8. Emitted(trace)' = Emitted(trace) /\ Emitted(trace) = Below(nextLayer + 1) \ rest
  <2>1. InFlight = rest
    BY <1>5 DEF InFlight
  <2> QED
    BY <1>1, <2>1, InsideOf DEF Inside, Emitted
<1>9. \A i \in DOMAIN store : store[i].cz \in Int /\ store[i].layer \in Nat
  BY CzNumbers
<1>10. PICK i0 \in rest : store[i0].cz = b
  BY <1>2
<1>11. b \in Int /\ \A i \in rest : b <= store[i].cz
  BY <1>2, <1>5, <1>9, <1>10 DEF Batch
<1>12. ASSUME NEW i \in rest', NEW j \in (Batch(store, nextLayer) \cap Czs(store)) \ rest'
       PROVE  store[j].cz < store[i].cz
  <2>1. i \in rest /\ store[i].cz # b
    BY <1>3
  <2>2. CASE j \notin rest
    BY <1>6, <2>1, <2>2
  <2>3. CASE j \in rows
    <3>1. store[j].cz = b /\ b <= store[i].cz /\ store[i].cz \in Int
      BY <1>3, <1>5, <1>9, <1>11, <2>1, <2>3 DEF Batch
    <3> QED
      BY <1>11, <2>1, <3>1
  <2> QED
    BY <1>3, <2>2, <2>3
<1>13. ASSUME NEW q \in Residents', q \notin AtomsIn(rows)
       PROVE  Waits(q)'
  <2>1. q \in Atoms /\ TRUE \in StayIdle(q, b)
    BY <1>3, <1>4, <1>13 DEF Residents
  <2>2. method # "M1" /\ \E i \in Window(store, b, SeenAhead) \cap OfAtom(store, q) : store[i].cz >= b
    BY <2>1, IdleReason DEF LitInv
  <2>3. PICK i \in Window(store, b, SeenAhead) \cap OfAtom(store, q) : store[i].cz >= b
    BY <2>2
  <2>4. i \in Czs(store) /\ i \in DOMAIN store /\ q \in AtomsOf(store[i])
    BY <2>3 DEF Window, OfAtom
  <2>5. i \notin rows
    BY <1>13, <2>4 DEF AtomsIn
  <2>6. i \notin Emitted(trace) \/ store[i].layer < nextLayer
    <3> SUFFICES ASSUME i \in Emitted(trace), ~(store[i].layer < nextLayer) PROVE FALSE
      OBVIOUS
    <3>1. i \notin rest /\ store[i].layer < nextLayer + 1 /\ nextLayer \in Nat
      BY <1>1, <1>8, InsideOf DEF Below, Inside
    <3>2. store[i].layer = nextLayer
      BY <1>9, <2>4, <3>1
    <3>3. i \in (Batch(store, nextLayer) \cap Czs(store)) \ rest
      BY <2>4, <3>1, <3>2 DEF Batch
    <3>4. store[i].cz < b
      BY <1>6, <1>10, <3>3
    <3> QED
      BY <1>9, <1>11, <2>3, <2>4, <3>4
  <2>7. i \notin (Emitted(trace) \cup InGroup)' \/ store[i].layer < nextLayer
    BY <1>7, <1>8, <2>5, <2>6
  <2>8. Window(store, boundary, SeenAhead)' = Window(store, b, SeenAhead)
    BY <1>1, <1>3 DEF SeenAhead
  <2> QED
    BY <1>1, <2>2, <2>3, <2>7, <2>8 DEF Waits
<1>14. method \in {"M1", "M2", "M3", "M4"}
  BY DEF LitInv
<1>15. method = "M1" => Residents' = {} /\ \A q \in Atoms : saved'.mapping[q] = Home
  BY <1>1, <1>4, NobodyWaits
<1>16. \A i \in InGroup' : store[i].cz = b
  BY <1>3, <1>7
<1>17. AtomsIn(InGroup)' = AtomsIn(rows)
  BY <1>1, <1>7 DEF AtomsIn
<1> QED
  BY <1>1, <1>3, <1>12, <1>13, <1>14, <1>15, <1>16, <1>17 DEF LitInv

\* After a pulse, who stays has another gate to come, and who waited before
\* waits for what it did.
LEMMA LitPulse ==
  ASSUME LogInv, IInv, LitInv, Pulse
  PROVE  LitInv'
<1>1. /\ pc = "pass" /\ pending = {}
      /\ trace' = Append(trace, ChunkRows)
      /\ pending' = remaining /\ remaining' = {} /\ chunk' = {}
      /\ pc' = IF remaining = {} THEN "groups" ELSE "pass"
      /\ UNCHANGED <<store, method, boundary, nextLayer, rest, saved>>
  BY DEF Pulse, call, disk
<1>2. \A q \in Residents' : q \in Residents /\ (q \in Pulsed => TRUE \in StayAfterGate(q, boundary))
  <2>1. PICK stays \in [Pulsed -> BOOLEAN] :
          /\ \A q \in Pulsed : stays[q] \in StayAfterGate(q, boundary)
          /\ mapping' = Returned(mapping, {q \in Pulsed : ~stays[q]})
    BY DEF Pulse
  <2>2. PICK out : out = {q \in Pulsed : ~stays[q]}
    OBVIOUS
  <2>3. Residents' = Residents \ out
    BY <2>1, <2>2, ResidentsReturned
  <2>4. \A q \in Pulsed : q \notin out => stays[q] = TRUE
    BY <2>1, <2>2, Zenon
  <2>5. \A q \in Pulsed : q \notin out => TRUE \in StayAfterGate(q, boundary)
    BY <2>1, <2>4
  <2> QED
    BY <2>3, <2>5
<1>3. /\ method \in {"M1", "M2", "M3", "M4"}
      /\ method = "M1" => /\ \A q \in Atoms : saved.mapping[q] = Home
                          /\ \A q \in Residents : q \in Pulsed
      /\ \A i \in rest : \A j \in (Batch(store, nextLayer) \cap Czs(store)) \ rest :
           store[j].cz < store[i].cz
      /\ \A i \in InGroup : store[i].cz = boundary
      /\ \A q \in Residents \ AtomsIn(InGroup) : Waits(q)
  BY <1>1 DEF LitInv, Inside
<1>4. /\ InGroup = remaining \cup ChunkRows /\ InGroup' = remaining
      /\ InGroup \subseteq Batch(store, nextLayer) /\ InGroup \subseteq Czs(store)
      /\ StoreIsSound
  <2>1. ChunkRows' = {}
    BY <1>1 DEF ChunkRows
  <2>2. InGroup' = remaining
    BY <1>1, <2>1 DEF InGroup
  <2>3. InGroup = remaining \cup ChunkRows
    BY <1>1 DEF InGroup
  <2> QED
    BY <2>2, <2>3 DEF IInv, LayerInv
<1>5. nextLayer \in Nat /\ Emitted(trace) = Below(nextLayer + 1) \ InFlight
  BY <1>1, InsideOf DEF Inside
<1>6. Emitted(trace)' = Emitted(trace) \cup ChunkRows
  <2>1. PICK rows, t : rows = ChunkRows /\ t = trace
    OBVIOUS
  <2>2. t \in Seq(SUBSET DOMAIN store) /\ rows \in SUBSET DOMAIN store
    BY <1>4, <2>1 DEF LogInv, TraceOK, Events, Batch
  <2>3. Len(t) \in Nat /\ DOMAIN t = 1..Len(t)
    BY <2>2
  <2>4. PICK w : w = Append(t, rows)
    OBVIOUS
  <2>5. /\ DOMAIN w = 1..(Len(t) + 1) /\ w[Len(t) + 1] = rows
        /\ \A n \in 1..Len(t) : w[n] = t[n]
    BY <2>2, <2>4
  <2>6. Emitted(w) = Emitted(t) \cup rows
    BY <2>3, <2>5 DEF Emitted
  <2>7. trace' = w
    BY <1>1, <2>1, <2>4
  <2>8. Emitted(trace)' = Emitted(w)
    BY <2>7 DEF Emitted
  <2> QED
    BY <2>1, <2>6, <2>8
<1>7. \A q : Waits(q) => Waits(q)'
  <2>1. (Emitted(trace) \cup InGroup)' = Emitted(trace) \cup InGroup
    BY <1>4, <1>6
  <2> QED
    BY <1>1, <2>1, SameReasons
<1>8. ASSUME NEW q \in Residents', q \notin AtomsIn(remaining)
      PROVE  Waits(q)'
  <2>1. q \in Residents /\ q \in Atoms
    BY <1>2, <1>8 DEF Residents
  <2>2. CASE q \notin Pulsed
    <3>1. q \notin AtomsIn(InGroup)
      BY <1>4, <1>8, <2>2 DEF AtomsIn, Pulsed
    <3> QED
      BY <1>3, <1>7, <2>1, <3>1
  <2>3. CASE q \in Pulsed
    <3>1. PICK g \in ChunkRows : q \in AtomsOf(store[g])
      BY <2>3 DEF Pulsed, AtomsIn
    <3>2. g \in InGroup /\ g \in Batch(store, nextLayer) /\ store[g].cz = boundary
      BY <1>3, <1>4, <3>1
    <3>3. boundary \in Int /\ boundary <= LastCzLayer(store)
      BY <3>2, CzNumbers DEF Batch
    <3>4. /\ method # "M1"
          /\ \/ \E i \in Window(store, boundary, SeenAhead) \cap OfAtom(store, q) :
                  store[i].cz >= boundary + 1
             \/ method \in {"M3", "M4"} /\ boundary >= LastCzLayer(store)
      BY <1>2, <1>3, <1>8, <2>1, <2>3, GateReason
    <3>5. CASE method \in {"M3", "M4"} /\ boundary >= LastCzLayer(store)
      <4>1. boundary = LastCzLayer(store)
        <5>1. LastCzLayer(store) \in Int
          BY LastIsNumber
        <5> QED
          BY <3>3, <3>5, <5>1
      <4> QED
        BY <1>1, <3>4, <3>5, <4>1 DEF Waits
    <3>6. CASE \E i \in Window(store, boundary, SeenAhead) \cap OfAtom(store, q) :
                 store[i].cz >= boundary + 1
      <4>1. PICK i \in Window(store, boundary, SeenAhead) \cap OfAtom(store, q) :
              store[i].cz >= boundary + 1
        BY <3>6
      <4>2. i \in Czs(store) /\ i \in DOMAIN store /\ q \in AtomsOf(store[i])
        BY <4>1 DEF Window, OfAtom
      <4>3. store[i].cz \in Int /\ store[i].layer \in Nat
        BY <4>2, CzNumbers
      <4>4. i \notin InGroup
        BY <1>3, <3>3, <4>1, <4>3
      <4>5. i \notin Emitted(trace) \/ store[i].layer < nextLayer
        <5> SUFFICES ASSUME i \in Emitted(trace), ~(store[i].layer < nextLayer) PROVE FALSE
          OBVIOUS
        <5>1. store[i].layer < nextLayer + 1
          BY <1>5 DEF Below
        <5>2. store[i].layer = nextLayer
          BY <1>5, <4>3, <5>1
        <5>3. i \in Batch(store, nextLayer) /\ i # g
          BY <3>2, <4>2, <4>4, <5>2 DEF Batch
        <5>4. AtomsOf(store[i]) \cap AtomsOf(store[g]) = {}
          BY <1>4, <3>2, <5>3, LayerDisjoint
        <5> QED
          BY <3>1, <4>2, <5>4
      <4>6. Waits(q)
        BY <3>4, <4>1, <4>4, <4>5 DEF Waits, InGroup
      <4> QED
        BY <1>7, <4>6
    <3> QED
      BY <3>4, <3>5, <3>6
  <2> QED
    BY <2>2, <2>3
<1>9. method = "M1" => Residents' = {}
  <2> SUFFICES ASSUME method = "M1", NEW q \in Residents' PROVE FALSE
    OBVIOUS
  <2>1. q \in Pulsed /\ q \in Atoms
    BY <1>2, <1>3 DEF Residents
  <2> QED
    BY <1>2, <1>3, <2>1, GateReason
<1>10. AtomsIn(InGroup)' = AtomsIn(remaining)
  BY <1>1, <1>4 DEF AtomsIn
<1> QED
  BY <1>1, <1>3, <1>4, <1>8, <1>9, <1>10 DEF LitInv

LEMMA LitStutter ==
  ASSUME LitInv, UNCHANGED vars
  PROVE  LitInv'
BY DEF vars, call, group, disk, LitInv, Inside, Residents, InGroup, Pulsed, ChunkRows, AtomsIn,
       Waits, SeenAhead, Emitted

LEMMA LitStep ==
  ASSUME LogInv, IInv, IInv', LitInv, [Next]_vars
  PROVE  LitInv'
<1>1. failure' \notin {"room", "occupied"}
  BY DEF IInv, NeverOutOfRoom
<1> QED
  BY <1>1, LitElsewhere, LitBeginLayer, LitBeginGroup, LitPlaceGate, LitMakeRoom, LitPulse,
     LitStutter DEF Next, Compile

\* What the invariant has of a resident is what the pulse asks of it.
LEMMA LitAtPulse ==
  ASSUME LogInv, IInv, LitInv
  PROVE  LitForAReason
<1> SUFFICES ASSUME AboutToPulse, NEW q \in Residents \ Pulsed
             PROVE  /\ method # "M1"
                    /\ \/ \E i \in Window(store, boundary, SeenAhead) \cap OfAtom(store, q) :
                            i \in CzsToCome(q) \/ store[i].layer < nextLayer
                       \/ method \in {"M3", "M4"} /\ boundary = LastCzLayer(store)
  BY DEF LitForAReason
<1>1. pc = "pass" /\ pending = {}
  BY DEF AboutToPulse
<1>2. method # "M1"
  BY DEF LitInv
<1>3. /\ InGroup = remaining \cup ChunkRows /\ remaining \cap ChunkRows = {}
      /\ InGroup \subseteq Czs(store)
      /\ Emitted(trace) = Below(nextLayer + 1) \ InFlight /\ InGroup \subseteq InFlight
  BY <1>1, InsideOf DEF IInv, LayerInv, InGroup, InFlight, Inside
<1>4. \A i \in (Czs(store) \cap OfAtom(store, q)) \ (Emitted(trace) \cup ChunkRows) : i \in CzsToCome(q)
  <2>1. CzsToCome(q) = (Czs(store) \cap OfAtom(store, q)) \ (Emitted(trace) \cup ChunkRows)
    BY Zenon DEF CzsToCome, Emitted
  <2> QED
    BY <2>1
<1>5. CASE q \in AtomsIn(InGroup)
  <2>1. PICK i \in InGroup : q \in AtomsOf(store[i])
    BY <1>5 DEF AtomsIn
  <2>2. i \in Czs(store) /\ i \in DOMAIN store /\ i \in OfAtom(store, q)
    BY <1>3, <2>1 DEF Czs, OfAtom
  <2>3. i \notin ChunkRows
    BY <2>1 DEF Pulsed, AtomsIn
  <2>4. i \notin Emitted(trace)
    BY <1>3, <2>1
  <2>5. i \in CzsToCome(q)
    BY <1>4, <2>2, <2>3, <2>4
  <2>6. i \in Window(store, boundary, SeenAhead)
    <3>1. store[i].cz = boundary
      BY <1>1, <2>1 DEF LitInv
    <3>2. boundary \in Int
      BY <2>2, <3>1, CzNumbers
    <3>3. SeenAhead \in Nat
      BY CompilerAssumption DEF SeenAhead
    <3>4. boundary \in boundary..(boundary + SeenAhead + 1)
      BY <3>2, <3>3
    <3> QED
      BY <2>2, <3>1, <3>4 DEF Window
  <2> QED
    BY <1>2, <2>2, <2>5, <2>6
<1>6. CASE q \notin AtomsIn(InGroup)
  <2>1. Waits(q)
    BY <1>1, <1>6 DEF LitInv
  <2>2. CASE method \in {"M3", "M4"} /\ boundary = LastCzLayer(store)
    BY <1>2, <2>2
  <2>3. CASE \E i \in Window(store, boundary, SeenAhead) \cap OfAtom(store, q) :
               i \notin Emitted(trace) \cup InGroup \/ store[i].layer < nextLayer
    <3>1. PICK i \in Window(store, boundary, SeenAhead) \cap OfAtom(store, q) :
               i \notin Emitted(trace) \cup InGroup \/ store[i].layer < nextLayer
      BY <2>3
    <3>2. i \in Czs(store) \cap OfAtom(store, q)
      BY <3>1 DEF Window
    <3>3. i \in CzsToCome(q) \/ store[i].layer < nextLayer
      BY <1>3, <1>4, <3>1, <3>2
    <3> QED
      BY <1>2, <3>1, <3>3
  <2> QED
    BY <2>1, <2>2, <2>3 DEF Waits, InGroup
<1> QED
  BY <1>5, <1>6

-----------------------------------------------------------------------------
(* The theorems.                                                            *)

Invariants == IInv /\ LogInv /\ LitInv

\* The three parts hold together in every state.
LEMMA Everything == Spec => []Invariants
<1>1. Init => Invariants
  BY InitStep, SoundAtInit, LogInit, LitInit DEF Invariants
<1>2. Invariants /\ [Next]_vars => Invariants'
  BY NextStep, LogStep, LitStep DEF Invariants
<1> QED
  BY <1>1, <1>2, PTL DEF Spec

\* build_layer_store scans every circuit into rows whose layers are the
\* earliest their gates allow, the dependency layers and the CZ layers.
THEOREM LayersAreSound == Spec => []StoreIsSound
<1>1. Invariants => StoreIsSound
  BY DEF Invariants, IInv
<1> QED
  BY <1>1, Everything, PTL

\* However the residents and the gates of a group lie, and whatever the
\* policy keeps: compile_large_streaming never raises for want of a pair, and
\* never moves an atom onto another.
THEOREM RoomAlways == Spec => []NeverOutOfRoom
<1>1. Invariants => NeverOutOfRoom BY DEF Invariants, IInv
<1> QED BY <1>1, Everything, PTL

\* From the moment a gate has its pair until _emit_cz_chunk, no placing of a
\* later gate and no eviction moves its atoms or gives its pair away.
THEOREM ChunksHold == Spec => []ChunkStaysPlaced
<1>1. Invariants => ChunkStaysPlaced BY DEF Invariants, IInv
<1> QED BY <1>1, Everything, PTL

\* No process that goes on is refused the checkpoint of the one before, and
\* _verify_final_result refuses no finished trace.
THEOREM NoProcessRefused == Spec => []NeverRefused
<1>1. Invariants => NeverRefused
  BY DEF Invariants, LogInv, ResultInv
<1> QED
  BY <1>1, Everything, PTL

\* A trace that never goes back is a beginning of the circuit on every atom.
LEMMA TraceBegins ==
  ASSUME LogInv
  PROVE  LedgerKept
<1>1. PICK t : t = trace
  OBVIOUS
<1>2. TraceOK(t) /\ Sound(store)
  BY <1>1 DEF LogInv, StoreInv
<1>3. \A q \in Atoms : Begins(GatesOn(q, t), Ledger(q))
  BY <1>2, GatesBegin
<1>4. result # NoResult => Complete(result)
  BY DEF LogInv, ResultInv
<1> QED
  BY <1>1, <1>3, <1>4 DEF LedgerKept

\* However gates are deferred, and whatever a kill leaves of the file: the
\* trace has the gates of every atom once each, in the order of the circuit,
\* and a result has them all.
THEOREM TraceFollowsCircuit == Spec => []LedgerKept
<1>1. Invariants => LedgerKept
  BY TraceBegins DEF Invariants
<1> QED
  BY <1>1, Everything, PTL

\* The trace that checkpoint.json counts has the gates of its layers and no
\* others.
THEOREM CheckpointsOwnLayers == Spec => []CheckpointOwnsItsLayers
<1>1. Invariants => CheckpointOwnsItsLayers
  BY DEF Invariants, LogInv, SavedInv
<1> QED
  BY <1>1, Everything, PTL

\* Nobody is lit at a pulse without a gate of its own, but for one the method
\* sees, or after the last CZ layer.
THEOREM ExposedForAReason == Spec => []LitForAReason
<1>1. Invariants => LitForAReason
  BY LitAtPulse DEF Invariants
<1> QED
  BY <1>1, Everything, PTL

-----------------------------------------------------------------------------
(* The output directory is a resumable log.                                 *)

\* A step that saves nothing and publishes nothing.
LEMMA OthersKeepTheDisk ==
  ASSUME Next, ~Cadence, ~Pause, ~Finish, ~Publish
  PROVE  UNCHANGED <<store, saved, result>>
<1>1. CASE PlaceGate
  <2>1. UNCHANGED <<call, disk>>
    BY <1>1, Zenon DEF PlaceGate
  <2> QED
    BY <2>1 DEF call, disk
<1>2. CASE StartFresh \/ Resume \/ Kill \/ BeginLayer \/ BeginGroup
  BY <1>2 DEF StartFresh, Resume, Kill, BeginLayer, BeginGroup, call, disk
<1>3. CASE MakeRoom \/ Pulse \/ EndLayer
  BY <1>3 DEF MakeRoom, Pulse, EndLayer, call, disk
<1> QED
  BY <1>1, <1>2, <1>3 DEF Next, Compile

\* A checkpoint that is made anew is further on, or the same.
LEMMA SavesForward ==
  ASSUME LogInv, Cadence \/ Pause \/ Finish
  PROVE  /\ UNCHANGED <<store, result>> /\ result = NoResult
         /\ saved' = saved \/ saved'.layer \in saved.layer..Depth(store)
         /\ Depth(store) \in Nat /\ Depth(store) <= Longest
         /\ saved.layer \in Int /\ saved.layer >= -1
<1>1. Running /\ ~Inside /\ pc # "done" /\ UNCHANGED <<store, result>>
  BY DEF Cadence, Pause, Finish, Running, Inside, call
<1>2. result = NoResult
  BY <1>1 DEF LogInv, ResultInv
<1>3. nextLayer \in Nat /\ nextLayer <= Depth(store) /\ saved.layer <= nextLayer
  BY <1>1, OutsideOf
<1>4. /\ Depth(store) \in Nat /\ Depth(store) <= Longest
      /\ saved.layer \in Int /\ saved.layer >= -1
  BY DEF LogInv, StoreInv, SavedInv
<1>5. saved' = saved \/ saved'.layer = nextLayer
  BY DEF Cadence, Pause, Finish, Save
<1> QED
  BY <1>1, <1>2, <1>3, <1>4, <1>5

\* The stage of a checkpoint, counted from the end of the circuit.
Stage == IF HasCheckpoint THEN Longest - Depth(store) + saved.layer ELSE -1
Shown == IF result = NoResult THEN "none"
         ELSE IF Complete(result) THEN "complete" ELSE "broken"

LEMMA CompletenessKept ==
  ASSUME UNCHANGED <<store, result>>
  PROVE  Complete(result)' <=> Complete(result)
BY DEF Complete, GatesOn, Ledger, AtomsIn, OfAtom

LEMMA StageKept ==
  ASSUME UNCHANGED <<store, saved, result>>
  PROVE  Stage' = Stage /\ Shown' = Shown
BY CompletenessKept DEF Stage, Shown, HasCheckpoint

\* A step of the compiler is one of the log or changes nothing of it.
LEMMA LogOfStep ==
  ASSUME LogInv, LogInv', [Next]_vars
  PROVE  [Log!Next]_(Log!logVars)
<1>0. Longest \in Nat
  BY CompilerAssumption
<1>1. CASE UNCHANGED <<store, saved, result>>
  <2>1. Stage' = Stage /\ Shown' = Shown
    BY <1>1, StageKept
  <2> QED
    BY <2>1 DEF Stage, Shown, Log!logVars
<1>2. CASE Cadence \/ Pause \/ Finish
  <2>1. /\ UNCHANGED <<store, result>> /\ result = NoResult
        /\ saved' = saved \/ saved'.layer \in saved.layer..Depth(store)
        /\ Depth(store) \in Nat /\ Depth(store) <= Longest
        /\ saved.layer \in Int /\ saved.layer >= -1
    BY <1>2, SavesForward
  <2>2. CASE saved' = saved
    BY <1>1, <2>1, <2>2
  <2>3. CASE saved'.layer \in saved.layer..Depth(store)
    <3>1. Shown = "none" /\ Shown' = "none"
      BY <2>1 DEF Shown
    <3>2. saved.layer >= 0 => saved'.layer >= 0
      BY <2>1, <2>3
    <3>3. Stage' = Stage \/ Stage' \in (Stage + 1)..Longest
      BY <1>0, <2>1, <2>3 DEF Stage, HasCheckpoint
    <3> QED
      BY <3>1, <3>3 DEF Stage, Shown, Log!Next, Log!Save, Log!logVars
  <2> QED
    BY <2>1, <2>2, <2>3
<1>3. CASE Publish
  <2>1. pc = "verify" /\ UNCHANGED <<store, saved>>
    BY <1>3 DEF Publish, call
  <2>2. result = NoResult
    BY <2>1 DEF LogInv, ResultInv
  <2>3. saved.layer = Depth(store) /\ Depth(store) \in Nat
    BY <2>1 DEF LogInv, StoreInv, ProcessInv, Running
  <2>4. Stage = Longest /\ Stage' = Stage
    BY <1>0, <2>1, <2>3 DEF Stage, HasCheckpoint
  <2>5. result' = NoResult \/ Complete(result)'
    BY DEF LogInv, ResultInv
  <2>6. Shown = "none" /\ Shown' \in {"none", "complete"}
    BY <2>2, <2>5 DEF Shown
  <2> QED
    BY <2>4, <2>6 DEF Stage, Shown, Log!Next, Log!Publish, Log!logVars
<1>4. CASE Next /\ ~Cadence /\ ~Pause /\ ~Finish /\ ~Publish
  BY <1>1, <1>4, OthersKeepTheDisk
<1>5. CASE UNCHANGED vars
  BY <1>1, <1>5 DEF vars, call, disk
<1> QED
  BY <1>2, <1>3, <1>4, <1>5

\* Whatever is killed and resumed, the checkpoints and the result of
\* compile_large_streaming behave as ResumableLog promises: checkpoints only
\* move forward, and the result appears once and complete, after the last
\* layer was saved.
THEOREM CompilesImplementTheLog == Spec => ImplementsLog
<1>1. Init => Log!Init
  BY DEF Init, Log!Init, NoCheckpoint, HasCheckpoint
<1>2. Invariants /\ Invariants' /\ [Next]_vars => [Log!Next]_(Log!logVars)
  BY LogOfStep DEF Invariants
<1> QED
  BY <1>1, <1>2, Everything, PTL DEF Spec, ImplementsLog, Log!Spec
=============================================================================
