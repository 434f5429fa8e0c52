------------------------ MODULE RouteTransitionProofs ------------------------
(***************************************************************************)
(* Proofs about the route transition driver, for any atoms, AODs, sites    *)
(* and durations, any program and any number of crashes.                   *)
(*                                                                         *)
(* What is proved about time rests on what a ledger replays: an atom is    *)
(* touched by the jobs that carry it and by the pulses it is in the zone   *)
(* for, and of two instructions that touch it the later one waits, through *)
(* the dependencies the router wrote, for the end of the earlier one.      *)
(*                                                                         *)
(* That the driver refuses nothing takes three more invariants: what the   *)
(* pruned windows keep is all that is read again (KeptInv), what last used *)
(* an atom, a beam or the zone is over when the next begins (FreeInv), and *)
(* the ledger arrives at the times and the AOD the router wrote (TimeInv). *)
(***************************************************************************)
EXTENDS RouteTransition, RecursionLemmas, SequenceTheorems, FiniteSetTheorems

-----------------------------------------------------------------------------
(***************************************************************************)
(* Jobs: what ExpandedJob makes of any non-empty set of atoms.             *)
(***************************************************************************)

IsSeq(s) == s \in Seq(ToSet(s))

\* One line of the definition of FlattenSeq.
FlatLine(f, s, i) == IF i = 1 THEN s[i] ELSE f[i - 1] \o s[i]

LEMMA FlattenUpTo ==
  ASSUME NEW S, NEW s \in Seq(Seq(S)), s # <<>>
  PROVE  \E f \in [1 .. Len(s) -> Seq(S)] :
           /\ \A i \in 1 .. Len(s) : f[i] = FlatLine(f, s, i)
           /\ FlattenSeq(s) = f[Len(s)]
<1> DEFINE n == Len(s) - 1
           Glue == [i \in 1 .. n |-> [t \in Seq(S) |-> t \o s[i + 1]]]
<1>1. n \in Nat /\ Len(s) = n + 1 /\ Len(s) # 0 /\ s \in [1 .. Len(s) -> Seq(S)]
  BY EmptySeq, LenProperties
<1>2. \A i \in 1 .. n, t \in Seq(S) : t \o s[i + 1] \in Seq(S)
  BY <1>1, ConcatProperties
<1>3. Glue \in Steps(n, Seq(S)) /\ s[1] \in Seq(S)
  BY <1>1, <1>2 DEF Steps
<1>4. PICK g : Recursion(g, s[1], n, Seq(S), Glue)
  <2> HIDE DEF Glue, n
  <2> QED BY <1>1, <1>3, RecursionUpTo
<1> DEFINE f == [i \in 1 .. Len(s) |-> g[i - 1]]
<1>5. \A i \in 0 .. n : g[i] \in Seq(S)
  BY <1>4 DEF Recursion
<1>6. f \in [1 .. Len(s) -> Seq(S)]
  BY <1>1, <1>5
<1>7. \A i \in 1 .. Len(s) : f[i] = FlatLine(f, s, i)
  <2> SUFFICES ASSUME NEW i \in 1 .. Len(s) PROVE f[i] = FlatLine(f, s, i)
    OBVIOUS
  <2>1. CASE i = 1
    BY <2>1, <1>1, <1>4 DEF Recursion, FlatLine
  <2>2. CASE i # 1
    <3>1. i - 1 \in 1 .. n /\ i - 1 \in 1 .. Len(s) /\ (i - 1) + 1 = i
      BY <2>2, <1>1
    <3>2. g[i - 1] = Glue[i - 1][g[(i - 1) - 1]] /\ g[(i - 1) - 1] \in Seq(S)
      <4>1. (i - 1) - 1 \in 0 .. n
        BY <3>1, <1>1
      <4> HIDE DEF Glue, n
      <4> QED BY <4>1, <3>1, <1>4, <1>5 DEF Recursion
    <3>3. g[i - 1] = g[(i - 1) - 1] \o s[i]
      BY <3>1, <3>2
    <3>4. f[i - 1] = g[(i - 1) - 1] /\ f[i] = g[i - 1]
      BY <3>1
    <3> QED BY <3>3, <3>4, <2>2 DEF FlatLine
  <2> QED BY <2>1, <2>2
<1>8. FlattenSeq(s) = f[Len(s)]
  <2> DEFINE Flat(u) == u = [i \in 1 .. Len(s) |-> FlatLine(u, s, i)]
             c == CHOOSE u : Flat(u)
  <2>1. Flat(f)
    BY <1>7
  <2>2. Flat(c)
    BY <2>1
  <2>3. \A i \in 1 .. Len(s) : c[i] = FlatLine(c, s, i)
    <3> SUFFICES ASSUME NEW i \in 1 .. Len(s) PROVE c[i] = FlatLine(c, s, i)
      OBVIOUS
    <3>1. PICK u : u = c
      OBVIOUS
    <3>2. u = [j \in 1 .. Len(s) |-> FlatLine(u, s, j)]
      BY <3>1, <2>2
    <3>3. u[i] = FlatLine(u, s, i)
      BY <3>2
    <3> HIDE DEF c
    <3> QED BY <3>1, <3>3
  <2>4. FlattenSeq(s) = c[Len(s)]
    BY <1>1 DEF FlattenSeq, FlatLine
  <2>5. c[Len(s)] = f[Len(s)]
    <3> DEFINE Same == {i \in 0 .. n : c[i + 1] = f[i + 1]}
    <3> HIDE DEF c, f
    <3>1. 0 \in Same
      BY <2>3, <1>7, <1>1 DEF FlatLine
    <3>2. ASSUME NEW i \in Nat, i < n, i \in Same PROVE i + 1 \in Same
      <4>1. /\ i + 1 \in 0 .. n /\ (i + 1) + 1 \in 1 .. Len(s) /\ (i + 1) + 1 # 1
            /\ ((i + 1) + 1) - 1 = i + 1
        BY <3>2, <1>1
      <4>2. c[i + 1] = f[i + 1]
        BY <3>2
      <4>3. c[(i + 1) + 1] = f[(i + 1) + 1]
        BY <4>1, <4>2, <2>3, <1>7 DEF FlatLine
      <4> QED BY <4>1, <4>3
    <3> HIDE DEF Same, n
    <3>3. \A i \in 0 .. n : i \in Same
      BY <1>1, <3>1, <3>2, IntervalInduction
    <3> USE DEF Same
    <3> QED BY <3>3, <1>1
  <2> QED BY <2>4, <2>5
<1> HIDE DEF f
<1> QED BY <1>6, <1>7, <1>8

\* A flattened sequence has the elements' type, and ends with the last part.
LEMMA FlattenType ==
  ASSUME NEW S, NEW s \in Seq(Seq(S))
  PROVE  FlattenSeq(s) \in Seq(S)
<1>1. CASE s = <<>>
  <2>1. FlattenSeq(s) = <<>>
    BY <1>1 DEF FlattenSeq
  <2> QED BY <2>1, EmptySeq
<1>2. CASE s # <<>>
  <2>1. PICK n : n = Len(s)
    OBVIOUS
  <2>2. n \in 1 .. n
    BY <1>2, <2>1, EmptySeq, LenProperties
  <2>3. \E f \in [1 .. n -> Seq(S)] : FlattenSeq(s) = f[n]
    BY <1>2, <2>1, FlattenUpTo
  <2> QED BY <2>2, <2>3
<1> QED BY <1>1, <1>2

LEMMA FlattenEnd ==
  ASSUME NEW S, NEW s \in Seq(Seq(S)), s # <<>>
  PROVE  /\ Len(s) \in 1 .. Len(s) /\ s[Len(s)] \in Seq(S)
         /\ \/ FlattenSeq(s) = s[Len(s)]
            \/ \E pre \in Seq(S) : FlattenSeq(s) = pre \o s[Len(s)]
<1>1. Len(s) \in 1 .. Len(s) /\ s[Len(s)] \in Seq(S)
  BY EmptySeq, LenProperties
<1>2. PICK f \in [1 .. Len(s) -> Seq(S)] :
         /\ \A i \in 1 .. Len(s) : f[i] = FlatLine(f, s, i)
         /\ FlattenSeq(s) = f[Len(s)]
  BY FlattenUpTo
<1>3. CASE Len(s) = 1
  BY <1>1, <1>2, <1>3 DEF FlatLine
<1>4. CASE Len(s) # 1
  <2>1. Len(s) - 1 \in 1 .. Len(s)
    <3>1. PICK n \in Nat : n = Len(s)
      BY LenProperties
    <3>2. n \in 1 .. n /\ n # 1
      BY <3>1, <1>1, <1>4
    <3>3. n - 1 \in 1 .. n
      BY <3>2
    <3> QED BY <3>1, <3>3
  <2>2. f[Len(s)] = f[Len(s) - 1] \o s[Len(s)] /\ f[Len(s) - 1] \in Seq(S)
    BY <1>1, <1>2, <1>4, <2>1 DEF FlatLine
  <2> QED BY <2>2, <1>1, <1>2
<1> QED BY <1>1, <1>3, <1>4

\* A nonempty set of numbers up to a bound has a largest one.
LEMMA LargestElement ==
  ASSUME NEW T \in SUBSET Nat, T # {}, NEW b \in Nat, \A t \in T : t <= b
  PROVE  \E m \in T : \A t \in T : t <= m
<1> DEFINE Bounds == {u \in Nat : \A t \in T : t <= u}
<1>1. PICK m \in Bounds : \A u \in Bounds : m <= u
  <2>1. Bounds \in SUBSET Nat /\ Bounds # {}
    OBVIOUS
  <2> QED BY <2>1, LeastElement
<1>2. m \in T
  <2> SUFFICES ASSUME m \notin T PROVE FALSE
    OBVIOUS
  <2>1. PICK t \in T : TRUE
    OBVIOUS
  <2>2. m - 1 \in Nat /\ \A u \in T : u <= m - 1
    BY <2>1
  <2> QED BY <2>2, <1>1
<1> QED BY <1>1, <1>2

\* What the proofs say of a job: the phases are intervals that end with it.
GoodJob(job) ==
  /\ IsSeq(job) /\ job # <<>>
  /\ \A k \in DOMAIN job :
       /\ job[k].kind \in {"load", "move", "store"}
       /\ job[k].start \in Nat /\ job[k].stop \in Nat
       /\ job[k].start <= job[k].stop /\ job[k].stop <= Duration(job)

\* All atoms are lifted before any is set down.
LiftsFirst(job) ==
  \A k \in DOMAIN job : /\ job[k].kind = "load" => job[k].stop <= DropOffset(job)
                        /\ job[k].kind = "store" => DropOffset(job) <= job[k].start

\* Legs that carry any of the groups of atoms in A.
LegSet(A) == {Leg(k, t, a) : k \in {"load", "move", "store"}, t \in Nat, a \in A}

CarrySet(A, R) ==
  {l \in LegSet(A) : l.kind # "store" /\ (l.kind = "load" => ToSet(l.atoms) \subseteq R)}

\* The phases follow one another.
Ordered(job) == \A j, k \in DOMAIN job : j < k => job[j].stop <= job[k].start

\* What lifts or sets down names atoms of a set.
Carries(job, R) == \A k \in DOMAIN job : job[k].kind # "move" => ToSet(job[k].atoms) \subseteq R

\* The running sum of Timed.
SumLine(f, legs, k) == IF k = 0 THEN 0 ELSE f[k - 1] + legs[k].time

LEMMA StopsUpTo ==
  ASSUME NEW A, NEW legs \in Seq(LegSet(A))
  PROVE  \E f \in [0 .. Len(legs) -> Nat] :
           /\ \A i \in 0 .. Len(legs) : f[i] = SumLine(f, legs, i)
           /\ Timed(legs) = [k \in DOMAIN legs |->
                [kind |-> legs[k].kind, start |-> f[k - 1], stop |-> f[k],
                 atoms |-> legs[k].atoms]]
<1> DEFINE n == Len(legs)
           Add == [i \in 1 .. n |-> [t \in Nat |-> t + legs[i].time]]
<1>1. n \in Nat /\ DOMAIN legs = 1 .. n
  BY LenProperties
<1>2. \A i \in 1 .. n : legs[i].time \in Nat
  <2> SUFFICES ASSUME NEW i \in 1 .. n PROVE legs[i].time \in Nat
    OBVIOUS
  <2>1. legs[i] \in LegSet(A)
    BY ElementOfSeq
  <2> QED BY <2>1 DEF LegSet, Leg
<1>3. Add \in Steps(n, Nat)
  BY <1>1, <1>2 DEF Steps
<1>4. PICK f : Recursion(f, 0, n, Nat, Add)
  <2> HIDE DEF Add, n
  <2> QED BY <1>1, <1>3, RecursionUpTo
<1>5. \A i \in 0 .. n : f[i] \in Nat
  BY <1>4 DEF Recursion
<1>6. f \in [0 .. Len(legs) -> Nat]
  BY <1>4 DEF Recursion
<1>7. \A i \in 0 .. n : f[i] = SumLine(f, legs, i)
  <2> SUFFICES ASSUME NEW i \in 0 .. n PROVE f[i] = SumLine(f, legs, i)
    OBVIOUS
  <2>1. CASE i = 0
    BY <2>1, <1>4 DEF Recursion, SumLine
  <2>2. CASE i # 0
    <3>1. i \in 1 .. n /\ i - 1 \in 0 .. n
      BY <2>2, <1>1
    <3>2. f[i] = Add[i][f[i - 1]]
      <4> HIDE DEF Add
      <4> QED BY <3>1, <1>4 DEF Recursion
    <3>3. f[i - 1] \in Nat
      BY <3>1, <1>5
    <3> QED BY <3>1, <3>2, <3>3, <2>2 DEF SumLine
  <2> QED BY <2>1, <2>2
<1>8. PICK c : /\ c = CHOOSE u : u = [i \in 0 .. n |-> SumLine(u, legs, i)]
               /\ Timed(legs) = [k \in DOMAIN legs |->
                    [kind |-> legs[k].kind, start |-> c[k - 1], stop |-> c[k],
                     atoms |-> legs[k].atoms]]
  BY DEF Timed, SumLine
<1>9. \A i \in 0 .. n : c[i] = SumLine(c, legs, i)
  <2>1. f = [i \in 0 .. n |-> SumLine(f, legs, i)]
    BY <1>6, <1>7
  <2>2. c = [i \in 0 .. n |-> SumLine(c, legs, i)]
    BY <2>1, <1>8
  <2> SUFFICES ASSUME NEW i \in 0 .. n PROVE c[i] = SumLine(c, legs, i)
    OBVIOUS
  <2> QED BY <2>2
<1>10. \A i \in 0 .. n : c[i] = f[i]
  <2>1. c[0] = f[0]
    BY <1>7, <1>9, <1>1 DEF SumLine
  <2>2. \A i \in 1 .. n : c[i - 1] = f[i - 1] => c[i] = f[i]
    BY <1>7, <1>9, <1>1 DEF SumLine
  <2>3. StaysAlike(c, f, n)
    BY <2>1, <2>2 DEF StaysAlike
  <2> HIDE DEF n
  <2> QED BY <2>3, <1>1, SameFromZero DEF Alike
<1>11. \A k \in DOMAIN legs : c[k - 1] = f[k - 1] /\ c[k] = f[k]
  BY <1>1, <1>10
<1> QED BY <1>6, <1>7, <1>8, <1>11

\* The stops of a job never go back.
LEMMA StopsGrow ==
  ASSUME NEW n \in Nat, NEW f, \A i \in 0 .. n : f[i] \in Nat,
         \A i \in 1 .. n : f[i - 1] <= f[i]
  PROVE  \A i \in 0 .. n : f[i] <= f[n]
<1> DEFINE T == {k \in 0 .. n : f[n - k] <= f[n]}
<1>1. 0 \in T
  <2>1. n \in 0 .. n /\ n - 0 = n /\ f[n] \in Nat
    OBVIOUS
  <2> QED BY <2>1
<1>2. ASSUME NEW k \in Nat, k < n, k \in T PROVE k + 1 \in T
  <2>1. n - k \in 1 .. n /\ k + 1 \in 0 .. n /\ (n - k) - 1 = n - (k + 1) /\ n - (k + 1) \in 0 .. n
    BY <1>2
  <2>2. f[(n - k) - 1] <= f[n - k] /\ f[n - k] <= f[n]
    BY <2>1, <1>2
  <2>3. f[n - (k + 1)] \in Nat /\ f[n - k] \in Nat /\ f[n] \in Nat
    BY <2>1
  <2>4. f[n - (k + 1)] <= f[n]
    BY <2>1, <2>2, <2>3
  <2> QED BY <2>1, <2>4
<1> HIDE DEF T
<1>3. \A k \in 0 .. n : k \in T
  BY <1>1, <1>2, IntervalInduction
<1> SUFFICES ASSUME NEW i \in 0 .. n PROVE f[i] <= f[n]
  OBVIOUS
<1>4. n - i \in 0 .. n /\ n - (n - i) = i
  OBVIOUS
<1>5. n - i \in T
  BY <1>3, <1>4
<1> QED BY <1>4, <1>5 DEF T

LEMMA TimedIsGood ==
  ASSUME NEW A, NEW legs \in Seq(LegSet(A)), legs # <<>>
  PROVE  /\ GoodJob(Timed(legs)) /\ Len(Timed(legs)) = Len(legs)
         /\ \A k \in 1 .. Len(legs) : Timed(legs)[k].kind = legs[k].kind
         /\ DropOffset(Timed(legs)) \in Nat
         /\ \A k \in 1 .. Len(legs) - 1 : Timed(legs)[k].stop <= DropOffset(Timed(legs))
         /\ Ordered(Timed(legs))
         /\ \A k \in 1 .. Len(legs) : Timed(legs)[k].atoms = legs[k].atoms
<1> DEFINE n == Len(legs)
<1>1. n \in Nat /\ DOMAIN legs = 1 .. n /\ n \in 1 .. n
  BY LenProperties, EmptySeq
<1>2. PICK f \in [0 .. n -> Nat] :
         /\ \A i \in 0 .. n : f[i] = SumLine(f, legs, i)
         /\ Timed(legs) = [k \in DOMAIN legs |->
              [kind |-> legs[k].kind, start |-> f[k - 1], stop |-> f[k],
               atoms |-> legs[k].atoms]]
  BY StopsUpTo
<1>3. \A i \in 1 .. n : legs[i].kind \in {"load", "move", "store"} /\ legs[i].time \in Nat
  <2> SUFFICES ASSUME NEW i \in 1 .. n
               PROVE  legs[i].kind \in {"load", "move", "store"} /\ legs[i].time \in Nat
    OBVIOUS
  <2>1. legs[i] \in LegSet(A)
    BY ElementOfSeq
  <2> QED BY <2>1 DEF LegSet, Leg
<1>4. \A i \in 1 .. n : f[i] = f[i - 1] + legs[i].time
  BY <1>1, <1>2 DEF SumLine
<1>5. \A i \in 1 .. n : f[i - 1] <= f[i]
  <2> SUFFICES ASSUME NEW i \in 1 .. n PROVE f[i - 1] <= f[i]
    OBVIOUS
  <2>1. f[i - 1] \in Nat /\ legs[i].time \in Nat /\ f[i] = f[i - 1] + legs[i].time
    <3>1. i - 1 \in 0 .. n
      BY <1>1
    <3> HIDE DEF n
    <3> QED BY <3>1, <1>3, <1>4
  <2> QED BY <2>1
<1>6. \A i \in 0 .. n : f[i] <= f[n]
  <2> HIDE DEF n
  <2> QED BY <1>1, <1>5, StopsGrow
<1>7. PICK job : job = Timed(legs)
  OBVIOUS
<1>8. /\ job = [k \in 1 .. n |->
              [kind |-> legs[k].kind, start |-> f[k - 1], stop |-> f[k],
               atoms |-> legs[k].atoms]]
      /\ DOMAIN job = 1 .. n
  BY <1>1, <1>2, <1>7
<1>9. job \in Seq(ToSet(job)) /\ Len(job) = n
  <2>1. job \in [1 .. n -> ToSet(job)]
    BY <1>8 DEF ToSet
  <2> QED BY <2>1, <1>1, SeqDef, LenProperties
<1>10. Duration(job) = f[n] /\ DropOffset(job) = f[n - 1]
  BY <1>1, <1>8, <1>9 DEF Duration, DropOffset
<1>11. \A k \in DOMAIN job :
        /\ job[k].kind \in {"load", "move", "store"}
        /\ job[k].start \in Nat /\ job[k].stop \in Nat
        /\ job[k].start <= job[k].stop /\ job[k].stop <= Duration(job)
  <2> SUFFICES ASSUME NEW k \in 1 .. n
               PROVE  /\ job[k].kind \in {"load", "move", "store"}
                      /\ job[k].start \in Nat /\ job[k].stop \in Nat
                      /\ job[k].start <= job[k].stop /\ job[k].stop <= Duration(job)
    BY <1>8
  <2>1. k \in 0 .. n /\ k - 1 \in 0 .. n
    BY <1>1
  <2>2. job[k].kind = legs[k].kind /\ job[k].start = f[k - 1] /\ job[k].stop = f[k]
    BY <1>8
  <2> QED BY <2>1, <2>2, <1>3, <1>5, <1>6, <1>10
<1>12. job # <<>>
  BY <1>1, <1>8
<1>13. f[n - 1] \in Nat
  BY <1>1
<1>14. GoodJob(job)
  BY <1>9, <1>11, <1>12 DEF GoodJob, IsSeq
<1>15. \A k \in 1 .. n : job[k].kind = legs[k].kind
  BY <1>8
<1>16. \A k \in 1 .. n - 1 : job[k].stop <= DropOffset(job)
  <2>1. n - 1 \in Nat /\ \A i \in 0 .. n - 1 : i \in 0 .. n
    BY <1>1
  <2>2. \A i \in 0 .. n - 1 : f[i] \in Nat
    BY <2>1
  <2>3. \A i \in 1 .. n - 1 : f[i - 1] <= f[i]
    BY <1>1, <1>5
  <2>4. \A i \in 0 .. n - 1 : f[i] <= f[n - 1]
    <3> HIDE DEF n
    <3> QED BY <2>1, <2>2, <2>3, StopsGrow
  <2>5. \A k \in 1 .. n - 1 : k \in 0 .. n - 1 /\ k \in 1 .. n
    BY <1>1
  <2> QED BY <2>4, <2>5, <1>8, <1>10
<1>17. Ordered(job)
  <2> SUFFICES ASSUME NEW j \in 1 .. n, NEW k \in 1 .. n, j < k
               PROVE  job[j].stop <= job[k].start
    BY <1>8 DEF Ordered
  <2>1. /\ k - 1 \in Nat /\ j \in 0 .. k - 1
        /\ \A i \in 0 .. k - 1 : i \in 0 .. n
        /\ \A i \in 1 .. k - 1 : i \in 1 .. n
    BY <1>1
  <2>2. \A i \in 0 .. k - 1 : f[i] \in Nat
    BY <2>1
  <2>3. \A i \in 1 .. k - 1 : f[i - 1] <= f[i]
    BY <2>1, <1>5
  <2>4. \A i \in 0 .. k - 1 : f[i] <= f[k - 1]
    <3> HIDE DEF n
    <3> QED BY <2>1, <2>2, <2>3, StopsGrow
  <2> QED BY <2>1, <2>4, <1>8
<1>18. \A k \in 1 .. n : job[k].atoms = legs[k].atoms
  BY <1>8
<1> QED BY <1>7, <1>9, <1>10, <1>13, <1>14, <1>15, <1>16, <1>17, <1>18

\* A phase that loads sets the offset of the pickup.
LEMMA PickupExists ==
  ASSUME NEW job, GoodJob(job), NEW l \in DOMAIN job, job[l].kind = "load"
  PROVE  /\ PickupOffset(job) \in Nat
         /\ \A k \in DOMAIN job : job[k].kind = "load" => job[k].stop <= PickupOffset(job)
         /\ \E k \in DOMAIN job : job[k].kind = "load" /\ job[k].stop = PickupOffset(job)
<1> DEFINE T == {job[k].stop : k \in {i \in DOMAIN job : job[i].kind = "load"}}
<1>1. T \in SUBSET Nat /\ T # {}
  BY DEF GoodJob
<1>2. Duration(job) \in Nat
  <2>1. Len(job) \in DOMAIN job
    <3>1. job \in Seq(ToSet(job)) /\ job # <<>>
      BY DEF GoodJob, IsSeq
    <3> QED BY <3>1, EmptySeq, LenProperties
  <2> QED BY <2>1 DEF GoodJob, Duration
<1>3. \A t \in T : t <= Duration(job)
  BY DEF GoodJob
<1>4. PICK m \in T : \A t \in T : t <= m
  <2> HIDE DEF T
  <2> QED BY <1>1, <1>2, <1>3, LargestElement
<1>5. m \in T /\ \A k \in DOMAIN job : job[k].kind = "load" => job[k].stop <= m
  BY <1>4
<1>6. PickupOffset(job) \in T
      /\ \A k \in DOMAIN job : job[k].kind = "load" => job[k].stop <= PickupOffset(job)
  BY <1>5 DEF PickupOffset
<1> QED BY <1>1, <1>6

StoreIsLast(legs) ==
  /\ legs[Len(legs)].kind = "store"
  /\ \A k \in 1 .. Len(legs) - 1 : legs[k].kind # "store"

\* Where the last two elements come from.
LEMMA LastTwo ==
  ASSUME NEW S, NEW s \in Seq(S), NEW t \in Seq(S), Len(t) = 2
  PROVE  (s \o t)[Len(s) + 1] = t[1] /\ (s \o t)[Len(s) + 2] = t[2]
<1>1. PICK n \in Nat : n = Len(s)
  BY LenProperties
<1>2. PICK p \in Nat, r \in Nat : p = n + 1 /\ r = n + 2
  BY <1>1
<1>3. /\ p \in 1 .. n + 2 /\ ~(p <= n) /\ p - n = 1
      /\ r \in 1 .. n + 2 /\ ~(r <= n) /\ r - n = 2
  BY <1>2
<1>4. (s \o t)[p] = t[1]
  <2>1. (s \o t)[p] = IF p <= n THEN s[p] ELSE t[p - n]
    BY <1>1, <1>3, ConcatProperties
  <2> QED BY <2>1, <1>3
<1>5. (s \o t)[r] = t[2]
  <2>1. r \in 1 .. Len(s) + Len(t)
    BY <1>1, <1>3
  <2>2. (s \o t)[r] = IF r <= Len(s) THEN s[r] ELSE t[r - Len(s)]
    BY <2>1, ConcatProperties
  <2> QED BY <2>2, <1>1, <1>3
<1> QED BY <1>1, <1>2, <1>4, <1>5

\* A job's phases, whatever its rows.
LEMMA LegsType ==
  ASSUME NEW n \in Nat \ {0}, NEW rows, DOMAIN rows = 1 .. n, rows \in Seq(ToSet(rows)),
         NEW colOf, NEW R, \A k \in 1 .. n : ToSet(rows[k]) \subseteq R,
         ToSet(FlattenSeq(rows)) \subseteq R
  PROVE  \E A : /\ Legs(rows, colOf) \in Seq(LegSet(A)) /\ Legs(rows, colOf) # <<>>
                /\ \E k \in DOMAIN Legs(rows, colOf) : Legs(rows, colOf)[k].kind = "load"
                /\ StoreIsLast(Legs(rows, colOf)) /\ Carries(Legs(rows, colOf), R)
<1> DEFINE Held(k) == FlattenSeq(SubSeq(rows, 1, k - 1))
           A == {Held(k) : k \in 1 .. n} \cup {rows[k] : k \in 1 .. n}
                  \cup {Held(k) \o rows[k] : k \in 1 .. n} \cup {FlattenSeq(rows)}
           S == CarrySet(A, R)
           parts == [k \in DOMAIN rows |-> RowLegs(rows, colOf, k)]
<1>1. Len(rows) = n
  BY LenProperties
<1>2. \A a \in A, t \in Nat : <<Leg("move", t, a)>> \in Seq(S)
  <2> HIDE DEF A
  <2>1. \A a \in A, t \in Nat : Leg("move", t, a) \in S
    <3>1. \A k, t, a : Leg(k, t, a).kind = k
      BY DEF Leg
    <3> QED BY <3>1 DEF LegSet, CarrySet
  <2> HIDE DEF S
  <2> QED BY <2>1
<1>3. <<>> \in Seq(S) /\ 0 \in Nat /\ TransferTime \in Nat /\ ParkTime \in Nat /\ MoveTime \in Nat
  BY ArrangementAssumption, EmptySeq
<1>4. \A k \in 1 .. n : /\ parts[k] \in Seq(S)
                        /\ \E i \in DOMAIN parts[k] : parts[k][i].kind = "load"
  <2> SUFFICES ASSUME NEW k \in 1 .. n
               PROVE  /\ RowLegs(rows, colOf, k) \in Seq(S)
                      /\ \E i \in DOMAIN RowLegs(rows, colOf, k) :
                           RowLegs(rows, colOf, k)[i].kind = "load"
    OBVIOUS
  <2>1. PICK before, after \in Seq(S) :
          RowLegs(rows, colOf, k) = (before \o <<Leg("load", TransferTime, rows[k])>>) \o after
    <3> DEFINE shared == \E p \in ToSet(Held(k)), q \in ToSet(rows[k]) : colOf[p] = colOf[q]
               b == IF shared THEN <<Leg("move", 0, Held(k))>> ELSE <<>>
               a == IF k < Len(rows) THEN <<Leg("move", ParkTime, Held(k) \o rows[k])>> ELSE <<>>
    <3>1. b \in Seq(S) /\ a \in Seq(S)
      <4>1. Held(k) \in A /\ (Held(k) \o rows[k]) \in A
        OBVIOUS
      <4> HIDE DEF S, A, shared
      <4> QED BY <4>1, <1>2, <1>3
    <3>2. RowLegs(rows, colOf, k) = (b \o <<Leg("load", TransferTime, rows[k])>>) \o a
      BY DEF RowLegs
    <3> HIDE DEF b, a, S
    <3> QED BY <3>1, <3>2
  <2>2. PICK load : load = Leg("load", TransferTime, rows[k])
    OBVIOUS
  <2>3. load.kind = "load" /\ load \in S /\ <<load>> \in Seq(S)
    <3>1. rows[k] \in A /\ ToSet(rows[k]) \subseteq R
      OBVIOUS
    <3> HIDE DEF A
    <3>2. load.kind = "load" /\ load.atoms = rows[k] /\ load \in LegSet(A)
      <4>1. load.kind = "load" /\ load.atoms = rows[k]
        BY <2>2 DEF Leg
      <4>2. \A x \in A : Leg("load", TransferTime, x) \in LegSet(A)
        <5>1. TransferTime \in Nat
          BY ArrangementAssumption
        <5> QED BY <5>1 DEF LegSet
      <4> QED BY <4>1, <4>2, <2>2, <3>1
    <3>3. load \in S
      BY <3>1, <3>2 DEF CarrySet
    <3> QED BY <3>2, <3>3
  <2> HIDE DEF S
  <2>4. before \o <<load>> \in Seq(S) /\ (before \o <<load>>) \o after \in Seq(S)
    BY <2>3, ConcatProperties
  <2>5. Len(before) \in Nat /\ Len(after) \in Nat /\ Len(<<load>>) = 1 /\ <<load>>[1] = load
    BY LenProperties
  <2>6. Len(before \o <<load>>) = Len(before) + 1 /\ (before \o <<load>>)[Len(before) + 1] = load
    BY <2>3, <2>5, ConcatProperties
  <2>7. /\ Len((before \o <<load>>) \o after) = Len(before) + 1 + Len(after)
        /\ ((before \o <<load>>) \o after)[Len(before) + 1] = load
    BY <2>4, <2>5, <2>6, ConcatProperties
  <2>8. Len(before) + 1 \in DOMAIN ((before \o <<load>>) \o after)
    BY <2>4, <2>5, <2>7, LenProperties
  <2> QED BY <2>1, <2>2, <2>3, <2>4, <2>7, <2>8
<1>5. parts \in Seq(Seq(S)) /\ Len(parts) = n /\ parts # <<>>
  <2>1. parts \in [1 .. n -> Seq(S)]
    BY <1>4
  <2> HIDE DEF parts, S
  <2> QED BY <2>1, SeqDef, LenProperties
<1>6. PICK all : all = FlattenSeq(parts)
  OBVIOUS
<1>7. all \in Seq(S) /\ \E i \in DOMAIN all : all[i].kind = "load"
  <2> HIDE DEF parts, S
  <2>1. all \in Seq(S)
    BY <1>5, <1>6, FlattenType
  <2>2. parts[n] \in Seq(S)
    BY <1>4
  <2>3. PICK i \in DOMAIN parts[n] : parts[n][i].kind = "load"
    BY <1>4
  <2>4. CASE all = parts[n]
    BY <2>1, <2>3, <2>4
  <2>5. CASE \E pre \in Seq(S) : all = pre \o parts[n]
    <3>1. PICK pre \in Seq(S) : all = pre \o parts[n]
      BY <2>5
    <3>2. Len(pre) \in Nat /\ Len(parts[n]) \in Nat /\ i \in 1 .. Len(parts[n])
      BY <2>2, <2>3, LenProperties
    <3>3. /\ Len(all) = Len(pre) + Len(parts[n])
          /\ all[Len(pre) + i] = IF Len(pre) + i <= Len(pre) THEN pre[Len(pre) + i]
                                 ELSE parts[n][(Len(pre) + i) - Len(pre)]
      <4>1. Len(pre) + i \in 1 .. Len(pre) + Len(parts[n])
        BY <3>2
      <4> QED BY <3>1, <2>2, <4>1, ConcatProperties
    <3>4. all[Len(pre) + i] = parts[n][i]
      <4>1. (Len(pre) + i) - Len(pre) = i /\ ~(Len(pre) + i <= Len(pre))
        BY <3>2
      <4> QED BY <3>3, <4>1
    <3>5. Len(pre) + i \in DOMAIN all
      BY <3>2, <3>3, <2>1, LenProperties
    <3> QED BY <2>1, <3>4, <3>5, <2>3
  <2> QED BY <1>5, <1>6, <2>4, <2>5, FlattenEnd
<1>8. PICK tail : tail = <<Leg("move", MoveTime, FlattenSeq(rows)),
                           Leg("store", TransferTime, FlattenSeq(rows))>>
  OBVIOUS
<1>9. tail \in Seq(LegSet(A)) /\ Len(tail) = 2 /\ all \in Seq(LegSet(A))
  <2>1. Leg("move", MoveTime, FlattenSeq(rows)) \in LegSet(A)
        /\ Leg("store", TransferTime, FlattenSeq(rows)) \in LegSet(A)
    <3>1. FlattenSeq(rows) \in A
      OBVIOUS
    <3> HIDE DEF A
    <3> QED BY <3>1, <1>3 DEF LegSet
  <2>2. S \subseteq LegSet(A)
    BY DEF CarrySet
  <2> HIDE DEF S, A
  <2>3. all \in Seq(LegSet(A))
    BY <1>7, <2>2, SeqMonotonic
  <2> QED BY <2>1, <2>3, <1>8
<1>10. Legs(rows, colOf) = all \o tail
  BY <1>6, <1>8 DEF Legs
<1>11. /\ all \o tail \in Seq(LegSet(A)) /\ all \o tail # <<>>
       /\ \E k \in DOMAIN (all \o tail) : (all \o tail)[k].kind = "load"
       /\ StoreIsLast(all \o tail) /\ Carries(all \o tail, R)
  <2>0. \A l \in S : l.kind # "store" /\ (l.kind # "move" => ToSet(l.atoms) \subseteq R)
    <3>1. \A l \in LegSet(A) : l.kind \in {"load", "move", "store"}
      <4>1. \A k, t, a : Leg(k, t, a).kind = k
        BY DEF Leg
      <4> HIDE DEF A
      <4> QED BY <4>1 DEF LegSet
    <3> HIDE DEF A
    <3> QED BY <3>1 DEF CarrySet
  <2> HIDE DEF S, A
  <2>1. /\ all \o tail \in Seq(LegSet(A)) /\ Len(all \o tail) = Len(all) + 2 /\ Len(all) \in Nat
    <3>1. all \o tail \in Seq(LegSet(A)) /\ Len(all \o tail) = Len(all) + Len(tail)
      BY <1>9, ConcatProperties
    <3>2. Len(all) \in Nat
      BY <1>7, LenProperties
    <3> QED BY <3>1, <3>2, <1>9
  <2>2. PICK i \in DOMAIN all : all[i].kind = "load"
    BY <1>7
  <2>3. i \in 1 .. Len(all)
    BY <1>7, <2>2, LenProperties
  <2>4. \A k \in 1 .. Len(all) : (all \o tail)[k] = all[k]
    <3> TAKE k \in 1 .. Len(all)
    <3>1. k \in 1 .. Len(all) + Len(tail) /\ k <= Len(all)
      BY <1>9, <2>1
    <3> QED BY <3>1, <1>9, ConcatProperties
  <2>5. i \in DOMAIN (all \o tail)
    BY <2>1, <2>3, LenProperties
  <2>6. all \o tail # <<>>
    BY <2>5
  <2>7. (all \o tail)[Len(all) + 1].kind = "move"
    <3>2. (all \o tail)[Len(all) + 1] = tail[1]
      BY <1>9, LastTwo, Zenon
    <3>3. tail[1] = Leg("move", MoveTime, FlattenSeq(rows))
      BY <1>8
    <3> QED BY <3>2, <3>3 DEF Leg
  <2>9. /\ (all \o tail)[Len(all) + 2].kind = "store"
        /\ (all \o tail)[Len(all) + 2].atoms = FlattenSeq(rows)
    <3>2. (all \o tail)[Len(all) + 2] = tail[2]
      BY <1>9, LastTwo, Zenon
    <3>3. tail[2] = Leg("store", TransferTime, FlattenSeq(rows))
      BY <1>8
    <3> QED BY <3>2, <3>3 DEF Leg
  <2>8. StoreIsLast(all \o tail)
    <3> SUFFICES ASSUME NEW k \in 1 .. (Len(all) + 2) - 1 PROVE (all \o tail)[k].kind # "store"
      BY <2>1, <2>9 DEF StoreIsLast
    <3>1. CASE k = Len(all) + 1
      BY <3>1, <2>7
    <3>2. CASE k # Len(all) + 1
      <4>1. k \in 1 .. Len(all)
        BY <3>2, <2>1
      <4>2. all[k] \in S
        BY <4>1, <1>7, ElementOfSeq
      <4> QED BY <4>1, <4>2, <2>0, <2>4
    <3> QED BY <3>1, <3>2
  <2>10. Carries(all \o tail, R)
    <3> SUFFICES ASSUME NEW k \in 1 .. Len(all) + 2, (all \o tail)[k].kind # "move"
                 PROVE  ToSet((all \o tail)[k].atoms) \subseteq R
      BY <2>1, LenProperties DEF Carries
    <3>1. CASE k = Len(all) + 1
      BY <3>1, <2>7
    <3>2. CASE k = Len(all) + 2
      BY <3>2, <2>9
    <3>3. CASE k # Len(all) + 1 /\ k # Len(all) + 2
      <4>1. k \in 1 .. Len(all)
        BY <3>3, <2>1
      <4>2. all[k] \in S
        BY <4>1, <1>7, ElementOfSeq
      <4> QED BY <4>1, <4>2, <2>0, <2>4
    <3> QED BY <3>1, <3>2, <3>3
  <2> QED BY <2>1, <2>2, <2>3, <2>4, <2>5, <2>6, <2>8, <2>10
<1> WITNESS A
<1> QED BY <1>10, <1>11

\* Every job of at least one atom expands well.
LEMMA ExpandedIsGood ==
  ASSUME NEW atoms, IsFiniteSet(atoms), atoms # {}, NEW rowOf, NEW colOf
  PROVE  /\ GoodJob(ExpandedJob(RowSeq(atoms, rowOf), colOf))
         /\ PickupOffset(ExpandedJob(RowSeq(atoms, rowOf), colOf)) \in Nat
         /\ DropOffset(ExpandedJob(RowSeq(atoms, rowOf), colOf)) \in Nat
         /\ LiftsFirst(ExpandedJob(RowSeq(atoms, rowOf), colOf))
<1> DEFINE Y == {rowOf[q] : q \in atoms}
           n == Cardinality(Y)
<1>1. IsFiniteSet(Y) /\ n \in Nat \ {0}
  <2>1. Y # {}
    OBVIOUS
  <2>2. IsFiniteSet(Y)
    <3>1. PICK f : f = [q \in atoms |-> rowOf[q]]
      OBVIOUS
    <3>2. f \in Surjection(atoms, Y)
      BY <3>1 DEF Surjection
    <3> QED BY <3>2, FS_Surjection
  <2> HIDE DEF Y
  <2> QED BY <2>1, <2>2, FS_CardinalityType, FS_EmptySet
<1>2. PICK rows : rows = RowSeq(atoms, rowOf)
  OBVIOUS
<1>3. DOMAIN rows = 1 .. n
  BY <1>2 DEF RowSeq, Ranked
<1>4. rows \in Seq(ToSet(rows))
  <2>1. rows \in [1 .. n -> ToSet(rows)]
    <3>1. rows = [k \in 1 .. n |-> rows[k]]
      BY <1>2 DEF RowSeq, Ranked
    <3> HIDE DEF n
    <3> QED BY <3>1 DEF ToSet
  <2> HIDE DEF n
  <2> QED BY <2>1, <1>1, SeqDef
<1>5. PICK A : /\ Legs(rows, colOf) \in Seq(LegSet(A)) /\ Legs(rows, colOf) # <<>>
               /\ \E k \in DOMAIN Legs(rows, colOf) : Legs(rows, colOf)[k].kind = "load"
               /\ StoreIsLast(Legs(rows, colOf))
  <2> HIDE DEF n
  <2>1. PICK U : U = UNION {ToSet(rows[k]) : k \in 1 .. n}
    OBVIOUS
  <2>2. PICK R : R = U \cup ToSet(FlattenSeq(rows))
    OBVIOUS
  <2>3. ToSet(FlattenSeq(rows)) \subseteq R
    BY <2>2
  <2>4. \A k \in 1 .. n : ToSet(rows[k]) \subseteq R
    <3>1. \A k \in 1 .. n : ToSet(rows[k]) \subseteq U
      BY <2>1
    <3> QED BY <3>1, <2>2
  <2> QED BY <2>3, <2>4, <1>1, <1>3, <1>4, LegsType
<1>6. PICK legs : legs = Legs(rows, colOf)
  OBVIOUS
<1>7. PICK job : job = Timed(legs)
  OBVIOUS
<1>8. /\ GoodJob(job) /\ Len(job) = Len(legs) /\ DropOffset(job) \in Nat
      /\ \A k \in 1 .. Len(legs) : job[k].kind = legs[k].kind
      /\ \A k \in 1 .. Len(legs) - 1 : job[k].stop <= DropOffset(job)
  BY <1>5, <1>6, <1>7, TimedIsGood
<1>9. PickupOffset(job) \in Nat
  <2>1. PICK k \in DOMAIN legs : legs[k].kind = "load"
    BY <1>5, <1>6
  <2>2. k \in 1 .. Len(legs)
    BY <1>5, <1>6, <2>1, LenProperties
  <2>3. k \in DOMAIN job
    <3>1. job \in Seq(ToSet(job))
      BY <1>8 DEF GoodJob, IsSeq
    <3> QED BY <3>1, <2>2, <1>8, LenProperties
  <2> QED BY <2>1, <2>2, <2>3, <1>8, PickupExists
<1>10. LiftsFirst(job)
  <2>1. Len(legs) \in Nat /\ DOMAIN job = 1 .. Len(legs) /\ Len(legs) \in 1 .. Len(legs)
    <3>1. job \in Seq(ToSet(job)) /\ job # <<>>
      BY <1>8 DEF GoodJob, IsSeq
    <3> QED BY <3>1, <1>8, EmptySeq, LenProperties
  <2> SUFFICES ASSUME NEW k \in 1 .. Len(legs)
               PROVE  /\ job[k].kind = "load" => job[k].stop <= DropOffset(job)
                      /\ job[k].kind = "store" => DropOffset(job) <= job[k].start
    BY <2>1 DEF LiftsFirst
  <2>2. CASE k = Len(legs)
    <3>1. DropOffset(job) = job[k].start /\ job[k].start \in Nat
      BY <1>8, <2>1, <2>2 DEF DropOffset, GoodJob
    <3>2. job[k].kind # "load"
      <4>1. job[k].kind = legs[k].kind /\ legs[Len(legs)].kind = "store"
        BY <1>5, <1>6, <1>8 DEF StoreIsLast
      <4> QED BY <4>1, <2>2
    <3> QED BY <3>1, <3>2
  <2>3. CASE k # Len(legs)
    <3>1. k \in 1 .. Len(legs) - 1
      BY <2>1, <2>3
    <3>2. job[k].kind # "store"
      BY <3>1, <1>5, <1>6, <1>8 DEF StoreIsLast
    <3> QED BY <3>1, <3>2, <1>8
  <2> QED BY <2>2, <2>3
<1> QED BY <1>2, <1>6, <1>7, <1>8, <1>9, <1>10 DEF ExpandedJob

-----------------------------------------------------------------------------
(***************************************************************************)
(* The order in which a job visits its atoms.                              *)
(***************************************************************************)

\* Smaller elements counted: a numbering of the set from zero on.
LEMMA RankedHasAll ==
  ASSUME NEW S, IsFiniteSet(S), S \subseteq Int
  PROVE  /\ Ranked(S) \in Seq(S)
         /\ \A x \in S : \E k \in 1 .. Len(Ranked(S)) : Ranked(S)[k] = x
<1> DEFINE Below(x) == {y \in S : y < x}
           rank == [x \in S |-> Cardinality(Below(x)) + 1]
<1>1. PICK n \in Nat : n = Cardinality(S)
  BY FS_CardinalityType
<1>2. ASSUME NEW x \in S
      PROVE  /\ IsFiniteSet(Below(x)) /\ Cardinality(Below(x)) \in Nat
             /\ Cardinality(Below(x)) < n
  <2>1. Below(x) \in SUBSET S /\ x \notin Below(x) /\ Below(x) # S
    OBVIOUS
  <2> HIDE DEF Below
  <2>2. IsFiniteSet(Below(x)) /\ Cardinality(Below(x)) <= Cardinality(S)
        /\ Cardinality(Below(x)) # Cardinality(S)
    BY <2>1, FS_Subset
  <2>3. Cardinality(Below(x)) \in Nat
    BY <2>2, FS_CardinalityType
  <2> QED BY <1>1, <2>2, <2>3
<1>3. ASSUME NEW x \in S, NEW y \in S, x < y
      PROVE  Cardinality(Below(x)) < Cardinality(Below(y))
  <2>1. Below(x) \in SUBSET Below(y) /\ x \in Below(y) /\ x \notin Below(x)
    <3>1. \A z \in S : z < x => z < y
      <4> TAKE z \in S
      <4>1. x \in Int /\ y \in Int /\ z \in Int
        OBVIOUS
      <4> QED BY <4>1, <1>3
    <3>2. ~(x < x)
      <4>1. x \in Int
        OBVIOUS
      <4> QED BY <4>1
    <3> QED BY <3>1, <3>2, <1>3
  <2>2. Below(x) # Below(y)
    BY <2>1
  <2>3. IsFiniteSet(Below(y)) /\ Cardinality(Below(x)) \in Nat /\ Cardinality(Below(y)) \in Nat
    BY <1>2
  <2> HIDE DEF Below
  <2>4. Cardinality(Below(x)) <= Cardinality(Below(y))
        /\ Cardinality(Below(x)) # Cardinality(Below(y))
    BY <2>1, <2>2, <2>3, FS_Subset
  <2> QED BY <2>3, <2>4
<1>4. ASSUME NEW x \in S, NEW y \in S, Cardinality(Below(x)) = Cardinality(Below(y))
      PROVE  x = y
  <2>1. x \in Int /\ y \in Int
    OBVIOUS
  <2>2. ~(x < y)
    <3> HIDE DEF Below
    <3> QED BY <1>2, <1>3, <1>4
  <2>3. ~(y < x)
    <3> HIDE DEF Below
    <3> QED BY <1>2, <1>3, <1>4
  <2> QED BY <2>1, <2>2, <2>3
<1>5. rank \in Injection(S, 1 .. n)
  <2>1. rank \in [S -> 1 .. n]
    <3> HIDE DEF Below
    <3> QED BY <1>2
  <2>2. ASSUME NEW x \in S, NEW y \in S, rank[x] = rank[y] PROVE x = y
    <3>1. Cardinality(Below(x)) + 1 = Cardinality(Below(y)) + 1
      BY <2>2
    <3>2. Cardinality(Below(x)) = Cardinality(Below(y))
      <4> HIDE DEF Below
      <4> QED BY <3>1, <1>2
    <3> QED BY <3>2, <1>4
  <2> HIDE DEF rank
  <2> QED BY <2>1, <2>2 DEF Injection, IsInjective
<1>6. rank \in Surjection(S, 1 .. n)
  <2>1. IsFiniteSet(1 .. n) /\ Cardinality(1 .. n) = n
    BY FS_Interval
  <2> HIDE DEF rank
  <2> QED BY <1>1, <1>5, <2>1, FS_Injection
<1>7. \A k \in 1 .. n : \E x \in S : Cardinality(Below(x)) = k - 1
  <2> TAKE k \in 1 .. n
  <2>1. PICK x \in S : rank[x] = k
    <3> HIDE DEF rank
    <3> QED BY <1>6 DEF Surjection
  <2>2. Cardinality(Below(x)) + 1 = k /\ Cardinality(Below(x)) \in Nat
    BY <2>1, <1>2
  <2>3. Cardinality(Below(x)) = k - 1
    <3> HIDE DEF Below
    <3> QED BY <2>2
  <2> QED BY <2>3
<1>8. PICK r : /\ r = Ranked(S) /\ r = [k \in 1 .. n |-> r[k]]
               /\ \A k \in 1 .. n : r[k] \in S /\ Cardinality(Below(r[k])) = k - 1
  <2>1. Ranked(S) = [k \in 1 .. n |-> CHOOSE x \in S : Cardinality(Below(x)) = k - 1]
    BY <1>1 DEF Ranked
  <2>2. PICK r : r = Ranked(S)
    OBVIOUS
  <2> HIDE DEF Below
  <2>3. \A k \in 1 .. n : r[k] = CHOOSE x \in S : Cardinality(Below(x)) = k - 1
    BY <2>1, <2>2
  <2>4. \A k \in 1 .. n : r[k] \in S /\ Cardinality(Below(r[k])) = k - 1
    BY <2>3, <1>7
  <2>5. r = [k \in 1 .. n |-> r[k]]
    BY <2>1, <2>2
  <2> QED BY <2>2, <2>4, <2>5
<1> HIDE DEF Below, rank
<1>9. r \in Seq(S) /\ Len(r) = n
  <2>1. r \in [1 .. n -> S]
    BY <1>8
  <2> QED BY <2>1, SeqDef, LenProperties
<1>10. ASSUME NEW x \in S PROVE \E k \in 1 .. n : r[k] = x
  <2>1. PICK k \in 1 .. n : k = Cardinality(Below(x)) + 1
    BY <1>2
  <2>2. Cardinality(Below(r[k])) = Cardinality(Below(x))
    BY <2>1, <1>2, <1>8
  <2> QED BY <2>2, <1>4, <1>8
<1> QED BY <1>8, <1>9, <1>10

\* Places in the first and in the second part of a concatenation.
LEMMA Parts ==
  ASSUME NEW a \in Nat, NEW b \in Nat
  PROVE  /\ \A j \in 1 .. b : a + j \in 1 .. a + b /\ ~(a + j <= a) /\ (a + j) - a = j
         /\ \A i \in 1 .. a : i \in 1 .. a + b /\ i <= a
  OBVIOUS

\* A flattened sequence has every element of its parts.
LEMMA FlattenHas ==
  ASSUME NEW S, NEW s \in Seq(Seq(S)), NEW k \in 1 .. Len(s), NEW j \in 1 .. Len(s[k])
  PROVE  \E i \in 1 .. Len(FlattenSeq(s)) : FlattenSeq(s)[i] = s[k][j]
<1>0. s # <<>>
  BY EmptySeq, LenProperties
<1>1. PICK f \in [1 .. Len(s) -> Seq(S)] :
         /\ \A i \in 1 .. Len(s) : f[i] = FlatLine(f, s, i)
         /\ FlattenSeq(s) = f[Len(s)]
  BY <1>0, FlattenUpTo
<1>2. PICK n \in Nat : n = Len(s)
  BY LenProperties
<1> DEFINE Has(i) == \E p \in 1 .. Len(f[i]) : f[i][p] = s[k][j]
           T == {i \in 0 .. n : i >= k => Has(i)}
<1>3. s[k] \in Seq(S) /\ \A i \in 1 .. n : s[i] \in Seq(S) /\ f[i] \in Seq(S)
  <2>1. \A i \in 1 .. n : s[i] \in Seq(S)
    BY <1>2, ElementOfSeq
  <2>2. \A i \in 1 .. n : f[i] \in Seq(S)
    BY <1>1, <1>2
  <2> QED BY <2>1, <2>2, <1>2
<1>4. 0 \in T
  BY <1>2
<1>5. ASSUME NEW i \in Nat, i < n, i \in T PROVE i + 1 \in T
  <2> SUFFICES ASSUME i + 1 >= k PROVE Has(i + 1)
    BY <1>5
  <2>1. i + 1 \in 1 .. n /\ (i + 1) - 1 = i /\ k \in 1 .. n
    BY <1>2, <1>5
  <2>2. CASE i + 1 = k /\ k = 1
    <3>1. f[i + 1] = s[k]
      BY <2>1, <2>2, <1>1, <1>2 DEF FlatLine
    <3> QED BY <3>1
  <2>3. CASE i + 1 = k /\ k # 1
    <3>0. i \in 1 .. n /\ i + 1 # 1
      BY <2>1, <2>3
    <3>1. f[i + 1] = f[i] \o s[k] /\ f[i] \in Seq(S)
      <4>1. f[i + 1] = f[(i + 1) - 1] \o s[i + 1]
        BY <2>1, <3>0, <1>1, <1>2 DEF FlatLine
      <4> QED BY <4>1, <3>0, <2>1, <2>3, <1>3
    <3>3. PICK b \in Nat : b = Len(s[k]) /\ j \in 1 .. b
      BY <1>3, LenProperties
    <3>6. PICK a \in Nat : a = Len(f[i])
      BY <3>1, LenProperties
    <3>2. PICK p \in Nat : p = a + j /\ a = Len(f[i])
      BY <3>3, <3>6
    <3>4. p \in 1 .. a + b /\ ~(p <= a) /\ p - a = j
      BY <3>2, <3>3, Parts, Zenon
    <3>5. Len(f[i] \o s[k]) = a + b /\ (f[i] \o s[k])[p] = s[k][j]
      <4>1. p \in 1 .. Len(f[i]) + Len(s[k]) /\ ~(p <= Len(f[i]))
        BY <3>2, <3>3, <3>4
      <4>2. (f[i] \o s[k])[p] = s[k][p - Len(f[i])]
        BY <4>1, <3>1, <1>3, ConcatProperties
      <4>3. Len(f[i] \o s[k]) = Len(f[i]) + Len(s[k])
        BY <3>1, <1>3, ConcatProperties
      <4> QED BY <4>2, <4>3, <3>2, <3>3, <3>4
    <3> QED BY <3>1, <3>4, <3>5
  <2>4. CASE i + 1 # k
    <3>1. i \in 1 .. n /\ i + 1 # 1 /\ i >= k
      BY <2>1, <2>4, <1>5
    <3>2. f[i + 1] = f[i] \o s[i + 1] /\ f[i] \in Seq(S) /\ s[i + 1] \in Seq(S)
      BY <2>1, <3>1, <1>1, <1>2, <1>3 DEF FlatLine
    <3>3. PICK p \in 1 .. Len(f[i]) : f[i][p] = s[k][j]
      BY <3>1, <1>5
    <3>4. p \in 1 .. Len(f[i] \o s[i + 1]) /\ (f[i] \o s[i + 1])[p] = f[i][p]
      <4>1. p \in 1 .. Len(f[i]) + Len(s[i + 1]) /\ p <= Len(f[i])
        <5>1. PICK a \in Nat, b \in Nat : a = Len(f[i]) /\ b = Len(s[i + 1])
          BY <3>2, LenProperties
        <5>2. p \in 1 .. a + b /\ p <= a
          BY <5>1, <3>3, Parts, Zenon
        <5> QED BY <5>1, <5>2
      <4> QED BY <4>1, <3>2, ConcatProperties
    <3> QED BY <3>2, <3>3, <3>4
  <2> QED BY <2>2, <2>3, <2>4
<1>6. n \in T
  <2> HIDE DEF T
  <2>1. \A i \in 0 .. n : i \in T
    BY <1>4, <1>5, IntervalInduction
  <2> QED BY <2>1
<1>7. Has(n)
  BY <1>6, <1>2
<1> QED BY <1>7, <1>1, <1>2

Visits(order, atoms) ==
  /\ order \in Seq(atoms)
  /\ \A q \in atoms : \E k \in 1 .. Len(order) : order[k] = q

\* A job visits all its atoms, and no others.
LEMMA RowsHaveAll ==
  ASSUME NEW atoms, IsFiniteSet(atoms), atoms \subseteq Int,
         NEW rowOf, \A q \in atoms : rowOf[q] \in Int
  PROVE  /\ Visits(FlattenSeq(RowSeq(atoms, rowOf)), atoms)
         /\ RowSeq(atoms, rowOf) \in Seq(Seq(atoms))
<1> DEFINE ys == {rowOf[q] : q \in atoms}
           row(y) == {q \in atoms : rowOf[q] = y}
           g == [q \in atoms |-> rowOf[q]]
<1>1. IsFiniteSet(ys) /\ ys \subseteq Int
  <2>1. g \in Surjection(atoms, ys)
    BY DEF Surjection
  <2> QED BY <2>1, FS_Surjection
<1>2. \A y \in ys : IsFiniteSet(row(y)) /\ row(y) \subseteq Int /\ row(y) \subseteq atoms
  BY FS_Subset
<1>3. PICK u \in Seq(ys) : u = Ranked(ys) /\ \A y \in ys : \E k \in 1 .. Len(u) : u[k] = y
  <2> HIDE DEF ys
  <2> QED BY <1>1, RankedHasAll
<1>4. PICK s : s = RowSeq(atoms, rowOf) /\ s = [k \in 1 .. Len(u) |-> Ranked(row(u[k]))]
  <2>1. DOMAIN u = 1 .. Len(u)
    <3> HIDE DEF ys
    <3> QED BY <1>3, LenProperties
  <2> QED BY <1>3, <2>1 DEF RowSeq
<1>5. \A k \in 1 .. Len(u) :
        /\ s[k] = Ranked(row(u[k])) /\ s[k] \in Seq(atoms)
        /\ \A q \in row(u[k]) : \E j \in 1 .. Len(s[k]) : s[k][j] = q
  <2> TAKE k \in 1 .. Len(u)
  <2>1. u[k] \in ys
    <3> HIDE DEF ys
    <3> QED BY <1>3, ElementOfSeq
  <2>2. PICK r : r = row(u[k])
    OBVIOUS
  <2>3. IsFiniteSet(r) /\ r \subseteq Int /\ r \subseteq atoms
    BY <2>1, <2>2, <1>2
  <2>4. s[k] = Ranked(r)
    BY <1>4, <2>2
  <2> HIDE DEF row, ys
  <2>5. s[k] \in Seq(r) /\ \A q \in r : \E j \in 1 .. Len(s[k]) : s[k][j] = q
    BY <2>3, <2>4, RankedHasAll
  <2>6. s[k] \in Seq(atoms)
    BY <2>3, <2>5, SeqMonotonic
  <2> QED BY <2>2, <2>4, <2>5, <2>6
<1>6. s \in Seq(Seq(atoms)) /\ Len(s) = Len(u)
  <2>1. Len(u) \in Nat
    <3> HIDE DEF ys
    <3> QED BY LenProperties
  <2>2. s \in [1 .. Len(u) -> Seq(atoms)]
    <3> HIDE DEF row, ys
    <3> QED BY <1>4, <1>5
  <2> QED BY <2>1, <2>2, SeqDef, LenProperties
<1>7. FlattenSeq(s) \in Seq(atoms)
  BY <1>6, FlattenType
<1>8. ASSUME NEW q \in atoms PROVE \E i \in 1 .. Len(FlattenSeq(s)) : FlattenSeq(s)[i] = q
  <2>1. PICK k \in 1 .. Len(u) : u[k] = rowOf[q]
    BY <1>3
  <2>2. q \in row(u[k])
    BY <2>1
  <2>3. PICK j \in 1 .. Len(s[k]) : s[k][j] = q
    BY <2>2, <1>5
  <2> HIDE DEF row, ys
  <2> QED BY <2>3, <1>6, FlattenHas
<1>9. Visits(FlattenSeq(s), atoms)
  BY <1>7, <1>8 DEF Visits
<1> QED BY <1>4, <1>6, <1>9

\* What a sequence visits.
LEMMA VisitsAll ==
  ASSUME NEW order, NEW atoms, Visits(order, atoms)
  PROVE  ToSet(order) = atoms
<1>1. order \in Seq(atoms) /\ DOMAIN order = 1 .. Len(order)
  BY LenProperties DEF Visits
<1>2. \A k \in 1 .. Len(order) : order[k] \in atoms
  BY <1>1, ElementOfSeq
<1> QED BY <1>1, <1>2 DEF ToSet, Visits

LEMMA SeqNames ==
  ASSUME NEW S, NEW s \in Seq(S)
  PROVE  ToSet(s) \subseteq S
<1>1. DOMAIN s = 1 .. Len(s) /\ \A k \in 1 .. Len(s) : s[k] \in S
  BY LenProperties, ElementOfSeq
<1> QED BY <1>1 DEF ToSet

\* The phases of a job follow one another, carry its atoms, lift them all before
\* they set one down, and end with a store.
ShapedJob(job, R) ==
  Ordered(job) /\ Carries(job, R) /\ LiftsFirst(job) /\ job[Len(job)].kind = "store"

LEMMA ExpandedShape ==
  ASSUME NEW atoms, IsFiniteSet(atoms), atoms \subseteq Int, atoms # {},
         NEW rowOf, \A q \in atoms : rowOf[q] \in Int, NEW colOf
  PROVE  ShapedJob(ExpandedJob(RowSeq(atoms, rowOf), colOf), atoms)
<1>1. PICK rows : rows = RowSeq(atoms, rowOf)
  OBVIOUS
<1>2. Visits(FlattenSeq(rows), atoms) /\ rows \in Seq(Seq(atoms))
  BY <1>1, RowsHaveAll
<1>3. PICK n \in Nat : n = Len(rows)
  BY <1>2, LenProperties
<1>4. DOMAIN rows = 1 .. n /\ rows \in Seq(ToSet(rows))
  <2>1. rows \in [1 .. n -> Seq(atoms)]
    BY <1>2, <1>3, LenProperties
  <2>2. rows \in [1 .. n -> ToSet(rows)]
    BY <2>1 DEF ToSet
  <2> QED BY <2>1, <2>2, SeqDef
<1>5. n # 0
  <2> SUFFICES ASSUME n = 0 PROVE FALSE
    OBVIOUS
  <2>1. rows = <<>>
    BY <1>2, <1>3, EmptySeq
  <2>2. FlattenSeq(rows) = <<>>
    BY <2>1 DEF FlattenSeq
  <2>3. Len(FlattenSeq(rows)) = 0
    BY <2>2, EmptySeq
  <2>4. PICK order : order = FlattenSeq(rows)
    OBVIOUS
  <2>5. PICK q : q \in atoms
    OBVIOUS
  <2>6. \E k \in 1 .. Len(order) : order[k] = q
    BY <1>2, <2>4, <2>5 DEF Visits
  <2>7. Len(order) = 0
    BY <2>3, <2>4
  <2> QED BY <2>6, <2>7
<1>6. ToSet(FlattenSeq(rows)) \subseteq atoms /\ \A k \in 1 .. n : ToSet(rows[k]) \subseteq atoms
  <2>1. \A k \in 1 .. n : rows[k] \in Seq(atoms)
    BY <1>2, <1>3, ElementOfSeq
  <2> QED BY <2>1, <1>2, VisitsAll, SeqNames
<1>7. PICK A : /\ Legs(rows, colOf) \in Seq(LegSet(A)) /\ Legs(rows, colOf) # <<>>
               /\ StoreIsLast(Legs(rows, colOf)) /\ Carries(Legs(rows, colOf), atoms)
  BY <1>4, <1>5, <1>6, LegsType
<1>8. PICK legs : legs = Legs(rows, colOf)
  OBVIOUS
<1>9. PICK job : job = Timed(legs)
  OBVIOUS
<1>10. /\ GoodJob(job) /\ Len(job) = Len(legs) /\ Ordered(job)
       /\ \A k \in 1 .. Len(legs) : job[k].kind = legs[k].kind
       /\ \A k \in 1 .. Len(legs) : job[k].atoms = legs[k].atoms
  BY <1>7, <1>8, <1>9, TimedIsGood
<1>11. DOMAIN job = 1 .. Len(legs) /\ DOMAIN legs = 1 .. Len(legs) /\ Len(legs) \in 1 .. Len(legs)
  <2>1. job \in Seq(ToSet(job)) /\ job # <<>>
    BY <1>10 DEF GoodJob, IsSeq
  <2> QED BY <2>1, <1>7, <1>8, <1>10, EmptySeq, LenProperties
<1>12. Carries(job, atoms)
  BY <1>7, <1>8, <1>10, <1>11 DEF Carries
<1>13. job[Len(job)].kind = "store"
  BY <1>7, <1>8, <1>10, <1>11 DEF StoreIsLast
<1>14. LiftsFirst(job)
  BY <1>1, <1>8, <1>9, ExpandedIsGood DEF ExpandedJob
<1> QED BY <1>1, <1>8, <1>9, <1>10, <1>12, <1>13, <1>14 DEF ShapedJob, ExpandedJob

-----------------------------------------------------------------------------
(***************************************************************************)
(* Types, where n is the number of instructions written.                   *)
(***************************************************************************)

Before(n) == 0 .. n - 1

Placing(b) == b \in [Atoms -> Sites]

\* Begin and end of an instruction the window or the ledger keeps.
Interval(t) ==
  t.begin \in Nat /\ t.end \in Nat /\ t.pickup \in Nat /\ t.begin <= t.end

RouterType(n, w, qd, sd, ad, af, rd, lq) ==
  /\ DOMAIN w \subseteq Before(n)
  /\ \A id \in DOMAIN w : w[id].end \in Nat /\ w[id].pickup \in Nat
  /\ qd \in [Atoms -> Before(n)]
  /\ DOMAIN sd \subseteq Sites /\ \A s \in DOMAIN sd : sd[s] \in Before(n)
  /\ ad \in [Aods -> Before(n)] /\ af \in [Aods -> Nat]
  /\ rd \in Before(n) /\ lq \in {None} \cup Before(n)

HistoryType(n, j, x) ==
  /\ \A m \in j : m.id \in Before(n) /\ m.atom \in Atoms
  /\ DOMAIN x \subseteq Before(n)
  /\ \A id \in DOMAIN x : x[id].atoms \subseteq Atoms

LedgerType(n, ins, ae, oe, re, ev) ==
  /\ DOMAIN ins \subseteq Before(n)
  /\ \A id \in DOMAIN ins : Interval(ins[id])
  /\ ae \in [Aods -> Nat] /\ oe \in Nat /\ re \in [{Zone} -> Nat]
  /\ \A e \in ev : e.id \in Nat /\ e.start \in Nat /\ e.stop \in Nat

-----------------------------------------------------------------------------
(***************************************************************************)
(* The history of an atom.                                                 *)
(***************************************************************************)

\* The instructions that touch an atom.
Touches(j, x, q) == {m.id : m \in {l \in j : l.atom = q}} \cup {p \in DOMAIN x : q \in x[p].atoms}
Touched(q) == Touches(journal, exposures, q)

\* What touches an atom happens one after the other.
Chained(j, x, ev) ==
  \A q \in Atoms : \A e, f \in ev :
    e.id \in Touches(j, x, q) /\ f.id \in Touches(j, x, q) /\ e.id < f.id => e.stop <= f.start

\* Whatever touched an atom is over when the instruction of its ledger ends.
Settled(j, x, ev, ins, qd) ==
  \A q \in Atoms : \A e \in ev :
    e.id \in Touches(j, x, q) => qd[q] \in DOMAIN ins /\ e.stop <= ins[qd[q]].end

PulsesExposed(x, ev) == \A e \in ev : e.type = "two_qubit_gate" => e.id \in DOMAIN x

-----------------------------------------------------------------------------
(***************************************************************************)
(* The chunk: jobs, dependencies and the order they impose.                *)
(***************************************************************************)

GoodInstruction(i, id, x) ==
  /\ i = [kind |-> i.kind, atoms |-> i.atoms, job |-> i.job, deps |-> i.deps,
          sites |-> i.sites, aod |-> i.aod]
  /\ i.kind \in {"init", "one_qubit", "cz", "aod"}
  /\ i.deps \subseteq Before(id)
  /\ i.kind \in {"init", "one_qubit"} => i.atoms \in Seq(Atoms)
  /\ i.kind = "cz" => id \in DOMAIN x
  /\ i.kind = "aod" => /\ GoodJob(i.job)
                       /\ PickupOffset(i.job) \in Nat
                       /\ DropOffset(i.job) \in Nat

At(id) == chunk[id - base + 1]

ChunkInv ==
  /\ IsSeq(chunk)
  /\ \A k \in 1 .. Len(chunk) : GoodInstruction(chunk[k], base + k - 1, exposures)

\* Whoever waits for d waits for what i did to atom q: d is settled, or it is
\* or waits for an instruction of the chunk that touches q no earlier than i.
After(q, i, d) ==
  IF d < base
  THEN i < base /\ \A e \in events : e.id = i => d \in DOMAIN instructions
                                                 /\ e.stop <= instructions[d].end
  ELSE \E c \in {d} \cup At(d).deps : base <= c /\ c \in Touched(q) /\ i <= c

OrderInv ==
  /\ \A q \in Atoms : \A i \in Touched(q) : After(q, i, qubitDep[q])
  /\ \A q \in Atoms : \A n, i \in Touched(q) :
       base <= n /\ i < n => \E d \in At(n).deps : After(q, i, d)

-----------------------------------------------------------------------------
(***************************************************************************)
(* The replay.                                                             *)
(***************************************************************************)

ReplayInv ==
  /\ \A n \in base .. nextId - 1 :
       /\ n \in DOMAIN instructions
       /\ \A d \in At(n).deps : d \in DOMAIN instructions
                                /\ instructions[d].end <= instructions[n].begin
  /\ \A q \in Atoms : \A d \in base .. nextId - 1 : \A e \in events :
       d \in Touched(q) /\ e.id \in Touched(q) /\ e.id <= d => e.stop <= instructions[d].end

CallInv ==
  /\ call \in {Ledger!Idle, Ledger!Raised} \/ call.state = "booking"
  /\ call = Ledger!Idle => \A e \in events : e.id < nextId
  /\ \A e \in events : e.id <= nextId
  /\ call.state = "booking" =>
       /\ Replaying
       /\ call = [state |-> "booking", timing |-> call.timing, booking |-> call.booking,
                  done |-> call.done]
       /\ Interval(call.timing)
       /\ IsSeq(call.booking) /\ call.done \in 0 .. Len(call.booking)
       /\ \A k \in 1 .. Len(call.booking) :
            LET b == call.booking[k]
            IN /\ b.id = nextId /\ b.start \in Nat /\ b.stop \in Nat
               /\ call.timing.begin <= b.start /\ b.stop <= call.timing.end
               /\ b.type = "two_qubit_gate" => nextId \in DOMAIN exposures
       /\ \A e \in events : e.id = nextId => e.stop <= call.timing.end
       /\ \A d \in Replayed.deps : d \in DOMAIN instructions
                                   /\ instructions[d].end <= call.timing.begin
       /\ \A q \in Atoms : \A e \in events :
            nextId \in Touched(q) /\ e.id \in Touched(q) /\ e.id < nextId
              => e.stop <= call.timing.begin

StageInv ==
  /\ stage \in {"boundary", "out", "back", "replay", "failed"}
  /\ timed \in 0 .. Len(chunk) /\ replayed \in 0 .. Len(chunk)
  /\ nextId = base + replayed
  /\ stage = "boundary" => base > 0 /\ chunk = <<>>
  /\ stage \in {"boundary", "out", "back"} => replayed = 0 /\ call = Ledger!Idle
  /\ stage \in {"out", "back"} => layer < Len(Program) /\ base > 0
  /\ stage = "out" => timed = 0
  /\ stage = "back" => timed < Len(chunk)
  /\ stage = "replay" => timed = Len(chunk)
  /\ stage = "replay" /\ base > 0 => layer < Len(Program)
  /\ Ledger!Booking => stage = "replay"

\* The participants are seated, their blocks are theirs, and only atoms in the
\* zone return.
SeatInv ==
  stage = "out" =>
    /\ Participants(gates) \subseteq InZone /\ block \in Seq(Atoms)
    /\ ToSet(block) \subseteq Participants(gates)
    /\ \A q \in Atoms : gateMap[q] # finalMap[q] => q \in InZone

TypeInv ==
  /\ base \in Nat /\ layer \in 0 .. Len(Program) /\ crashes \in 0 .. MaxCrashes
  /\ Placing(boundary) /\ Placing(gateMap) /\ Placing(finalMap)
  /\ pending \subseteq Atoms
  /\ RouterType(NextInst, window, qubitDep, siteDep, aodDep, aodFree, rydDep, lastOneQ)
  /\ aodDep \in [Aods -> Before(UntimedId)]
  /\ HistoryType(NextInst, journal, exposures)
  /\ LedgerType(NextInst, instructions, aodEnd, oneQEnd, rydEnd, events)

HistoryInv == Chained(journal, exposures, events) /\ PulsesExposed(exposures, events)

SavedInv ==
  saved # NoCheckpoint =>
    /\ saved.base \in Nat /\ saved.base > 0 /\ saved.layer \in 0 .. Len(Program)
    /\ saved.nextId = saved.base
    /\ Placing(saved.boundary)
    /\ RouterType(saved.base, saved.window, saved.qubitDep, saved.siteDep, saved.aodDep,
                  saved.aodFree, saved.rydDep, saved.lastOneQ)
    /\ HistoryType(saved.base, saved.journal, saved.exposures)
    /\ LedgerType(saved.base, saved.instructions, saved.aodEnd, saved.oneQEnd,
                  saved.rydEnd, saved.events)
    /\ \A e \in saved.events : e.id < saved.base
    /\ Chained(saved.journal, saved.exposures, saved.events)
    /\ PulsesExposed(saved.exposures, saved.events)
    /\ Settled(saved.journal, saved.exposures, saved.events, saved.instructions,
               saved.qubitDep)

IInv ==
  /\ TypeInv /\ StageInv /\ SeatInv /\ ChunkInv /\ OrderInv
  /\ ReplayInv /\ CallInv /\ HistoryInv /\ SavedInv

-----------------------------------------------------------------------------
(***************************************************************************)
(* Facts about the parts of the invariant.                                 *)
(***************************************************************************)

\* States of a call are told apart.
LEMMA CallStates ==
  /\ Ledger!Idle.state # "booking" /\ Ledger!Raised.state # "booking"
  /\ Ledger!Idle # Ledger!Raised
<1>1. Ledger!Idle.state = "idle" /\ Ledger!Raised.state = "raised"
  BY DEF Ledger!Idle, Ledger!Raised
<1> QED BY <1>1

LEMMA Numbers ==
  ASSUME TypeInv, StageInv, ChunkInv
  PROVE  /\ Len(chunk) \in Nat /\ DOMAIN chunk = 1 .. Len(chunk) /\ chunk \in Seq(ToSet(chunk))
         /\ base \in Nat /\ NextInst \in Nat /\ NextInst >= 1 /\ base <= NextInst
         /\ nextId \in Nat /\ timed \in Nat /\ replayed \in Nat
         /\ nextId = base + replayed /\ nextId <= NextInst
         /\ UntimedId \in Nat /\ UntimedId <= NextInst
<1>1. Len(chunk) \in Nat /\ DOMAIN chunk = 1 .. Len(chunk) /\ chunk \in Seq(ToSet(chunk))
  BY LenProperties DEF ChunkInv, IsSeq
<1>2. base \in Nat /\ rydDep \in 0 .. NextInst - 1
  BY DEF TypeInv, RouterType, Before
<1>3. timed \in 0 .. Len(chunk) /\ replayed \in 0 .. Len(chunk) /\ nextId = base + replayed
  BY DEF StageInv
<1> QED BY <1>1, <1>2, <1>3 DEF NextInst, UntimedId

\* The types do not mind further instructions.
LEMMA RouterTypeGrows ==
  ASSUME NEW n \in Nat, NEW m \in Nat, n <= m, NEW w, NEW qd, NEW sd, NEW ad, NEW af, NEW rd, NEW lq,
         RouterType(n, w, qd, sd, ad, af, rd, lq)
  PROVE  RouterType(m, w, qd, sd, ad, af, rd, lq)
<1>1. Before(n) \subseteq Before(m)
  BY DEF Before
<1>2. qd \in [Atoms -> Before(m)] /\ ad \in [Aods -> Before(m)]
  BY <1>1 DEF RouterType
<1> QED BY <1>1, <1>2 DEF RouterType

LEMMA HistoryTypeGrows ==
  ASSUME NEW n \in Nat, NEW m \in Nat, n <= m, NEW j, NEW x, HistoryType(n, j, x)
  PROVE  HistoryType(m, j, x)
<1>1. Before(n) \subseteq Before(m)
  BY DEF Before
<1> QED BY <1>1 DEF HistoryType

LEMMA LedgerTypeGrows ==
  ASSUME NEW n \in Nat, NEW m \in Nat, n <= m, NEW ins, NEW ae, NEW oe, NEW re, NEW ev,
         LedgerType(n, ins, ae, oe, re, ev)
  PROVE  LedgerType(m, ins, ae, oe, re, ev)
<1>1. Before(n) \subseteq Before(m)
  BY DEF Before
<1> QED BY <1>1 DEF LedgerType

TouchedBy(j, x, q, i) ==
  (\E m \in j : m.atom = q /\ m.id = i) \/ (i \in DOMAIN x /\ q \in x[i].atoms)

LEMMA TouchesMember ==
  ASSUME NEW j, NEW x, NEW q, NEW i
  PROVE  i \in Touches(j, x, q) <=> TouchedBy(j, x, q, i)
BY DEF Touches, TouchedBy

\* What touches an atom has been written.
LEMMA TouchedWritten ==
  ASSUME NEW n \in Nat, NEW j, NEW x, NEW q, HistoryType(n, j, x)
  PROVE  Touches(j, x, q) \subseteq Before(n)
BY DEF HistoryType, Touches

-----------------------------------------------------------------------------
(***************************************************************************)
(* The initial states.                                                     *)
(***************************************************************************)

LEMMA InitialChunk ==
  ASSUME Init
  PROVE  /\ IsSeq(chunk) /\ Len(chunk) \in {1, 2}
         /\ chunk[1] = Instruction("init", <<>>, <<>>, {}, {})
         /\ Len(chunk) = IF block = <<>> THEN 1 ELSE 2
         /\ block # <<>> => chunk[2] = Instruction("one_qubit", block, <<>>, {0}, {})
<1> DEFINE a == Instruction("init", <<>>, <<>>, {}, {})
           b == Instruction("one_qubit", block, <<>>, {0}, {})
<1>1. CASE block = <<>>
  <2>1. <<a>> \in Seq({a})
    OBVIOUS
  <2>2. chunk = <<a>> \o <<>>
    BY <1>1 DEF Init
  <2> HIDE DEF a
  <2>3. chunk = <<a>>
    BY <2>1, <2>2, ConcatEmptySeq
  <2>4. Len(chunk) = 1 /\ chunk[1] = a /\ IsSeq(chunk)
    BY <2>3 DEF IsSeq, ToSet
  <2> USE DEF a
  <2> QED BY <2>4, <1>1
<1>2. CASE block # <<>>
  <2>1. <<a>> \in Seq({a, b}) /\ <<b>> \in Seq({a, b})
    OBVIOUS
  <2>2. chunk = <<a>> \o <<b>>
    BY <1>2 DEF Init
  <2> HIDE DEF a, b
  <2>3. /\ chunk \in Seq({a, b}) /\ Len(chunk) = 2
        /\ chunk[1] = a /\ chunk[2] = b
    <3>1. Len(<<a>>) = 1 /\ Len(<<b>>) = 1 /\ <<a>>[1] = a /\ <<b>>[1] = b
      OBVIOUS
    <3>2. /\ <<a>> \o <<b>> \in Seq({a, b}) /\ Len(<<a>> \o <<b>>) = 2
          /\ \A i \in 1 .. 2 : (<<a>> \o <<b>>)[i] = IF i <= 1 THEN <<a>>[i] ELSE <<b>>[i - 1]
      BY <2>1, <3>1, ConcatProperties
    <3> QED BY <2>2, <3>1, <3>2
  <2>4. IsSeq(chunk)
    <3>1. DOMAIN chunk = 1 .. 2 /\ chunk \in [1 .. 2 -> {a, b}]
      BY <2>3, LenProperties
    <3>2. chunk \in [1 .. 2 -> ToSet(chunk)]
      BY <3>1 DEF ToSet
    <3> QED BY <3>2, SeqDef DEF IsSeq
  <2> USE DEF a, b
  <2> QED BY <2>3, <2>4, <1>2
<1> QED BY <1>1, <1>2

LEMMA InitIInv == Init => IInv
<1> SUFFICES ASSUME Init PROVE IInv
  OBVIOUS
<1>1. /\ IsSeq(chunk) /\ Len(chunk) \in {1, 2}
      /\ chunk[1] = Instruction("init", <<>>, <<>>, {}, {})
      /\ Len(chunk) = IF block = <<>> THEN 1 ELSE 2
      /\ block # <<>> => chunk[2] = Instruction("one_qubit", block, <<>>, {0}, {})
  BY InitialChunk
<1>2. block \in Seq(Atoms) /\ <<>> \in Seq(Atoms) /\ Len(block) \in Nat
  BY RouteAssumption, LenProperties, EmptySeq DEF Init
<1>3. base = 0 /\ NextInst = Len(chunk) /\ UntimedId = Len(chunk)
  BY <1>1 DEF Init, NextInst, UntimedId
<1>4. Len(block) * OneQTime \in Nat
  <2>1. \A x, y \in Nat : x * y \in Nat
    OBVIOUS
  <2>2. OneQTime \in Nat
    BY RouteAssumption
  <2> QED BY <2>1, <2>2, <1>2
<1>5. call = Ledger!Idle /\ events = {} /\ instructions = [id \in {} |-> {}] /\ nextId = 0
      /\ aodEnd = [r \in Aods |-> 0] /\ oneQEnd = 0 /\ rydEnd = [z \in {Zone} |-> 0]
  BY DEF Init, Ledger!Init
<1>6. ~Ledger!Booking /\ call.state # "booking"
  BY <1>5, CallStates DEF Ledger!Booking
<1>7. \A q \in Atoms : Touched(q) = {}
  BY DEF Init, Touched, Touches
<1>8. TypeInv
  <2>1. /\ base \in Nat /\ layer \in 0 .. Len(Program) /\ crashes \in 0 .. MaxCrashes
        /\ Placing(boundary) /\ Placing(gateMap) /\ Placing(finalMap) /\ pending \subseteq Atoms
    <3>1. Len(Program) \in Nat /\ MaxCrashes \in Nat /\ InitialMapping \in [Atoms -> Sites]
      BY RouteAssumption, LenProperties
    <3> QED BY <3>1 DEF Init, Placing
  <2>2. RouterType(Len(chunk), window, qubitDep, siteDep, aodDep, aodFree, rydDep, lastOneQ)
    <3>1. DOMAIN window = Before(Len(chunk))
      BY DEF Init, Before
    <3>2. \A id \in DOMAIN window : window[id].end \in Nat /\ window[id].pickup \in Nat
      BY <1>4 DEF Init, Summary
    <3>3. 0 \in Before(Len(chunk)) /\ (block # <<>> => 1 \in Before(Len(chunk)))
      BY <1>1 DEF Before
    <3>4. ToSet(block) # {} => block # <<>>
      BY DEF ToSet
    <3>5. qubitDep \in [Atoms -> Before(Len(chunk))] /\ aodDep \in [Aods -> Before(Len(chunk))]
          /\ aodFree \in [Aods -> Nat] /\ rydDep \in Before(Len(chunk))
          /\ lastOneQ \in {None} \cup Before(Len(chunk))
      BY <3>3, <3>4 DEF Init
    <3> QED BY <3>1, <3>2, <3>5 DEF Init, RouterType
  <2>3. HistoryType(Len(chunk), journal, exposures)
    BY DEF Init, HistoryType
  <2>4. LedgerType(Len(chunk), instructions, aodEnd, oneQEnd, rydEnd, events)
    BY <1>5 DEF LedgerType
  <2>5. aodDep \in [Aods -> Before(Len(chunk))]
    BY <2>2 DEF RouterType
  <2> QED BY <2>1, <2>2, <2>3, <2>4, <2>5, <1>3 DEF TypeInv
<1>9. StageInv
  BY <1>1, <1>3, <1>5, <1>6 DEF StageInv, Init
<1>10. ChunkInv
  <2>1. GoodInstruction(chunk[1], 0, exposures)
    BY <1>1, <1>2 DEF GoodInstruction, Instruction, Before
  <2>2. block # <<>> => GoodInstruction(chunk[2], 1, exposures)
    BY <1>1, <1>2 DEF GoodInstruction, Instruction, Before
  <2>3. \A k \in 1 .. Len(chunk) : k = 1 \/ (k = 2 /\ block # <<>>)
    BY <1>1
  <2> QED BY <1>1, <1>3, <2>1, <2>2, <2>3 DEF ChunkInv
<1>11. OrderInv
  BY <1>7 DEF OrderInv
<1>12. ReplayInv
  BY <1>3, <1>5 DEF ReplayInv
<1>13. CallInv
  BY <1>5, <1>6 DEF CallInv
<1>14. SeatInv /\ HistoryInv /\ SavedInv
  BY <1>5 DEF Init, SeatInv, HistoryInv, SavedInv, Chained, PulsesExposed
<1> QED BY <1>8, <1>9, <1>10, <1>11, <1>12, <1>13, <1>14 DEF IInv

-----------------------------------------------------------------------------
(***************************************************************************)
(* Steps that leave the chunk and the ledger alone.                        *)
(***************************************************************************)

routed == <<base, chunk, window, qubitDep, siteDep, aodDep, aodFree, rydDep, lastOneQ,
            journal, exposures, timed, replayed>>

\* The parts that speak of the chunk and the ledger only.
LEMMA SameLedger ==
  ASSUME ChunkInv, OrderInv, ReplayInv, HistoryInv, UNCHANGED <<routed, ledgerVars>>
  PROVE  ChunkInv' /\ OrderInv' /\ ReplayInv' /\ HistoryInv'
<1> USE DEF routed, ledgerVars
<1>1. ChunkInv'
  BY DEF ChunkInv
<1>2. \A q : Touched(q)' = Touched(q)
  BY DEF Touched
<1>3. \A d : At(d)' = At(d)
  BY DEF At
<1>4. \A q, i, d : After(q, i, d)' <=> After(q, i, d)
  BY <1>2, <1>3 DEF After
<1>5. OrderInv'
  BY <1>2, <1>3, <1>4 DEF OrderInv
<1>6. ReplayInv'
  BY <1>2, <1>3 DEF ReplayInv
<1>7. HistoryInv'
  BY DEF HistoryInv, Chained, PulsesExposed
<1> QED BY <1>1, <1>5, <1>6, <1>7

LEMMA SameCall ==
  ASSUME CallInv, call \in {Ledger!Idle, Ledger!Raised}, UNCHANGED <<routed, ledgerVars>>
  PROVE  CallInv'
<1>1. call' = call /\ events' = events /\ nextId' = nextId /\ call'.state # "booking"
  BY CallStates DEF ledgerVars
<1> QED BY <1>1 DEF CallInv

LEMMA SameTypes ==
  ASSUME TypeInv, UNCHANGED <<routed, ledgerVars>>
  PROVE  /\ base' \in Nat
         /\ RouterType(NextInst, window, qubitDep, siteDep, aodDep, aodFree, rydDep, lastOneQ)'
         /\ aodDep' \in [Aods -> Before(UntimedId')]
         /\ HistoryType(NextInst, journal, exposures)'
         /\ LedgerType(NextInst, instructions, aodEnd, oneQEnd, rydEnd, events)'
<1>1. NextInst' = NextInst /\ UntimedId' = UntimedId
  BY DEF routed, NextInst, UntimedId
<1> QED BY <1>1 DEF TypeInv, routed, ledgerVars

LEMMA StutterStep == IInv /\ UNCHANGED vars => IInv'
<1> SUFFICES ASSUME IInv, UNCHANGED vars PROVE IInv'
  OBVIOUS
<1> USE DEF vars, layerVars, depVars, crashVars, history
<1>1. UNCHANGED <<routed, ledgerVars>>
  BY DEF routed
<1>2. TypeInv'
  BY <1>1, SameTypes DEF IInv, TypeInv
<1>3. StageInv' /\ SeatInv'
  BY DEF IInv, StageInv, SeatInv, InZone, ledgerVars, Ledger!Booking
<1>4. ChunkInv' /\ OrderInv' /\ ReplayInv' /\ HistoryInv'
  BY <1>1, SameLedger DEF IInv
<1>5. CallInv'
  <2>1. Replayed' = Replayed /\ Replaying' = Replaying
    BY DEF Replayed, Replaying
  <2>2. \A q : Touched(q)' = Touched(q)
    BY DEF Touched
  <2> QED BY <2>1, <2>2 DEF IInv, CallInv, ledgerVars
<1>6. SavedInv'
  BY DEF IInv, SavedInv
<1> QED BY <1>2, <1>3, <1>4, <1>5, <1>6 DEF IInv

\* A failure changes the stage only.
LEMMA FailStep ==
  ASSUME IInv, Fail, UNCHANGED ledgerVars, call \in {Ledger!Idle, Ledger!Raised}
  PROVE  IInv'
<1> USE DEF Fail, layerVars, depVars, crashVars, history
<1>1. UNCHANGED <<routed, ledgerVars>>
  BY DEF routed
<1>2. TypeInv'
  BY <1>1, SameTypes DEF IInv, TypeInv
<1>3. ~Ledger!Booking'
  BY CallStates DEF ledgerVars, Ledger!Booking
<1>4. StageInv' /\ SeatInv'
  BY <1>3 DEF IInv, StageInv, SeatInv, ledgerVars
<1>5. ChunkInv' /\ OrderInv' /\ ReplayInv' /\ HistoryInv'
  BY <1>1, SameLedger DEF IInv
<1>6. CallInv'
  BY <1>1, SameCall DEF IInv
<1>7. SavedInv'
  BY DEF IInv, SavedInv
<1> QED BY <1>2, <1>4, <1>5, <1>6, <1>7 DEF IInv

-----------------------------------------------------------------------------
(***************************************************************************)
(* route_layer is called.                                                  *)
(***************************************************************************)

\* The gates of a stage name atoms.
LEMMA ParticipantsAreAtoms ==
  ASSUME NEW gs \in Seq(Atoms \X Atoms)
  PROVE  Participants(gs) \subseteq Atoms
<1>1. \A i \in DOMAIN gs : gs[i] \in Atoms \X Atoms
  BY LenProperties
<1> QED BY <1>1 DEF Participants

\* Where a stage puts its atoms.
LEMMA PlacementSeats ==
  ASSUME Placing(boundary), NEW gs \in Seq(Atoms \X Atoms), NEW pairOf \in [DOMAIN gs -> SitePairs]
  PROVE  /\ Placing(Placement(gs, pairOf))
         /\ \A q \in Participants(gs) : Placement(gs, pairOf)[q] \in Seats
<1>1. \A q \in Participants(gs) : /\ q \in Atoms
                                  /\ Placement(gs, pairOf)[q] \in Seats
  <2> TAKE q \in Participants(gs)
  <2>1. q \in Atoms
    BY ParticipantsAreAtoms
  <2>2. PICK i : /\ i \in DOMAIN gs
                 /\ Placement(gs, pairOf)[q] =
                      IF q = gs[i][1] THEN pairOf[i][1] ELSE pairOf[i][2]
    <3>1. \E i \in DOMAIN gs : q \in {gs[i][1], gs[i][2]}
      BY DEF Participants
    <3> DEFINE j == CHOOSE i \in DOMAIN gs : q \in {gs[i][1], gs[i][2]}
    <3>2. j \in DOMAIN gs
      BY <3>1
    <3>3. Placement(gs, pairOf)[q] = IF q = gs[j][1] THEN pairOf[j][1] ELSE pairOf[j][2]
      BY <2>1 DEF Placement
    <3> HIDE DEF j
    <3> QED BY <3>2, <3>3
  <2>3. pairOf[i] \in Seats \X Seats
    BY <2>2, RouteAssumption
  <2> QED BY <2>1, <2>2, <2>3
<1>2. \A q \in Atoms : q \notin Participants(gs) => Placement(gs, pairOf)[q] \in Sites
  BY DEF Placement, Placing
<1>3. \A q \in Atoms : Placement(gs, pairOf)[q] \in Sites
  BY <1>1, <1>2 DEF Sites
<1>4. Placement(gs, pairOf) = [q \in Atoms |-> Placement(gs, pairOf)[q]]
  BY DEF Placement
<1> QED BY <1>1, <1>3, <1>4 DEF Placing

\* Where atoms may be returned to.
LEMMA ReturnsPlace ==
  ASSUME NEW g, Placing(g), NEW f \in Returns(g)
  PROVE  /\ Placing(f)
         /\ \A q \in Atoms : g[q] # f[q] => g[q] \in Seats
<1>1. PICK back \in SUBSET {q \in Atoms : g[q] \in Seats /\ Homes[q] # {}} :
        \E sites \in [back -> Sites] :
          f = [q \in Atoms |-> IF q \in DOMAIN sites THEN sites[q] ELSE g[q]]
  BY DEF Returns
<1>2. PICK sites \in [back -> Sites] :
        f = [q \in Atoms |-> IF q \in DOMAIN sites THEN sites[q] ELSE g[q]]
  BY <1>1
<1> QED BY <1>2 DEF Placing

LEMMA RouteLayerStep == IInv /\ RouteLayer => IInv'
<1> SUFFICES ASSUME IInv, RouteLayer PROVE IInv'
  OBVIOUS
<1>1. PICK s \in Program[layer + 1] :
        \E pairOf \in [DOMAIN s.gates -> SitePairs] :
          \E f \in Returns(Placement(s.gates, pairOf)) :
            AcceptLayer(s, Placement(s.gates, pairOf), f)
  BY DEF RouteLayer
<1>2. layer < Len(Program) /\ layer \in Nat /\ layer + 1 \in DOMAIN Program
  <2>1. Len(Program) \in Nat /\ DOMAIN Program = 1 .. Len(Program)
    BY RouteAssumption, LenProperties
  <2>2. layer \in 0 .. Len(Program) /\ layer < Len(Program)
    BY DEF IInv, TypeInv, RouteLayer
  <2> QED BY <2>1, <2>2
<1>3. s.gates \in Seq(Atoms \X Atoms) /\ s.block \in Seq(Atoms)
      /\ ToSet(s.block) \subseteq Participants(s.gates)
  <2>1. Program[layer + 1] \in SUBSET [gates : Seq(Atoms \X Atoms), block : Seq(Atoms)]
    <3>1. layer + 1 \in 1 .. Len(Program)
      BY <1>2, RouteAssumption, LenProperties
    <3> QED BY <3>1, RouteAssumption, ElementOfSeq
  <2>2. s \in [gates : Seq(Atoms \X Atoms), block : Seq(Atoms)]
    BY <2>1
  <2>3. ToSet(s.block) \subseteq Participants(s.gates)
    BY <1>2, RouteAssumption
  <2> QED BY <2>2, <2>3
<1>4. PICK pairOf \in [DOMAIN s.gates -> SitePairs] :
        \E f \in Returns(Placement(s.gates, pairOf)) :
          AcceptLayer(s, Placement(s.gates, pairOf), f)
  BY <1>1
<1>5. PICK g : g = Placement(s.gates, pairOf)
  OBVIOUS
<1>6. PICK f \in Returns(g) : AcceptLayer(s, g, f)
  BY <1>4, <1>5
<1>7. Placing(g) /\ \A q \in Participants(s.gates) : g[q] \in Seats
  BY <1>3, <1>5, PlacementSeats DEF IInv, TypeInv
<1>8. Placing(f) /\ \A q \in Atoms : g[q] # f[q] => g[q] \in Seats
  BY <1>6, <1>7, ReturnsPlace
<1>9. Participants(s.gates) \subseteq Atoms
  BY <1>3, ParticipantsAreAtoms
<1> USE DEF depVars, crashVars, history
<1>10. /\ stage = "boundary" /\ stage' = "out" /\ gateMap' = g /\ finalMap' = f
       /\ gates' = s.gates /\ block' = s.block
       /\ pending' = {q \in Participants(s.gates) : boundary[q] # g[q]}
       /\ UNCHANGED <<routed, ledgerVars>> /\ UNCHANGED <<layer, boundary, saved, crashes>>
  BY <1>6 DEF AcceptLayer, routed
<1>11. TypeInv'
  <2>1. pending' \subseteq Atoms
    BY <1>9, <1>10
  <2> QED BY <2>1, <1>7, <1>8, <1>10, SameTypes DEF IInv, TypeInv, Placing
<1>12. StageInv'
  <2>1. /\ timed \in 0 .. Len(chunk) /\ replayed \in 0 .. Len(chunk) /\ nextId = base + replayed
        /\ base > 0 /\ chunk = <<>> /\ replayed = 0 /\ call = Ledger!Idle
        /\ (Ledger!Booking => FALSE)
    BY <1>10 DEF IInv, StageInv
  <2>2. timed = 0
    BY <2>1, EmptySeq
  <2>3. /\ timed' = timed /\ chunk' = chunk /\ replayed' = replayed /\ base' = base
        /\ nextId' = nextId /\ call' = call /\ layer' = layer
    BY <1>10 DEF routed, ledgerVars
  <2> QED BY <2>1, <2>2, <2>3, <1>2, <1>10 DEF StageInv, Ledger!Booking
<1>13. SeatInv'
  <2>1. InZone' = {q \in Atoms : g[q] \in Seats}
    BY <1>10 DEF InZone
  <2> QED BY <2>1, <1>3, <1>7, <1>8, <1>9, <1>10 DEF SeatInv
<1>14. ChunkInv' /\ OrderInv' /\ ReplayInv' /\ HistoryInv'
  BY <1>10, SameLedger DEF IInv
<1>15. CallInv'
  <2>1. call = Ledger!Idle
    BY <1>10 DEF IInv, StageInv
  <2> QED BY <2>1, <1>10, SameCall DEF IInv
<1>16. SavedInv'
  BY <1>10 DEF IInv, SavedInv
<1> QED BY <1>11, <1>12, <1>13, <1>14, <1>15, <1>16 DEF IInv

-----------------------------------------------------------------------------
(***************************************************************************)
(* The chunk grows.                                                        *)
(***************************************************************************)

\* What a step that writes further instructions leaves as it was.
Writing ==
  /\ base' = base /\ timed' = timed /\ replayed' = replayed /\ nextId' = nextId
  /\ UNCHANGED ledgerVars
  /\ IsSeq(chunk') /\ Len(chunk) <= Len(chunk')
  /\ \A k \in 1 .. Len(chunk) : chunk'[k] = chunk[k]
  /\ DOMAIN exposures \subseteq DOMAIN exposures'
  /\ \A q \in Atoms : Touched(q) \subseteq Touched(q)'
  /\ \A q \in Atoms : \A i \in Touched(q)' : i < NextInst => i \in Touched(q)

\* Who waited still waits.
LEMMA AfterGrows ==
  ASSUME TypeInv, StageInv, ChunkInv, Writing,
         NEW q \in Atoms, NEW i, NEW d \in Before(NextInst), After(q, i, d)
  PROVE  After(q, i, d)'
<1>1. /\ base \in Nat /\ Len(chunk) \in Nat /\ NextInst = base + Len(chunk)
  BY Numbers DEF NextInst
<1>2. CASE d < base
  BY <1>2 DEF After, Writing, ledgerVars
<1>3. CASE ~(d < base)
  <2>1. d - base + 1 \in 1 .. Len(chunk)
    BY <1>1, <1>3 DEF Before
  <2>2. At(d)' = At(d)
    BY <2>1 DEF At, Writing
  <2>3. Touched(q) \subseteq Touched(q)'
    BY DEF Writing
  <2> QED BY <1>3, <2>2, <2>3 DEF After, Writing
<1> QED BY <1>2, <1>3

\* The dependencies of an instruction of the chunk come before it.
LEMMA DepsBefore ==
  ASSUME TypeInv, StageInv, ChunkInv, NEW n \in Before(NextInst), base <= n
  PROVE  GoodInstruction(At(n), n, exposures) /\ At(n).deps \subseteq Before(n)
<1>1. n - base + 1 \in 1 .. Len(chunk) /\ base + (n - base + 1) - 1 = n
  BY Numbers DEF NextInst, Before
<1>2. GoodInstruction(At(n), n, exposures)
  <2>1. PICK k \in 1 .. Len(chunk) : k = n - base + 1
    BY <1>1
  <2>2. GoodInstruction(chunk[k], base + k - 1, exposures)
    BY DEF ChunkInv
  <2> QED BY <1>1, <2>1, <2>2 DEF At
<1> QED BY <1>2 DEF GoodInstruction

\* The instructions written before keep their order.
LEMMA OrderKept ==
  ASSUME TypeInv, StageInv, ChunkInv, OrderInv, Writing,
         NEW q \in Atoms, NEW n \in Touched(q)', NEW i \in Touched(q)', n < NextInst,
         i < NextInst, base <= n, i < n
  PROVE  \E d \in At(n)'.deps : After(q, i, d)'
<1>1. /\ base \in Nat /\ Len(chunk) \in Nat /\ NextInst = base + Len(chunk)
  BY Numbers DEF NextInst
<1>2. n \in Touched(q) /\ n \in Before(NextInst)
  <2>1. n \in Touched(q)
    BY DEF Writing
  <2>2. Touched(q) \subseteq Before(NextInst)
    BY <1>1, TouchedWritten DEF TypeInv, Touched
  <2> QED BY <2>1, <2>2
<1>3. i \in Touched(q)
  BY DEF Writing
<1>4. PICK d \in At(n).deps : After(q, i, d)
  BY <1>2, <1>3 DEF OrderInv
<1>5. d \in Before(NextInst)
  <2>1. d \in Before(n)
    BY <1>2, <1>4, DepsBefore
  <2> QED BY <2>1, <1>1, <1>2 DEF Before
<1>6. At(n)' = At(n)
  <2>1. n - base + 1 \in 1 .. Len(chunk)
    BY <1>1, <1>2 DEF Before
  <2> QED BY <2>1 DEF At, Writing
<1>7. After(q, i, d)'
  BY <1>4, <1>5, AfterGrows
<1> QED BY <1>4, <1>6, <1>7

\* Nothing has been replayed while the chunk is written.
LEMMA WritingReplay ==
  ASSUME TypeInv, StageInv, ChunkInv, ReplayInv, CallInv, HistoryInv, Writing,
         replayed = 0, call = Ledger!Idle
  PROVE  ReplayInv' /\ CallInv' /\ HistoryInv'
<1>1. /\ base \in Nat /\ nextId = base /\ NextInst \in Nat /\ base <= NextInst
  BY Numbers
<1>2. nextId' = base' /\ nextId' = nextId /\ base' = base
  BY <1>1 DEF Writing
<1>3. ReplayInv'
  <2>1. base' .. nextId' - 1 = {}
    BY <1>1, <1>2
  <2> QED BY <2>1 DEF ReplayInv
<1>4. call' = call /\ events' = events
  BY DEF Writing, ledgerVars
<1>5. CallInv'
  BY <1>2, <1>4, CallStates DEF CallInv
<1>6. Chained(journal', exposures', events')
  <2> SUFFICES ASSUME NEW q \in Atoms, NEW e \in events, NEW f \in events,
                      e.id \in Touches(journal', exposures', q),
                      f.id \in Touches(journal', exposures', q), e.id < f.id
               PROVE  e.stop <= f.start
    BY <1>4 DEF Chained
  <2>1. e.id < NextInst /\ f.id < NextInst
    <3>1. e.id \in Nat /\ f.id \in Nat
      BY DEF TypeInv, LedgerType
    <3>2. e.id < base /\ f.id < base
      BY <1>1 DEF CallInv
    <3> QED BY <3>1, <3>2, <1>1
  <2>2. e.id \in Touched(q) /\ f.id \in Touched(q)
    BY <2>1 DEF Writing, Touched
  <2> QED BY <2>2 DEF HistoryInv, Chained, Touched
<1>7. PulsesExposed(exposures', events')
  BY <1>4 DEF HistoryInv, PulsesExposed, Writing
<1> QED BY <1>3, <1>5, <1>6, <1>7 DEF HistoryInv

\* A good instruction stays good.
LEMMA GoodGrows ==
  ASSUME NEW i, NEW id, NEW x, NEW y, DOMAIN x \subseteq DOMAIN y, GoodInstruction(i, id, x)
  PROVE  GoodInstruction(i, id, y)
BY DEF GoodInstruction

LEMMA ChunkGrows ==
  ASSUME TypeInv, StageInv, ChunkInv, Writing,
         \A k \in Len(chunk) + 1 .. Len(chunk') :
           GoodInstruction(chunk'[k], base + k - 1, exposures')
  PROVE  ChunkInv'
<1>1. Len(chunk) \in Nat /\ Len(chunk') \in Nat
  BY LenProperties DEF ChunkInv, Writing, IsSeq
<1>2. ASSUME NEW k \in 1 .. Len(chunk')
      PROVE  GoodInstruction(chunk'[k], base + k - 1, exposures')
  <2>1. CASE k \in 1 .. Len(chunk)
    <3>1. GoodInstruction(chunk[k], base + k - 1, exposures)
      BY <2>1 DEF ChunkInv
    <3>2. chunk'[k] = chunk[k] /\ DOMAIN exposures \subseteq DOMAIN exposures'
      BY <2>1 DEF Writing
    <3> QED BY <3>1, <3>2, GoodGrows
  <2>2. CASE k \in Len(chunk) + 1 .. Len(chunk')
    BY <2>2
  <2> QED BY <1>1, <2>1, <2>2
<1> QED BY <1>2 DEF ChunkInv, Writing

\* A sequence that is appended to stays one.
LEMMA AppendIsSeq ==
  ASSUME NEW s, IsSeq(s), NEW e
  PROVE  /\ IsSeq(Append(s, e)) /\ Len(Append(s, e)) = Len(s) + 1
         /\ \A k \in 1 .. Len(s) : Append(s, e)[k] = s[k]
         /\ Append(s, e)[Len(s) + 1] = e
<1> DEFINE S == ToSet(s) \cup {e}
<1>1. s \in Seq(ToSet(s))
  BY DEF IsSeq
<1>2. s \in Seq(S)
  BY <1>1, SeqMonotonic
<1>3. /\ Append(s, e) \in Seq(S) /\ Len(Append(s, e)) = Len(s) + 1
      /\ \A k \in 1 .. Len(s) : Append(s, e)[k] = s[k]
      /\ Append(s, e)[Len(s) + 1] = e
  BY <1>2, AppendProperties
<1>4. Append(s, e) \in Seq(ToSet(Append(s, e)))
  <2>1. PICK t : t = Append(s, e)
    OBVIOUS
  <2>2. Len(t) \in Nat /\ DOMAIN t = 1 .. Len(t) /\ t \in [1 .. Len(t) -> S]
    BY <1>3, <2>1, LenProperties
  <2>3. t \in [1 .. Len(t) -> ToSet(t)]
    BY <2>2 DEF ToSet
  <2>4. t \in Seq(ToSet(t))
    BY <2>2, <2>3, SeqDef
  <2> QED BY <2>1, <2>4
<1> QED BY <1>3, <1>4 DEF IsSeq

-----------------------------------------------------------------------------
(***************************************************************************)
(* A movement job is written.                                              *)
(***************************************************************************)

LEMMA EmitJobStep ==
  ASSUME IInv, NEW atoms \in SUBSET pending, EmitJob(atoms)
  PROVE  IInv'
<1> USE DEF layerVars, crashVars
<1> DEFINE id == NextInst
           rows == RowSeq(atoms, [q \in atoms |-> RowOf[From[q]]])
           colOf == [q \in atoms |-> ColOf[From[q]]]
           job == ExpandedJob(rows, colOf)
           deps == {qubitDep[q] : q \in atoms}
           instr == Instruction("aod", VisitOrder(atoms), job, deps, SiteDepsOf(VisitOrder(atoms), id))
<1>1. /\ TypeInv /\ StageInv /\ SeatInv /\ ChunkInv /\ OrderInv
      /\ ReplayInv /\ CallInv /\ HistoryInv /\ SavedInv
  BY DEF IInv
<1>2. /\ Len(chunk) \in Nat /\ id \in Nat /\ base \in Nat /\ id = base + Len(chunk) /\ base <= id
      /\ UntimedId \in Nat /\ timed \in Nat
  BY <1>1, Numbers DEF NextInst
<1>3. /\ stage \in {"out", "back"} /\ timed = 0 /\ atoms # {} /\ atoms \subseteq Atoms
      /\ chunk' = Append(chunk, instr)
      /\ qubitDep' = [q \in Atoms |-> IF q \in atoms THEN id ELSE qubitDep[q]]
      /\ siteDep' = [s \in DOMAIN siteDep \cup {From[q] : q \in atoms} |->
                       IF s \in {From[q] : q \in atoms} THEN id ELSE siteDep[s]]
      /\ pending' = pending \ atoms
      /\ journal' = journal \cup {[id |-> id, atom |-> q, from |-> From[q], to |-> To[q],
                                   layer |-> layer, phase |-> stage] : q \in atoms}
      /\ UNCHANGED <<stage, layer, layerVars, base, timed, replayed, window, aodDep, rydDep,
                     lastOneQ, aodFree, crashVars, exposures, ledgerVars>>
  BY <1>1 DEF EmitJob, TypeInv
<1>4. replayed = 0 /\ call = Ledger!Idle
  BY <1>1, <1>3 DEF StageInv
<1>5. /\ IsSeq(chunk') /\ Len(chunk') = Len(chunk) + 1
      /\ \A k \in 1 .. Len(chunk) : chunk'[k] = chunk[k]
      /\ chunk'[Len(chunk) + 1] = instr
  <2> HIDE DEF instr
  <2> QED BY <1>1, <1>3, AppendIsSeq DEF ChunkInv
<1>6. NextInst' = id + 1
  BY <1>2, <1>3, <1>5 DEF NextInst
<1>7. \A q \in Atoms : Touched(q)' = Touched(q) \cup (IF q \in atoms THEN {id} ELSE {})
  <2> TAKE q \in Atoms
  <2> HIDE DEF id
  <2>1. exposures' = exposures
    BY <1>3
  <2>2. ASSUME NEW x PROVE (x \in Touched(q)') <=> (x \in Touched(q) \/ (q \in atoms /\ x = id))
    <3>1. (x \in Touched(q)) <=> TouchedBy(journal, exposures, q, x)
      BY TouchesMember DEF Touched
    <3>2. (x \in Touched(q)') <=> TouchedBy(journal', exposures, q, x)
      BY <2>1, TouchesMember DEF Touched
    <3>3. TouchedBy(journal', exposures, q, x)
            <=> (TouchedBy(journal, exposures, q, x) \/ (q \in atoms /\ x = id))
      <4> DEFINE leg(p) == [id |-> id, atom |-> p, from |-> From[p], to |-> To[p],
                            layer |-> layer, phase |-> stage]
      <4>1. \A m : m \in journal' <=> m \in journal \/ \E p \in atoms : m = leg(p)
        BY <1>3
      <4>2. \A p : leg(p).id = id /\ leg(p).atom = p
        OBVIOUS
      <4> HIDE DEF leg, id
      <4> QED BY <4>1, <4>2 DEF TouchedBy
    <3> QED BY <3>1, <3>2, <3>3
  <2> QED BY <2>2
<1>8. \A q \in Atoms : Touched(q) \subseteq Before(id)
  BY <1>1, <1>2, TouchedWritten DEF TypeInv, Touched
<1>9. Writing
  <2>1. \A q \in Atoms : Touched(q) \subseteq Touched(q)'
    BY <1>7
  <2>2. \A q \in Atoms : \A i \in Touched(q)' : i < NextInst => i \in Touched(q)
    BY <1>7, <1>2
  <2>3. Len(chunk) <= Len(chunk') /\ nextId' = nextId
    BY <1>2, <1>3, <1>5 DEF ledgerVars
  <2> QED BY <2>1, <2>2, <2>3, <1>3, <1>5 DEF Writing
<1>10. deps \subseteq Before(id)
  BY <1>1, <1>3 DEF TypeInv, RouterType
<1>11. GoodInstruction(instr, id, exposures')
  <2>1. GoodJob(job) /\ PickupOffset(job) \in Nat /\ DropOffset(job) \in Nat
    <3>1. IsFiniteSet(atoms)
      BY <1>3, RouteAssumption, FS_Subset
    <3> QED BY <3>1, <1>3, ExpandedIsGood
  <2>2. /\ instr.kind = "aod" /\ instr.job = job /\ instr.deps = deps
        /\ instr = [kind |-> instr.kind, atoms |-> instr.atoms, job |-> instr.job,
                    deps |-> instr.deps, sites |-> instr.sites, aod |-> instr.aod]
    BY DEF Instruction
  <2> HIDE DEF instr, job, deps, id
  <2> QED BY <2>1, <2>2, <1>10 DEF GoodInstruction
<1>12. TypeInv'
  <2>1. RouterType(id + 1, window, qubitDep', siteDep', aodDep, aodFree, rydDep, lastOneQ)
    <3>1. RouterType(id + 1, window, qubitDep, siteDep, aodDep, aodFree, rydDep, lastOneQ)
      <4> HIDE DEF id
      <4>1. RouterType(id, window, qubitDep, siteDep, aodDep, aodFree, rydDep, lastOneQ)
        BY <1>1 DEF TypeInv, id
      <4> QED BY <4>1, <1>2, RouterTypeGrows
    <3>2. id \in Before(id + 1)
      BY <1>2 DEF Before
    <3> HIDE DEF id
    <3>3. qubitDep' \in [Atoms -> Before(id + 1)]
      BY <3>1, <3>2, <1>3 DEF RouterType
    <3>4. \A q \in atoms : From[q] \in Sites
      BY <1>1, <1>3 DEF TypeInv, Placing, From
    <3>5. DOMAIN siteDep' \subseteq Sites /\ \A s \in DOMAIN siteDep' : siteDep'[s] \in Before(id + 1)
      BY <3>1, <3>2, <3>4, <1>3 DEF RouterType
    <3> QED BY <3>1, <3>3, <3>5 DEF RouterType
  <2>2. HistoryType(id + 1, journal', exposures')
    <3>1. HistoryType(id + 1, journal, exposures)
      <4> HIDE DEF id
      <4>1. HistoryType(id, journal, exposures)
        BY <1>1 DEF TypeInv, id
      <4> QED BY <4>1, <1>2, HistoryTypeGrows
    <3>2. id \in Before(id + 1)
      BY <1>2 DEF Before
    <3> HIDE DEF id
    <3> QED BY <3>1, <3>2, <1>3 DEF HistoryType
  <2>3. LedgerType(id + 1, instructions, aodEnd, oneQEnd, rydEnd, events)
    <3> HIDE DEF id
    <3>1. LedgerType(id, instructions, aodEnd, oneQEnd, rydEnd, events)
      BY <1>1 DEF TypeInv, id
    <3> QED BY <3>1, <1>2, LedgerTypeGrows
  <2>4. UntimedId' = UntimedId
    BY <1>3 DEF UntimedId
  <2>5. pending' \subseteq Atoms
    BY <1>1, <1>3 DEF TypeInv
  <2> QED BY <2>1, <2>2, <2>3, <2>4, <2>5, <1>1, <1>3, <1>6 DEF TypeInv, ledgerVars
<1>13. StageInv'
  <2>1. /\ stage' = stage /\ layer' = layer /\ base' = base /\ timed' = timed /\ nextId' = nextId
        /\ replayed' = replayed /\ call' = call
    BY <1>3 DEF ledgerVars
  <2>2. timed \in 0 .. Len(chunk') /\ replayed \in 0 .. Len(chunk') /\ timed < Len(chunk')
    BY <1>2, <1>3, <1>4, <1>5
  <2> QED BY <1>1, <1>3, <2>1, <2>2 DEF StageInv, Ledger!Booking
<1>14. SeatInv'
  BY <1>1, <1>3 DEF SeatInv, InZone
<1>15. ChunkInv'
  <2>1. \A k \in Len(chunk) + 1 .. Len(chunk') : GoodInstruction(chunk'[k], base + k - 1, exposures')
    <3> TAKE k \in Len(chunk) + 1 .. Len(chunk')
    <3>1. k = Len(chunk) + 1 /\ base + k - 1 = id
      BY <1>2, <1>5
    <3> HIDE DEF instr, id
    <3> QED BY <3>1, <1>5, <1>11
  <2> QED BY <2>1, <1>1, <1>9, ChunkGrows
<1>16. \A q \in Atoms : \A d : d = qubitDep[q] => \A i \in Touched(q) : After(q, i, d)'
  <2> SUFFICES ASSUME NEW q \in Atoms, NEW d, d = qubitDep[q], NEW i \in Touched(q)
               PROVE  After(q, i, d)'
    OBVIOUS
  <2>1. d \in Before(NextInst) /\ After(q, i, d)
    BY <1>1 DEF TypeInv, RouterType, OrderInv
  <2> QED BY <2>1, <1>1, <1>9, AfterGrows
<1>17. ASSUME NEW n, n = id PROVE At(n)'.deps = deps
  <2>1. (n - base') + 1 = Len(chunk) + 1
    BY <1>2, <1>3, <1>17
  <2>2. instr.deps = deps
    BY DEF Instruction
  <2> HIDE DEF instr, deps, id
  <2> QED BY <1>5, <2>1, <2>2 DEF At
<1>18. OrderInv'
  <2>1. ASSUME NEW q \in Atoms, NEW i \in Touched(q)', NEW d, d = qubitDep'[q]
        PROVE  After(q, i, d)'
    <3>1. CASE q \in atoms
      <4>1. d = id /\ ~(d < base') /\ d \in Touched(q)' /\ base' <= d /\ i <= d
        <5>1. d = id
          BY <3>1, <2>1, <1>3
        <5>2. i \in Before(id) \/ i = id
          BY <1>7, <1>8
        <5>3. d \in Touched(q)'
          BY <5>1, <3>1, <1>7
        <5> QED BY <5>1, <5>2, <5>3, <1>2, <1>3 DEF Before
      <4> HIDE DEF id
      <4> QED BY <4>1 DEF After
    <3>2. CASE q \notin atoms
      <4>1. d = qubitDep[q] /\ i \in Touched(q)
        BY <3>2, <2>1, <1>3, <1>7
      <4> QED BY <4>1, <1>16
    <3> QED BY <3>1, <3>2
  <2>2. ASSUME NEW q \in Atoms, NEW n \in Touched(q)', NEW i \in Touched(q)', base' <= n, i < n
        PROVE  \E d \in At(n)'.deps : After(q, i, d)'
    <3>1. n \in Before(id) \/ n = id
      BY <1>7, <1>8
    <3>2. i \in Before(id) \/ i = id
      BY <1>7, <1>8
    <3>3. CASE n = id
      <4>1. i \in Touched(q) /\ q \in atoms
        <5>1. i # id
          BY <3>3, <2>2, <1>2
        <5>2. q \in atoms
          BY <3>3, <1>7, <1>8, <1>2 DEF Before
        <5> QED BY <5>1, <5>2, <1>7
      <4>2. PICK d : d = qubitDep[q]
        OBVIOUS
      <4>3. d \in deps /\ After(q, i, d)'
        BY <4>1, <4>2, <1>16
      <4> QED BY <4>3, <3>3, <1>17
    <3>4. CASE n # id
      <4>1. n < NextInst /\ i < NextInst /\ base <= n
        BY <3>1, <3>2, <3>4, <2>2, <1>2, <1>3 DEF Before
      <4> QED BY <4>1, <2>2, <1>1, <1>9, OrderKept
    <3> QED BY <3>3, <3>4
  <2>3. ASSUME NEW q \in Atoms, NEW i \in Touched(q)' PROVE After(q, i, qubitDep[q])'
    <3>1. PICK d : d = qubitDep'[q]
      OBVIOUS
    <3>2. After(q, i, d)'
      BY <2>1, <3>1
    <3> QED BY <3>1, <3>2 DEF After
  <2> QED BY <2>2, <2>3 DEF OrderInv
<1>19. ReplayInv' /\ CallInv' /\ HistoryInv'
  BY <1>1, <1>4, <1>9, WritingReplay
<1>20. SavedInv'
  BY <1>1, <1>3 DEF SavedInv
<1> QED BY <1>12, <1>13, <1>14, <1>15, <1>18, <1>19, <1>20 DEF IInv

-----------------------------------------------------------------------------
(***************************************************************************)
(* The gates are written.                                                  *)
(***************************************************************************)

\* One instruction or two at the end of a sequence.
Extended(s, e, w, f) == s \o <<e>> \o (IF w # <<>> THEN <<f>> ELSE <<>>)
Extends(t, s, e, w, f) ==
  /\ IsSeq(t) /\ Len(t) = IF w # <<>> THEN Len(s) + 2 ELSE Len(s) + 1
  /\ \A k \in 1 .. Len(s) : t[k] = s[k]
  /\ t[Len(s) + 1] = e /\ (w # <<>> => t[Len(s) + 2] = f)

LEMMA OneOrTwoMore ==
  ASSUME NEW s, IsSeq(s), NEW e, NEW f, NEW w
  PROVE  Extends(Extended(s, e, w, f), s, e, w, f)
<1> SUFFICES ASSUME NEW t, t = s \o <<e>> \o (IF w # <<>> THEN <<f>> ELSE <<>>)
             PROVE  Extends(t, s, e, w, f)
  BY DEF Extended
<1> USE DEF Extends
<1>1. s \o <<e>> = Append(s, e)
  <2>1. s \in Seq(ToSet(s) \cup {e})
    BY SeqMonotonic DEF IsSeq
  <2> QED BY <2>1, AppendIsConcat
<1>2. PICK u : u = Append(s, e)
  OBVIOUS
<1>3. /\ IsSeq(u) /\ Len(u) = Len(s) + 1 /\ \A k \in 1 .. Len(s) : u[k] = s[k]
      /\ u[Len(s) + 1] = e /\ Len(s) \in Nat
  BY <1>2, AppendIsSeq, LenProperties DEF IsSeq
<1>4. CASE w # <<>>
  <2>1. t = Append(u, f)
    <3>1. u \in Seq(ToSet(u) \cup {f})
      BY <1>3, SeqMonotonic DEF IsSeq
    <3>2. u \o <<f>> = Append(u, f)
      BY <3>1, AppendIsConcat
    <3> QED BY <3>2, <1>1, <1>2, <1>4
  <2>2. /\ IsSeq(t) /\ Len(t) = Len(u) + 1 /\ \A k \in 1 .. Len(u) : t[k] = u[k]
        /\ t[Len(u) + 1] = f
    <3>1. /\ IsSeq(Append(u, f)) /\ Len(Append(u, f)) = Len(u) + 1
          /\ \A k \in 1 .. Len(u) : Append(u, f)[k] = u[k]
          /\ Append(u, f)[Len(u) + 1] = f
      BY <1>3, AppendIsSeq
    <3> QED BY <3>1, <2>1
  <2>3. Len(t) = Len(s) + 2 /\ t[Len(s) + 2] = f
    <3>1. Len(u) + 1 = Len(s) + 2
      BY <1>3
    <3> QED BY <2>2, <3>1
  <2>4. \A k \in 1 .. Len(s) + 1 : t[k] = u[k]
    BY <2>2, <1>3
  <2>5. /\ \A k \in 1 .. Len(s) : k \in 1 .. Len(s) + 1
        /\ Len(s) + 1 \in 1 .. Len(s) + 1
    BY <1>3
  <2>6. \A k \in 1 .. Len(s) : t[k] = s[k]
    BY <2>4, <2>5, <1>3
  <2>7. t[Len(s) + 1] = e
    BY <2>4, <2>5, <1>3
  <2> QED BY <2>2, <2>3, <2>6, <2>7, <1>4
<1>5. CASE w = <<>>
  <2>1. t = u
    BY <1>1, <1>2, <1>3, <1>5, ConcatEmptySeq DEF IsSeq
  <2> QED BY <2>1, <1>3, <1>5
<1> QED BY <1>4, <1>5

LEMMA EmitGatesStep == IInv /\ EmitGates => IInv'
<1> SUFFICES ASSUME IInv, EmitGates PROVE IInv'
  OBVIOUS
<1> USE DEF layerVars, crashVars
<1>1. /\ TypeInv /\ StageInv /\ SeatInv /\ ChunkInv /\ OrderInv
      /\ ReplayInv /\ CallInv /\ HistoryInv /\ SavedInv
  BY DEF IInv
<1>2. PICK cz : cz = NextInst
  OBVIOUS
<1>3. PICK dep1 : dep1 = [q \in Atoms |-> IF q \in Participants(gates) THEN cz ELSE qubitDep[q]]
  OBVIOUS
<1>4. PICK dep2 : dep2 = [q \in Atoms |-> IF q \in ToSet(block) THEN cz + 1 ELSE dep1[q]]
  OBVIOUS
<1>5. PICK czDeps : czDeps = {qubitDep[q] : q \in Participants(gates)} \cup {rydDep} \cup BoundDeps(dep2, cz)
  OBVIOUS
<1>6. PICK oneDeps : oneDeps = {dep1[q] : q \in ToSet(block)}
                               \cup (IF lastOneQ = None THEN {} ELSE {lastOneQ})
  OBVIOUS
<1> DEFINE two == block # <<>>
<1>8. PICK a : a = Instruction("cz", FlattenSeq(gates), <<>>, czDeps, {})
  OBVIOUS
<1>9. PICK b : b = Instruction("one_qubit", block, <<>>, oneDeps, {})
  OBVIOUS
<1>10. /\ stage = "out" /\ pending = {}
       /\ chunk' = chunk \o <<a>> \o (IF two THEN <<b>> ELSE <<>>)
       /\ qubitDep' = HoldReturning(BindExposed(dep2, cz), IF two THEN cz + 1 ELSE cz)
       /\ rydDep' = cz
       /\ lastOneQ' = (IF two THEN cz + 1 ELSE lastOneQ)
       /\ exposures' = [id \in DOMAIN exposures \cup {cz} |->
                          IF id = cz THEN [layer |-> layer, atoms |-> InZone] ELSE exposures[id]]
       /\ stage' = "back"
       /\ pending' = {q \in Atoms : gateMap[q] # finalMap[q]}
       /\ UNCHANGED <<layer, layerVars, base, timed, replayed, window, siteDep, aodDep, aodFree,
                      crashVars, journal, ledgerVars>>
  BY <1>2, <1>3, <1>4, <1>5, <1>6, <1>8, <1>9 DEF EmitGates
<1>11. /\ Len(chunk) \in Nat /\ cz \in Nat /\ base \in Nat /\ cz = base + Len(chunk) /\ base <= cz
       /\ IsSeq(chunk)
  BY <1>1, <1>2, Numbers DEF NextInst, ChunkInv
<1>12. replayed = 0 /\ timed = 0 /\ call = Ledger!Idle
  BY <1>1, <1>10 DEF StageInv
<1>13. /\ IsSeq(chunk') /\ Len(chunk') = (IF two THEN Len(chunk) + 2 ELSE Len(chunk) + 1)
       /\ \A k \in 1 .. Len(chunk) : chunk'[k] = chunk[k]
       /\ chunk'[Len(chunk) + 1] = a /\ (two => chunk'[Len(chunk) + 2] = b)
  <2>1. PICK t : t = chunk'
    OBVIOUS
  <2>2. t = chunk \o <<a>> \o (IF two THEN <<b>> ELSE <<>>)
    BY <2>1, <1>10
  <2>3. t = Extended(chunk, a, block, b)
    BY <2>2 DEF Extended
  <2>4. Extends(t, chunk, a, block, b)
    BY <2>3, <1>11, OneOrTwoMore
  <2> QED BY <2>1, <2>4 DEF Extends
<1>14. PICK m : m = NextInst'
  OBVIOUS
<1>15. m = (IF two THEN cz + 2 ELSE cz + 1) /\ m \in Nat /\ cz <= m
  BY <1>10, <1>11, <1>13, <1>14 DEF NextInst
<1>16. /\ Participants(gates) \subseteq InZone /\ block \in Seq(Atoms)
       /\ ToSet(block) \subseteq Participants(gates)
       /\ \A q \in Atoms : gateMap[q] # finalMap[q] => q \in InZone
  BY <1>1, <1>10 DEF SeatInv
<1>17. InZone \subseteq Atoms
  BY DEF InZone
<1>18. /\ qubitDep \in [Atoms -> Before(cz)] /\ rydDep \in Before(cz)
       /\ lastOneQ \in {None} \cup Before(cz) /\ DOMAIN exposures \subseteq Before(cz)
  BY <1>1, <1>2 DEF TypeInv, RouterType, HistoryType
<1>19. \A q \in Atoms : \A x : (x \in Touched(q)') <=> (x \in Touched(q) \/ (q \in InZone /\ x = cz))
  <2> SUFFICES ASSUME NEW q \in Atoms, NEW x
               PROVE  (x \in Touched(q)') <=> (x \in Touched(q) \/ (q \in InZone /\ x = cz))
    OBVIOUS
  <2>1. (x \in Touched(q)) <=> TouchedBy(journal, exposures, q, x)
    BY TouchesMember DEF Touched
  <2>2. (x \in Touched(q)') <=> TouchedBy(journal, exposures', q, x)
    BY <1>10, TouchesMember DEF Touched
  <2>3. cz \notin DOMAIN exposures
    BY <1>11, <1>18 DEF Before
  <2>4. /\ DOMAIN exposures' = DOMAIN exposures \cup {cz}
        /\ exposures'[cz].atoms = InZone
        /\ \A id \in DOMAIN exposures : exposures'[id] = exposures[id]
    BY <1>10, <2>3
  <2> QED BY <2>1, <2>2, <2>3, <2>4 DEF TouchedBy
<1>20. \A q \in Atoms : Touched(q) \subseteq Before(cz)
  BY <1>1, <1>2, <1>11, TouchedWritten DEF TypeInv, Touched
<1>21. Writing
  <2>1. \A q \in Atoms : Touched(q) \subseteq Touched(q)'
    BY <1>19
  <2>2. \A q \in Atoms : \A i \in Touched(q)' : i < NextInst => i \in Touched(q)
    BY <1>2, <1>19, <1>11
  <2>3. Len(chunk) <= Len(chunk') /\ nextId' = nextId
    BY <1>11, <1>13, <1>10 DEF ledgerVars
  <2>4. DOMAIN exposures \subseteq DOMAIN exposures'
    BY <1>10
  <2> QED BY <2>1, <2>2, <2>3, <2>4, <1>10, <1>13 DEF Writing
\* Whoever is in the zone depends on the pulse, or on the block that waits for it.
<1>22. \A q \in InZone : qubitDep'[q] = cz \/ (two /\ qubitDep'[q] = cz + 1)
  <2> SUFFICES ASSUME NEW q \in InZone
               PROVE  qubitDep'[q] = cz \/ (two /\ qubitDep'[q] = cz + 1)
    OBVIOUS
  <2>1. q \in Atoms /\ qubitDep[q] < cz
    BY <1>11, <1>17, <1>18 DEF Before
  <2>2. q \in ToSet(block) => two
    BY DEF ToSet
  <2>3. BindExposed(dep2, cz)[q] = cz \/ (two /\ BindExposed(dep2, cz)[q] = cz + 1)
    <3>1. dep2[q] = (IF q \in ToSet(block) THEN cz + 1 ELSE dep1[q])
          /\ dep1[q] = (IF q \in Participants(gates) THEN cz ELSE qubitDep[q])
      BY <2>1, <1>3, <1>4
    <3>2. BindExposed(dep2, cz)[q] = IF dep2[q] < cz THEN cz ELSE dep2[q]
      BY <2>1 DEF BindExposed
    <3> QED BY <3>1, <3>2, <2>1, <2>2, <1>11
  <2>4. qubitDep'[q] = BindExposed(dep2, cz)[q] \/ qubitDep'[q] = (IF two THEN cz + 1 ELSE cz)
    BY <2>1, <1>10 DEF HoldReturning
  <2> QED BY <2>3, <2>4
<1>23. \A q \in Atoms \ InZone : qubitDep'[q] = qubitDep[q]
  <2> SUFFICES ASSUME NEW q \in Atoms \ InZone PROVE qubitDep'[q] = qubitDep[q]
    OBVIOUS
  <2>1. q \notin Participants(gates) /\ q \notin ToSet(block) /\ gateMap[q] = finalMap[q]
    BY <1>16
  <2>2. dep1[q] = qubitDep[q] /\ dep2[q] = dep1[q]
    BY <2>1, <1>3, <1>4
  <2>3. BindExposed(dep2, cz)[q] = dep2[q]
    BY DEF BindExposed
  <2> QED BY <2>1, <2>2, <2>3, <1>10 DEF HoldReturning
<1>24. czDeps \subseteq Before(cz) /\ \A q \in InZone : qubitDep[q] \in czDeps
  <2>1. \A q \in InZone : dep2[q] < cz => dep2[q] = qubitDep[q]
    <3> SUFFICES ASSUME NEW q \in InZone, dep2[q] < cz PROVE dep2[q] = qubitDep[q]
      OBVIOUS
    <3>1. dep2[q] = (IF q \in ToSet(block) THEN cz + 1 ELSE dep1[q])
          /\ dep1[q] = (IF q \in Participants(gates) THEN cz ELSE qubitDep[q])
      BY <1>3, <1>4, <1>17
    <3> QED BY <3>1, <1>11
  <2>2. BoundDeps(dep2, cz) \subseteq Before(cz)
    BY <2>1, <1>17, <1>18 DEF BoundDeps
  <2>3. {qubitDep[q] : q \in Participants(gates)} \subseteq Before(cz)
    BY <1>16, <1>17, <1>18
  <2>4. ASSUME NEW q \in InZone PROVE qubitDep[q] \in czDeps
    <3>1. CASE q \in Participants(gates)
      BY <3>1, <1>5
    <3>2. CASE q \notin Participants(gates)
      <4>1. dep2[q] = qubitDep[q] /\ dep2[q] < cz
        BY <3>2, <1>3, <1>4, <1>11, <1>16, <1>17, <1>18 DEF Before
      <4> QED BY <4>1, <1>5 DEF BoundDeps
    <3> QED BY <3>1, <3>2
  <2> QED BY <2>2, <2>3, <2>4, <1>5, <1>18
<1>25. two => cz \in oneDeps /\ oneDeps \subseteq Before(cz + 1)
  <2> SUFFICES ASSUME two PROVE cz \in oneDeps /\ oneDeps \subseteq Before(cz + 1)
    OBVIOUS
  <2>1. \A q \in ToSet(block) : dep1[q] = cz
    BY <1>3, <1>16, <1>17
  <2>2. ToSet(block) # {}
    <3>1. 1 \in DOMAIN block
      BY <1>16, EmptySeq, LenProperties
    <3> QED BY <3>1 DEF ToSet
  <2>3. cz \in oneDeps
    BY <2>1, <2>2, <1>6
  <2>4. cz \in Before(cz + 1) /\ Before(cz) \subseteq Before(cz + 1)
    BY <1>11 DEF Before
  <2> QED BY <2>1, <2>3, <2>4, <1>6, <1>18
<1>26. GoodInstruction(a, cz, exposures') /\ (two => GoodInstruction(b, cz + 1, exposures'))
  <2>1. cz \in DOMAIN exposures'
    BY <1>10
  <2>2. GoodInstruction(a, cz, exposures')
    BY <2>1, <1>8, <1>24 DEF GoodInstruction, Instruction
  <2>3. two => GoodInstruction(b, cz + 1, exposures')
    BY <1>9, <1>16, <1>25 DEF GoodInstruction, Instruction
  <2> QED BY <2>2, <2>3
<1>27. ChunkInv'
  <2>1. \A k \in Len(chunk) + 1 .. Len(chunk') : GoodInstruction(chunk'[k], base + k - 1, exposures')
    <3> TAKE k \in Len(chunk) + 1 .. Len(chunk')
    <3>1. CASE k = Len(chunk) + 1
      <4>1. base + k - 1 = cz
        BY <3>1, <1>11
      <4> QED BY <3>1, <4>1, <1>13, <1>26
    <3>2. CASE k # Len(chunk) + 1
      <4>1. two /\ k = Len(chunk) + 2 /\ base + k - 1 = cz + 1
        BY <3>2, <1>11, <1>13
      <4> QED BY <4>1, <1>13, <1>26
    <3> QED BY <3>1, <3>2
  <2> QED BY <2>1, <1>1, <1>21, ChunkGrows
<1>28. TypeInv'
  <2>1. Before(cz) \subseteq Before(m) /\ cz \in Before(m) /\ (two => cz + 1 \in Before(m))
    BY <1>11, <1>15 DEF Before
  <2>2. qubitDep' \in [Atoms -> Before(m)]
    <3>1. \A q \in Atoms : qubitDep'[q] \in Before(m)
      BY <2>1, <1>18, <1>22, <1>23
    <3>2. qubitDep' = [q \in Atoms |-> qubitDep'[q]]
      BY <1>10 DEF HoldReturning
    <3> QED BY <3>1, <3>2
  <2>3. RouterType(m, window, qubitDep', siteDep, aodDep, aodFree, rydDep', lastOneQ')
    <3>1. RouterType(cz, window, qubitDep, siteDep, aodDep, aodFree, rydDep, lastOneQ)
      BY <1>1, <1>2 DEF TypeInv
    <3>2. RouterType(m, window, qubitDep, siteDep, aodDep, aodFree, rydDep, lastOneQ)
      BY <3>1, <1>11, <1>15, RouterTypeGrows
    <3> QED BY <3>2, <2>1, <2>2, <1>10 DEF RouterType
  <2>4. HistoryType(m, journal, exposures')
    <3>1. HistoryType(cz, journal, exposures)
      BY <1>1, <1>2 DEF TypeInv
    <3>2. HistoryType(m, journal, exposures)
      BY <3>1, <1>11, <1>15, HistoryTypeGrows
    <3> QED BY <3>2, <2>1, <1>10, <1>17 DEF HistoryType
  <2>5. LedgerType(m, instructions, aodEnd, oneQEnd, rydEnd, events)
    <3>1. LedgerType(cz, instructions, aodEnd, oneQEnd, rydEnd, events)
      BY <1>1, <1>2 DEF TypeInv
    <3> QED BY <3>1, <1>11, <1>15, LedgerTypeGrows
  <2>6. UntimedId' = UntimedId
    BY <1>10 DEF UntimedId
  <2>7. pending' \subseteq Atoms
    BY <1>10
  <2> QED BY <2>3, <2>4, <2>5, <2>6, <2>7, <1>1, <1>10, <1>14 DEF TypeInv, ledgerVars
<1>29. StageInv'
  <2>1. /\ layer' = layer /\ base' = base /\ timed' = timed /\ nextId' = nextId
        /\ replayed' = replayed /\ call' = call
    BY <1>10 DEF ledgerVars
  <2>2. timed \in 0 .. Len(chunk') /\ replayed \in 0 .. Len(chunk') /\ timed < Len(chunk')
    BY <1>11, <1>12, <1>13
  <2> QED BY <1>1, <1>10, <1>12, <2>1, <2>2 DEF StageInv, Ledger!Booking
<1>30. SeatInv'
  BY <1>10 DEF SeatInv
<1>31. \A q \in Atoms : \A d : d = qubitDep[q] => \A i \in Touched(q) : After(q, i, d)'
  <2> SUFFICES ASSUME NEW q \in Atoms, NEW d, d = qubitDep[q], NEW i \in Touched(q)
               PROVE  After(q, i, d)'
    OBVIOUS
  <2>1. d \in Before(NextInst) /\ After(q, i, d)
    BY <1>1 DEF TypeInv, RouterType, OrderInv
  <2> QED BY <2>1, <1>1, <1>21, AfterGrows
<1>32. /\ At(cz)'.deps = czDeps
       /\ \A n : two /\ n = cz + 1 => At(n)'.deps = oneDeps
  <2>1. (cz - base') + 1 = Len(chunk) + 1
    BY <1>10, <1>11
  <2>2. a.deps = czDeps /\ b.deps = oneDeps
    BY <1>8, <1>9 DEF Instruction
  <2>3. At(cz)' = chunk'[(cz - base') + 1]
    BY DEF At
  <2>4. ASSUME NEW n, two, n = cz + 1 PROVE At(n)'.deps = oneDeps
    <3>1. (n - base') + 1 = Len(chunk) + 2
      BY <2>4, <1>10, <1>11
    <3>2. At(n)' = chunk'[(n - base') + 1]
      BY DEF At
    <3> QED BY <2>2, <2>4, <3>1, <3>2, <1>13
  <2> QED BY <2>1, <2>2, <2>3, <2>4, <1>13
<1>33. OrderInv'
  <2>1. ASSUME NEW q \in Atoms, NEW i \in Touched(q)', NEW d, d = qubitDep'[q]
        PROVE  After(q, i, d)'
    <3>1. CASE q \in InZone
      <4>1. base' <= cz /\ cz \in Touched(q)' /\ i <= cz
        <5>1. i \in Before(cz) \/ i = cz
          BY <1>19, <1>20
        <5>2. cz \in Touched(q)'
          BY <3>1, <1>19
        <5> QED BY <5>1, <5>2, <1>10, <1>11 DEF Before
      <4>2. CASE d = cz
        <5>1. ~(d < base')
          BY <4>1, <4>2, <1>10, <1>11
        <5> QED BY <5>1, <4>1, <4>2 DEF After
      <4>3. CASE two /\ d = cz + 1
        <5>1. cz \in At(d)'.deps /\ ~(d < base')
          BY <4>1, <4>3, <1>10, <1>11, <1>25, <1>32
        <5> QED BY <5>1, <4>1 DEF After
      <4> QED BY <2>1, <3>1, <4>2, <4>3, <1>22
    <3>2. CASE q \notin InZone
      <4>1. d = qubitDep[q] /\ i \in Touched(q)
        BY <3>2, <2>1, <1>19, <1>23
      <4> QED BY <4>1, <1>31
    <3> QED BY <3>1, <3>2
  <2>2. ASSUME NEW q \in Atoms, NEW n \in Touched(q)', NEW i \in Touched(q)', base' <= n, i < n
        PROVE  \E d \in At(n)'.deps : After(q, i, d)'
    <3>1. n \in Before(cz) \/ n = cz
      BY <1>19, <1>20
    <3>2. i \in Before(cz) \/ i = cz
      BY <1>19, <1>20
    <3>3. CASE n = cz
      <4>1. i \in Touched(q) /\ q \in InZone
        <5>1. i # cz
          BY <3>3, <2>2, <1>11
        <5>2. q \in InZone
          BY <3>3, <1>11, <1>19, <1>20 DEF Before
        <5> QED BY <5>1, <5>2, <1>19
      <4>2. PICK d : d = qubitDep[q]
        OBVIOUS
      <4>3. d \in czDeps /\ After(q, i, d)'
        BY <4>1, <4>2, <1>24, <1>31
      <4> QED BY <4>3, <3>3, <1>32
    <3>4. CASE n # cz
      <4>1. n < NextInst /\ i < NextInst /\ base <= n
        BY <3>1, <3>2, <3>4, <2>2, <1>2, <1>10, <1>11 DEF Before
      <4> QED BY <4>1, <2>2, <1>1, <1>21, OrderKept
    <3> QED BY <3>3, <3>4
  <2>3. ASSUME NEW q \in Atoms, NEW i \in Touched(q)' PROVE After(q, i, qubitDep[q])'
    <3>1. PICK d : d = qubitDep'[q]
      OBVIOUS
    <3>2. After(q, i, d)'
      BY <2>1, <3>1
    <3> QED BY <3>1, <3>2 DEF After
  <2> QED BY <2>2, <2>3 DEF OrderInv
<1>34. ReplayInv' /\ CallInv' /\ HistoryInv'
  BY <1>1, <1>12, <1>21, WritingReplay
<1>35. SavedInv'
  BY <1>1, <1>10 DEF SavedInv
<1> QED BY <1>27, <1>28, <1>29, <1>30, <1>33, <1>34, <1>35 DEF IInv

-----------------------------------------------------------------------------
(***************************************************************************)
(* aod_assignment gives the instructions their times.                      *)
(***************************************************************************)

\* The instruction about to be timed.
LEMMA UntimedFacts ==
  ASSUME IInv, Assigning
  PROVE  /\ timed + 1 \in 1 .. Len(chunk) /\ timed \in Nat /\ Len(chunk) \in Nat
         /\ base \in Nat /\ base > 0 /\ UntimedId = base + timed /\ UntimedId \in Nat
         /\ UntimedId < NextInst /\ NextInst = base + Len(chunk)
         /\ GoodInstruction(Untimed, UntimedId, exposures)
         /\ replayed = 0 /\ call = Ledger!Idle /\ nextId = base
         /\ layer < Len(Program) /\ timed < Len(chunk)
<1>1. /\ TypeInv /\ StageInv /\ ChunkInv
  BY DEF IInv
<1>2. /\ base \in Nat /\ Len(chunk) \in Nat /\ timed \in Nat
  BY <1>1, Numbers
<1>3. /\ timed < Len(chunk) /\ base > 0 /\ replayed = 0 /\ call = Ledger!Idle
      /\ nextId = base + replayed /\ layer < Len(Program)
  BY <1>1 DEF StageInv, Assigning
<1>4. timed + 1 \in 1 .. Len(chunk) /\ base + (timed + 1) - 1 = UntimedId
  BY <1>2, <1>3 DEF UntimedId
<1>5. GoodInstruction(Untimed, UntimedId, exposures)
  <2>1. PICK k \in 1 .. Len(chunk) : k = timed + 1
    BY <1>4
  <2>2. GoodInstruction(chunk[k], base + k - 1, exposures)
    BY <1>1 DEF ChunkInv
  <2> QED BY <1>4, <2>1, <2>2 DEF Untimed
<1> QED BY <1>2, <1>3, <1>4, <1>5 DEF UntimedId, NextInst

Timing(summary) ==
  /\ SetTimes(summary) /\ summary.end \in Nat /\ summary.pickup \in Nat
  /\ UNCHANGED <<layer, layerVars, pending, base, replayed, qubitDep, siteDep, rydDep,
                 lastOneQ, crashVars, history>>
  /\ UNCHANGED ledgerVars
  /\ IsSeq(chunk') /\ Len(chunk') = Len(chunk)
  /\ \A k \in 1 .. Len(chunk) : k # timed + 1 => chunk'[k] = chunk[k]
  /\ GoodInstruction(chunk'[timed + 1], UntimedId, exposures)
  /\ Untimed.deps \subseteq chunk'[timed + 1].deps
  /\ aodDep' \in [Aods -> Before(UntimedId + 1)] /\ aodFree' \in [Aods -> Nat]

LEMMA TimingStep ==
  ASSUME IInv, Assigning, NEW summary, Timing(summary)
  PROVE  IInv'
<1> USE DEF layerVars, crashVars, history
<1>1. /\ TypeInv /\ StageInv /\ SeatInv /\ ChunkInv /\ OrderInv
      /\ ReplayInv /\ CallInv /\ HistoryInv /\ SavedInv
  BY DEF IInv
<1>2. /\ timed + 1 \in 1 .. Len(chunk) /\ timed \in Nat /\ Len(chunk) \in Nat
      /\ base \in Nat /\ base > 0 /\ UntimedId = base + timed /\ UntimedId \in Nat
      /\ UntimedId < NextInst /\ NextInst = base + Len(chunk)
      /\ replayed = 0 /\ call = Ledger!Idle /\ nextId = base
      /\ layer < Len(Program) /\ timed < Len(chunk)
  BY UntimedFacts
<1>3. /\ UNCHANGED <<layer, layerVars, pending, base, replayed, qubitDep, siteDep, rydDep,
                     lastOneQ, crashVars, history>>
      /\ UNCHANGED ledgerVars
      /\ IsSeq(chunk') /\ Len(chunk') = Len(chunk)
      /\ \A k \in 1 .. Len(chunk) : k # timed + 1 => chunk'[k] = chunk[k]
      /\ GoodInstruction(chunk'[timed + 1], UntimedId, exposures)
      /\ Untimed.deps \subseteq chunk'[timed + 1].deps
      /\ aodDep' \in [Aods -> Before(UntimedId + 1)] /\ aodFree' \in [Aods -> Nat]
      /\ summary.end \in Nat /\ summary.pickup \in Nat
      /\ window' = [id \in DOMAIN window \cup {UntimedId} |->
                      IF id = UntimedId THEN summary ELSE window[id]]
      /\ timed' = timed + 1
      /\ stage' = IF timed + 1 = Len(chunk) THEN "replay" ELSE stage
  BY DEF Timing, SetTimes
<1>4. NextInst' = NextInst /\ UntimedId' = UntimedId + 1 /\ UntimedId + 1 <= NextInst
  <2>1. base' = base /\ Len(chunk') = Len(chunk) /\ timed' = timed + 1
    BY <1>3
  <2>2. base + (timed + 1) = (base + timed) + 1
    BY <1>2
  <2>3. NextInst' = NextInst
    BY <2>1 DEF NextInst
  <2>4. UntimedId' = UntimedId + 1
    BY <2>1, <2>2 DEF UntimedId
  <2>5. UntimedId + 1 <= NextInst
    BY <1>2
  <2> QED BY <2>3, <2>4, <2>5
<1>5. TypeInv'
  <2>1. RouterType(NextInst, window', qubitDep, siteDep, aodDep', aodFree', rydDep, lastOneQ)
    <3>1. RouterType(NextInst, window, qubitDep, siteDep, aodDep, aodFree, rydDep, lastOneQ)
      BY <1>1 DEF TypeInv
    <3>2. UntimedId \in Before(NextInst) /\ Before(UntimedId + 1) \subseteq Before(NextInst)
      BY <1>2, <1>4 DEF Before
    <3>3. aodDep' \in [Aods -> Before(NextInst)]
      BY <3>2, <1>3
    <3>4. /\ DOMAIN window' \subseteq Before(NextInst)
          /\ \A id \in DOMAIN window' : window'[id].end \in Nat /\ window'[id].pickup \in Nat
      BY <3>1, <3>2, <1>3 DEF RouterType
    <3> QED BY <3>1, <3>3, <3>4, <1>3 DEF RouterType
  <2> QED BY <2>1, <1>1, <1>3, <1>4 DEF TypeInv, ledgerVars
<1>6. StageInv'
  <2>1. /\ layer' = layer /\ base' = base /\ nextId' = nextId /\ replayed' = replayed /\ call' = call
        /\ Len(chunk') = Len(chunk) /\ timed' = timed + 1 /\ timed' \in 0 .. Len(chunk)
        /\ stage' = IF timed + 1 = Len(chunk) THEN "replay" ELSE "back"
    BY <1>2, <1>3 DEF ledgerVars, Assigning
  <2>2. ~Ledger!Booking'
    BY <2>1, <1>2, CallStates DEF Ledger!Booking
  <2>3. 0 \in 0 .. Len(chunk) /\ nextId = base + 0 /\ (timed + 1 # Len(chunk) => timed + 1 < Len(chunk))
    BY <1>2
  <2> QED BY <1>2, <2>1, <2>2, <2>3 DEF StageInv
<1>7. SeatInv'
  BY <1>3 DEF SeatInv, Assigning
<1>8. ChunkInv'
  <2> SUFFICES ASSUME NEW k \in 1 .. Len(chunk)
               PROVE  GoodInstruction(chunk'[k], base + k - 1, exposures)
    BY <1>3 DEF ChunkInv
  <2>1. CASE k = timed + 1
    <3>1. base + k - 1 = UntimedId
      BY <2>1, <1>2
    <3> QED BY <2>1, <3>1, <1>3
  <2>2. CASE k # timed + 1
    BY <2>2, <1>1, <1>3 DEF ChunkInv
  <2> QED BY <2>1, <2>2
<1>9. \A q : Touched(q)' = Touched(q)
  BY <1>3 DEF Touched
<1>10. ASSUME NEW n \in Before(NextInst), base <= n PROVE At(n).deps \subseteq At(n)'.deps
  <2>1. n - base + 1 \in 1 .. Len(chunk)
    BY <1>2, <1>10 DEF Before
  <2>2. At(n)' = chunk'[n - base + 1] /\ At(n) = chunk[n - base + 1]
    BY <1>3 DEF At
  <2>3. CASE n - base + 1 = timed + 1
    BY <2>2, <2>3, <1>3 DEF Untimed
  <2>4. CASE n - base + 1 # timed + 1
    BY <2>1, <2>2, <2>4, <1>3
  <2> QED BY <2>3, <2>4
<1>11. ASSUME NEW q, NEW i, NEW d \in Before(NextInst), After(q, i, d) PROVE After(q, i, d)'
  <2>1. base' = base /\ events' = events /\ instructions' = instructions
    BY <1>3 DEF ledgerVars
  <2>2. CASE d < base
    BY <2>1, <2>2, <1>11 DEF After
  <2>3. CASE ~(d < base)
    <3>1. At(d).deps \subseteq At(d)'.deps
      <4>1. d \in Nat /\ base \in Nat
        BY <1>2 DEF Before
      <4>2. base <= d
        BY <2>3, <4>1
      <4> QED BY <4>2, <1>10
    <3> QED BY <2>1, <2>3, <3>1, <1>9, <1>11 DEF After
  <2> QED BY <2>2, <2>3
<1>12. OrderInv'
  <2>1. ASSUME NEW q \in Atoms, NEW i \in Touched(q) PROVE After(q, i, qubitDep[q])'
    <3>1. PICK d : d = qubitDep[q]
      OBVIOUS
    <3>2. d \in Before(NextInst) /\ After(q, i, d)
      BY <3>1, <1>1 DEF TypeInv, RouterType, OrderInv
    <3>3. After(q, i, d)'
      BY <3>2, <1>11
    <3>4. d = qubitDep'[q]
      BY <3>1, <1>3
    <3> QED BY <3>3, <3>4 DEF After
  <2>2. ASSUME NEW q \in Atoms, NEW n \in Touched(q), NEW i \in Touched(q), base <= n, i < n
        PROVE  \E d \in At(n)'.deps : After(q, i, d)'
    <3>1. PICK d \in At(n).deps : After(q, i, d)
      BY <2>2, <1>1 DEF OrderInv
    <3>2. n \in Before(NextInst)
      BY <1>1, <1>2, TouchedWritten DEF TypeInv, Touched
    <3>3. d \in Before(NextInst)
      <4>1. d \in Before(n)
        BY <3>1, <3>2, <2>2, <1>1, DepsBefore
      <4> QED BY <4>1, <3>2, <1>2 DEF Before
    <3> QED BY <3>1, <3>2, <3>3, <2>2, <1>10, <1>11
  <2> QED BY <2>1, <2>2, <1>3, <1>9 DEF OrderInv
<1>13. ReplayInv'
  <2>1. base' .. nextId' - 1 = {}
    BY <1>2, <1>3 DEF ledgerVars
  <2> QED BY <2>1 DEF ReplayInv
<1>14. CallInv'
  <2>1. call' = call /\ events' = events /\ nextId' = nextId
    BY <1>3 DEF ledgerVars
  <2> QED BY <2>1, <1>1, <1>2, CallStates DEF CallInv
<1>15. HistoryInv'
  BY <1>1, <1>3 DEF HistoryInv, Chained, PulsesExposed, ledgerVars
<1>16. SavedInv'
  BY <1>1, <1>3 DEF SavedInv
<1> QED BY <1>5, <1>6, <1>7, <1>8, <1>12, <1>13, <1>14, <1>15, <1>16 DEF IInv

\* Times the router reads.
LEMMA DepEndsType ==
  ASSUME TypeInv, Known(Untimed)
  PROVE  DepEnds(Untimed) \subseteq Nat
<1>1. \A d \in Untimed.deps : window[d].end \in Nat
  BY DEF Known, TypeInv, RouterType
<1> QED BY <1>1 DEF DepEnds

LEMMA SiteTimesType ==
  ASSUME TypeInv, Known(Untimed), Untimed.kind = "aod",
         GoodInstruction(Untimed, UntimedId, exposures)
  PROVE  SiteTimes(Untimed) \subseteq Int
<1>1. PickupOffset(Untimed.job) \in Nat /\ DropOffset(Untimed.job) \in Nat
  BY DEF GoodInstruction
<1>2. \A d \in Untimed.sites : d # UntimedId => window[d].end \in Nat /\ window[d].pickup \in Nat
  BY DEF Known, TypeInv, RouterType
<1> QED BY <1>1, <1>2 DEF SiteTimes

\* How long a job takes.
LEMMA DurationType ==
  ASSUME NEW job, GoodJob(job)
  PROVE  Duration(job) \in Nat
<1>1. job \in Seq(ToSet(job)) /\ job # <<>>
  BY DEF GoodJob, IsSeq
<1>2. Len(job) \in DOMAIN job
  BY <1>1, EmptySeq, LenProperties
<1> QED BY <1>2 DEF GoodJob, Duration

LEMMA TimeJobStep ==
  ASSUME IInv, Assigning, Known(Untimed), TimeJob(Untimed),
         UNCHANGED <<layer, layerVars, pending, base, replayed, qubitDep, siteDep, rydDep,
                     lastOneQ, crashVars, history>>,
         UNCHANGED ledgerVars
  PROVE  IInv'
<1>1. PICK r \in Aods, begin \in DepEnds(Untimed) \cup SiteTimes(Untimed) \cup {aodFree[u] : u \in Aods} :
        /\ IsLatest(begin, DepEnds(Untimed) \cup SiteTimes(Untimed) \cup {aodFree[r]})
        /\ chunk' = [chunk EXCEPT ![timed + 1].deps = @ \cup {aodDep[r]}, ![timed + 1].aod = r]
        /\ aodDep' = [aodDep EXCEPT ![r] = UntimedId]
        /\ aodFree' = [aodFree EXCEPT ![r] = begin + Duration(Untimed.job)]
        /\ SetTimes(Summary("aod", begin, begin + Duration(Untimed.job),
                            begin + PickupOffset(Untimed.job)))
  BY DEF TimeJob
<1>2. /\ timed + 1 \in 1 .. Len(chunk) /\ Len(chunk) \in Nat /\ UntimedId \in Nat
      /\ GoodInstruction(Untimed, UntimedId, exposures) /\ Untimed.kind = "aod"
  BY UntimedFacts DEF TimeJob
<1>3. TypeInv /\ ChunkInv
  BY DEF IInv
<1>4. begin \in Nat
  <2>1. aodFree \in [Aods -> Nat]
    BY <1>3 DEF TypeInv, RouterType
  <2>2. DepEnds(Untimed) \subseteq Nat /\ SiteTimes(Untimed) \subseteq Int
    BY <1>2, <1>3, DepEndsType, SiteTimesType
  <2>3. begin \in Int /\ aodFree[r] <= begin
    BY <1>1, <2>1, <2>2 DEF IsLatest
  <2> QED BY <2>1, <2>3
<1>5. Duration(Untimed.job) \in Nat /\ PickupOffset(Untimed.job) \in Nat
  BY <1>2, DurationType DEF GoodInstruction
<1>6. PICK summary : summary = Summary("aod", begin, begin + Duration(Untimed.job),
                                       begin + PickupOffset(Untimed.job))
  OBVIOUS
<1>7. SetTimes(summary) /\ summary.end \in Nat /\ summary.pickup \in Nat
  BY <1>1, <1>4, <1>5, <1>6 DEF Summary
<1>8. PICK i : i = [Untimed EXCEPT !.deps = @ \cup {aodDep[r]}, !.aod = r]
  OBVIOUS
<1>9. chunk' = [chunk EXCEPT ![timed + 1] = i]
  BY <1>1, <1>8 DEF Untimed
<1>10. /\ IsSeq(chunk') /\ Len(chunk') = Len(chunk) /\ chunk'[timed + 1] = i
       /\ \A k \in 1 .. Len(chunk) : k # timed + 1 => chunk'[k] = chunk[k]
  <2>1. PICK s : s = chunk /\ s \in Seq(ToSet(s) \cup {i})
    <3>1. chunk \in Seq(ToSet(chunk))
      BY <1>3 DEF ChunkInv, IsSeq
    <3> QED BY <3>1, SeqMonotonic
  <2>2. PICK t : t = [s EXCEPT ![timed + 1] = i]
    OBVIOUS
  <2>3. /\ t \in Seq(ToSet(s) \cup {i}) /\ Len(t) = Len(s)
        /\ \A j \in 1 .. Len(s) : t[j] = IF j = timed + 1 THEN i ELSE s[j]
    BY <1>2, <2>1, <2>2, ExceptSeq
  <2>4. t \in Seq(ToSet(t))
    <3>1. Len(t) \in Nat /\ DOMAIN t = 1 .. Len(t) /\ t \in [1 .. Len(t) -> ToSet(s) \cup {i}]
      BY <2>3, LenProperties
    <3>2. t \in [1 .. Len(t) -> ToSet(t)]
      BY <3>1 DEF ToSet
    <3> QED BY <3>1, <3>2, SeqDef
  <2> QED BY <2>1, <2>2, <2>3, <2>4, <1>2, <1>9 DEF IsSeq
<1>11. aodDep \in [Aods -> Before(UntimedId)] /\ aodFree \in [Aods -> Nat]
  BY <1>3 DEF TypeInv, RouterType
<1>12. i.deps = Untimed.deps \cup {aodDep[r]} /\ GoodInstruction(i, UntimedId, exposures)
  <2>1. PICK u : u = Untimed
    OBVIOUS
  <2>2. /\ u = [kind |-> u.kind, atoms |-> u.atoms, job |-> u.job, deps |-> u.deps,
                sites |-> u.sites, aod |-> u.aod]
        /\ i = [u EXCEPT !.deps = @ \cup {aodDep[r]}, !.aod = r]
    BY <2>1, <1>2, <1>8 DEF GoodInstruction
  <2>3. i = [kind |-> u.kind, atoms |-> u.atoms, job |-> u.job, deps |-> u.deps \cup {aodDep[r]},
             sites |-> u.sites, aod |-> r]
    BY <2>2
  <2>4. aodDep[r] \in Before(UntimedId)
    BY <1>11
  <2> QED BY <2>1, <2>3, <2>4, <1>2 DEF GoodInstruction
<1>13. aodDep' \in [Aods -> Before(UntimedId + 1)] /\ aodFree' \in [Aods -> Nat]
  <2>1. Before(UntimedId) \subseteq Before(UntimedId + 1) /\ UntimedId \in Before(UntimedId + 1)
    BY <1>2 DEF Before
  <2>2. begin + Duration(Untimed.job) \in Nat
    BY <1>4, <1>5
  <2> QED BY <2>1, <2>2, <1>1, <1>11
<1>14. Timing(summary)
  BY <1>7, <1>10, <1>12, <1>13 DEF Timing
<1> QED BY <1>14, TimingStep

LEMMA TimeGateStep ==
  ASSUME IInv, Assigning, Known(Untimed), TimeGate(Untimed),
         UNCHANGED <<layer, layerVars, pending, base, replayed, qubitDep, siteDep, rydDep,
                     lastOneQ, crashVars, history>>,
         UNCHANGED ledgerVars
  PROVE  IInv'
<1>1. PICK begin \in DepEnds(Untimed) :
        SetTimes(Summary(Untimed.kind, begin, begin + GateTime(Untimed), 0))
  BY DEF TimeGate
<1>2. /\ GoodInstruction(Untimed, UntimedId, exposures) /\ UntimedId \in Nat
      /\ Untimed.kind # "aod" /\ UNCHANGED <<chunk, aodDep, aodFree>>
  BY UntimedFacts DEF TimeGate
<1>3. TypeInv /\ ChunkInv
  BY DEF IInv
<1>4. begin \in Nat
  BY <1>1, <1>3, DepEndsType
<1>5. GateTime(Untimed) \in Nat
  <2>1. OneQTime \in Nat /\ RydTime \in Nat /\ OneQCommon \in Nat
    BY RouteAssumption
  <2>2. CASE Untimed.kind = "cz"
    BY <2>1, <2>2 DEF GateTime
  <2>3. CASE Untimed.kind # "cz"
    <3>1. Untimed.atoms \in Seq(Atoms)
      BY <1>2, <2>3 DEF GoodInstruction
    <3>2. Len(Untimed.atoms) \in Nat
      BY <3>1, LenProperties
    <3>3. \A x, y \in Nat : x * y \in Nat
      OBVIOUS
    <3>4. Len(Untimed.atoms) * OneQTime \in Nat
      BY <2>1, <3>2, <3>3
    <3> QED BY <2>1, <2>3, <3>4 DEF GateTime
  <2> QED BY <2>2, <2>3
<1>6. PICK summary : summary = Summary(Untimed.kind, begin, begin + GateTime(Untimed), 0)
  OBVIOUS
<1>7. SetTimes(summary) /\ summary.end \in Nat /\ summary.pickup \in Nat
  BY <1>1, <1>4, <1>5, <1>6 DEF Summary
<1>8. aodDep' \in [Aods -> Before(UntimedId + 1)] /\ aodFree' \in [Aods -> Nat]
  <2>1. Before(UntimedId) \subseteq Before(UntimedId + 1)
    BY <1>2 DEF Before
  <2> QED BY <2>1, <1>2, <1>3 DEF TypeInv, RouterType
<1>9. Timing(summary)
  BY <1>2, <1>3, <1>7, <1>8 DEF Timing, ChunkInv, Untimed
<1> QED BY <1>9, TimingStep

LEMMA AssignTimesStep == IInv /\ AssignTimes => IInv'
<1> SUFFICES ASSUME IInv, AssignTimes PROVE IInv'
  OBVIOUS
<1>1. CASE ~Known(Untimed)
  <2>1. Fail /\ UNCHANGED ledgerVars /\ call = Ledger!Idle
    BY <1>1, UntimedFacts DEF AssignTimes
  <2> QED BY <2>1, FailStep
<1>2. CASE Known(Untimed)
  BY <1>2, TimeJobStep, TimeGateStep DEF AssignTimes
<1> QED BY <1>1, <1>2

-----------------------------------------------------------------------------
(***************************************************************************)
(* A call of the ledger begins.                                            *)
(***************************************************************************)

\* Who waits for a replayed instruction waits for what touched its atoms.
LEMMA Reached ==
  ASSUME TypeInv, StageInv, ChunkInv, ReplayInv, NEW q \in Atoms, NEW i,
         NEW d \in Before(nextId), After(q, i, d), NEW e \in events, e.id = i, i \in Touched(q)
  PROVE  d \in DOMAIN instructions /\ e.stop <= instructions[d].end
<1>1. /\ base \in Nat /\ nextId \in Nat /\ NextInst \in Nat /\ nextId <= NextInst
  BY Numbers
<1>2. CASE d < base
  BY <1>2 DEF After
<1>3. CASE ~(d < base)
  <2>1. d \in base .. nextId - 1 /\ d \in Before(NextInst) /\ base <= d
    BY <1>1, <1>3 DEF Before
  <2>2. /\ d \in DOMAIN instructions
        /\ \A c \in At(d).deps : c \in DOMAIN instructions
                                 /\ instructions[c].end <= instructions[d].begin
    BY <2>1 DEF ReplayInv
  <2>3. PICK c \in {d} \cup At(d).deps : base <= c /\ c \in Touched(q) /\ i <= c
    BY <1>3 DEF After
  <2>4. c = d \/ (c \in At(d).deps /\ c \in Before(d))
    BY <2>1, <2>3, DepsBefore
  <2>5. c \in base .. nextId - 1
    BY <2>1, <2>3, <2>4, <1>1 DEF Before
  <2>6. e.stop <= instructions[c].end
    BY <2>3, <2>5 DEF ReplayInv
  <2>7. CASE c = d
    BY <2>2, <2>6, <2>7
  <2>8. CASE c \in At(d).deps
    <3>1. /\ c \in DOMAIN instructions /\ instructions[c].end <= instructions[d].begin
      BY <2>2, <2>8
    <3>2. Interval(instructions[c]) /\ Interval(instructions[d])
      BY <2>2, <3>1 DEF TypeInv, LedgerType
    <3>3. e.stop \in Nat
      BY DEF TypeInv, LedgerType
    <3> QED BY <2>2, <2>6, <3>1, <3>2, <3>3 DEF Interval
  <2> QED BY <2>4, <2>7, <2>8
<1> QED BY <1>2, <1>3

\* The instruction the ledger is at.
LEMMA ReplayedFacts ==
  ASSUME IInv, Replaying
  PROVE  /\ base \in Nat /\ nextId \in Nat /\ NextInst \in Nat /\ base <= nextId
         /\ nextId \in Before(NextInst) /\ nextId = base + replayed
         /\ Replayed = At(nextId) /\ GoodInstruction(Replayed, nextId, exposures)
         /\ stage = "replay" /\ replayed + 1 \in 0 .. Len(chunk)
         /\ replayed \in Nat /\ Len(chunk) \in Nat /\ NextInst = base + Len(chunk)
<1>1. TypeInv /\ StageInv /\ ChunkInv
  BY DEF IInv
<1>2. /\ Len(chunk) \in Nat /\ base \in Nat /\ nextId \in Nat /\ NextInst \in Nat
      /\ replayed \in Nat /\ nextId = base + replayed /\ NextInst = base + Len(chunk)
  BY <1>1, Numbers DEF NextInst
<1>3. stage = "replay" /\ replayed < Len(chunk)
  BY DEF Replaying
<1>4. /\ base <= nextId /\ nextId \in Before(NextInst) /\ replayed + 1 = nextId - base + 1
      /\ replayed + 1 \in 0 .. Len(chunk)
  BY <1>2, <1>3 DEF Before
<1>5. Replayed = At(nextId)
  BY <1>4 DEF Replayed, At
<1>6. GoodInstruction(At(nextId), nextId, exposures)
  BY <1>1, <1>4, DepsBefore
<1> QED BY <1>2, <1>3, <1>4, <1>5, <1>6

\* After its dependencies, an instruction is after whatever touched its atoms.
LEMMA AfterDependencies ==
  ASSUME IInv, Replaying, NEW begin \in Nat, Replayed.deps \subseteq DOMAIN instructions,
         \A d \in Replayed.deps : instructions[d].end <= begin
  PROVE  \A q \in Atoms : \A e \in events :
           nextId \in Touched(q) /\ e.id \in Touched(q) /\ e.id < nextId => e.stop <= begin
<1> SUFFICES ASSUME NEW q \in Atoms, NEW e \in events,
                    nextId \in Touched(q), e.id \in Touched(q), e.id < nextId
             PROVE  e.stop <= begin
  OBVIOUS
<1>1. TypeInv /\ StageInv /\ ChunkInv /\ OrderInv /\ ReplayInv
  BY DEF IInv
<1>2. base <= nextId /\ Replayed = At(nextId) /\ GoodInstruction(Replayed, nextId, exposures)
  BY ReplayedFacts
<1>3. PICK d \in Replayed.deps : After(q, e.id, d)
  BY <1>1, <1>2 DEF OrderInv
<1>4. d \in Before(nextId)
  BY <1>2, <1>3 DEF GoodInstruction
<1>5. d \in DOMAIN instructions /\ e.stop <= instructions[d].end
  BY <1>1, <1>3, <1>4, Reached
<1>6. instructions[d].end <= begin /\ instructions[d].end \in Nat /\ e.stop \in Nat
  BY <1>1, <1>3, <1>5 DEF TypeInv, LedgerType, Interval
<1> QED BY <1>5, <1>6

\* What a booking of the current call is like.
Booked(b, t) ==
  /\ b.id = nextId /\ b.start \in Nat /\ b.stop \in Nat
  /\ t.begin <= b.start /\ b.stop <= t.end
  /\ b.type = "two_qubit_gate" => nextId \in DOMAIN exposures

Entered(t, b) ==
  /\ call' = [state |-> "booking", timing |-> t, booking |-> b, done |-> 0]
  /\ UNCHANGED <<instructions, nextId, traceEnd, activeUnion, atomEnd, aodEnd, oneQEnd,
                 rydEnd, events>>
  /\ UNCHANGED <<stage, replayed, routerVars>>

LEMMA EnterStep ==
  ASSUME IInv, Replaying, call = Ledger!Idle, KnownToLedger,
         NEW t, NEW b, Entered(t, b), Interval(t), IsSeq(b),
         \A k \in 1 .. Len(b) : Booked(b[k], t),
         \A d \in Replayed.deps : instructions[d].end <= t.begin
  PROVE  IInv'
<1> USE DEF routerVars, layerVars, depVars, crashVars, history
<1>1. /\ TypeInv /\ StageInv /\ SeatInv /\ ChunkInv /\ OrderInv
      /\ ReplayInv /\ CallInv /\ HistoryInv /\ SavedInv
  BY DEF IInv
<1>2. /\ UNCHANGED <<stage, layer, boundary, gateMap, finalMap, gates, block, pending, base, chunk,
                     timed, replayed, window, qubitDep, siteDep, aodDep, aodFree, rydDep, lastOneQ,
                     saved, crashes, journal, exposures>>
      /\ UNCHANGED <<instructions, nextId, aodEnd, oneQEnd, rydEnd, events>>
      /\ call' = [state |-> "booking", timing |-> t, booking |-> b, done |-> 0]
  BY DEF Entered
<1>3. NextInst' = NextInst /\ UntimedId' = UntimedId
  BY <1>2 DEF NextInst, UntimedId
<1>4. TypeInv'
  BY <1>1, <1>2, <1>3 DEF TypeInv
<1>5. StageInv' /\ SeatInv'
  BY <1>1, <1>2 DEF StageInv, SeatInv, InZone, Replaying
<1>6. ChunkInv' /\ SavedInv'
  BY <1>1, <1>2 DEF ChunkInv, SavedInv
<1>7. \A q : Touched(q)' = Touched(q)
  BY <1>2 DEF Touched
<1>8. \A d : At(d)' = At(d)
  BY <1>2 DEF At
<1>9. \A q, i, d : After(q, i, d)' <=> After(q, i, d)
  BY <1>2, <1>7, <1>8 DEF After
<1>10. OrderInv'
  BY <1>1, <1>2, <1>7, <1>8, <1>9 DEF OrderInv
<1>11. ReplayInv'
  BY <1>1, <1>2, <1>7, <1>8 DEF ReplayInv
<1>12. HistoryInv'
  BY <1>1, <1>2 DEF HistoryInv, Chained, PulsesExposed
<1>13. CallInv'
  <2>1. Replaying' /\ Replayed' = Replayed
    BY <1>2 DEF Replaying, Replayed
  <2>2. \A e \in events : e.id < nextId /\ e.id \in Nat
    BY <1>1 DEF CallInv, TypeInv, LedgerType
  <2>3. nextId \in Nat
    BY ReplayedFacts
  <2>4. \A e \in events : e.id <= nextId /\ e.id # nextId
    BY <2>2, <2>3
  <2>5. call'.state = "booking" /\ call'.timing = t /\ call'.booking = b /\ call'.done = 0
    BY <1>2
  <2>6. call' # Ledger!Idle
    BY <2>5, CallStates
  <2>7. call'.done \in 0 .. Len(b)
    <3>1. Len(b) \in Nat
      BY LenProperties DEF IsSeq
    <3> QED BY <2>5, <3>1
  <2>8. \A q \in Atoms : \A e \in events :
          nextId \in Touched(q) /\ e.id \in Touched(q) /\ e.id < nextId => e.stop <= t.begin
    <3>1. t.begin \in Nat /\ Replayed.deps \subseteq DOMAIN instructions
      BY DEF Interval, KnownToLedger
    <3> QED BY <3>1, AfterDependencies
  <2>9. \A d \in Replayed.deps : d \in DOMAIN instructions /\ instructions[d].end <= t.begin
    BY DEF KnownToLedger
  <2> QED BY <1>2, <1>7, <2>1, <2>4, <2>5, <2>6, <2>7, <2>8, <2>9 DEF CallInv, Booked
<1> QED BY <1>4, <1>5, <1>6, <1>10, <1>11, <1>12, <1>13 DEF IInv

\* The latest of a clock and the ends of dependencies.
LEMMA LatestBegin ==
  ASSUME TypeInv, NEW deps \in SUBSET DOMAIN instructions, NEW more \in SUBSET Int,
         NEW clock \in Nat, NEW begin,
         Ledger!IsLatest(begin, {clock} \cup Ledger!DependencyEnds(deps) \cup more)
  PROVE  begin \in Nat /\ \A d \in deps : instructions[d].end <= begin
<1>1. \A d \in deps : instructions[d].end \in Nat
  BY DEF TypeInv, LedgerType, Interval
<1>2. Ledger!DependencyEnds(deps) \subseteq Nat
  BY <1>1 DEF Ledger!DependencyEnds
<1>3. begin \in Int /\ clock <= begin
  BY <1>2 DEF Ledger!IsLatest
<1>4. begin \in Nat
  BY <1>3
<1> QED BY <1>4 DEF Ledger!IsLatest, Ledger!DependencyEnds

\* The times the ledger gives the instruction it is at.
TimedByLedger(t) ==
  /\ t.kind = "init" => t.begin = 0 /\ t.end = 0
  /\ t.kind = "one_qubit" =>
       /\ Ledger!IsLatest(t.begin, {oneQEnd} \cup Ledger!DependencyEnds(Replayed.deps))
       /\ t.end = t.begin + Len(Replayed.atoms) * OneQTime + OneQCommon
  /\ t.kind = "cz" =>
       /\ Ledger!IsLatest(t.begin, {rydEnd[Zone]} \cup Ledger!DependencyEnds(Replayed.deps))
       /\ t.end = t.begin + RydTime
  /\ t.kind = "aod" =>
       /\ t.resource \in Aods /\ Ledger!IsAsapAod(t.resource)
       /\ Ledger!IsLatest(t.begin,
            {aodEnd[t.resource]} \cup Ledger!DependencyEnds(Replayed.deps)
              \cup Ledger!SiteBegins(Replayed.sites \ {nextId}, DropOffset(Replayed.job)))
       /\ t.end = t.begin + Duration(Replayed.job)
       /\ t.pickup = t.begin + PickupOffset(Replayed.job)
       /\ PickupOffset(Replayed.job) <= DropOffset(Replayed.job)

\* The bookings follow one another and use the atoms of the instruction.
InTurn(b) ==
  /\ \A j, k \in 1 .. Len(b) : j < k => b[j].stop <= b[k].start
  /\ \A k \in 1 .. Len(b) : Ledger!ActiveAtoms(b[k]) \subseteq ToSet(Replayed.atoms)

\* What the call with the timing t and the bookings b is when it begins.
Begun(t, b) ==
  /\ Entered(t, b) /\ Interval(t) /\ IsSeq(b) /\ t.kind = Replayed.kind
  /\ \A k \in 1 .. Len(b) : Booked(b[k], t)
  /\ \A d \in Replayed.deps : instructions[d].end <= t.begin
  /\ (Replayed.kind = "aod" => ShapedJob(Replayed.job, ToSet(Replayed.atoms))) =>
       TimedByLedger(t) /\ InTurn(b)

LEMMA BeginInitFacts ==
  ASSUME IInv, Replaying, call = Ledger!Idle, KnownToLedger, Replayed.kind = "init",
         Ledger!BeginInit,
         UNCHANGED <<stage, replayed, routerVars>>
  PROVE  \E t, b : Begun(t, b)
<1>1. PICK t : t = [kind |-> "init", begin |-> 0, end |-> 0, resource |-> 0,
                    pickup |-> 0, drop |-> 0]
  OBVIOUS
<1>2. Entered(t, <<>>)
  BY <1>1 DEF Ledger!BeginInit, Ledger!Enter, Ledger!clocks, Entered
<1>3. Interval(t)
  BY <1>1 DEF Interval
<1>4. IsSeq(<<>>) /\ 1 .. Len(<<>>) = {}
  BY EmptySeq DEF IsSeq
<1>5. Replayed.deps = {}
  <2>1. nextId = 0
    BY DEF Ledger!BeginInit
  <2>2. GoodInstruction(Replayed, nextId, exposures)
    BY ReplayedFacts
  <2> QED BY <2>1, <2>2 DEF GoodInstruction, Before
<1>6. Begun(t, <<>>)
  BY <1>1, <1>2, <1>3, <1>4, <1>5 DEF Begun, TimedByLedger, InTurn
<1> QED BY <1>6

\* The slots of a beam: multiples of the duration of a gate.
LEMMA BeamSlots ==
  ASSUME NEW k \in Nat, NEW n \in Nat, NEW d \in Nat, 1 <= k, k <= n
  PROVE  /\ (k - 1) * d \in Nat /\ k * d \in Nat /\ n * d \in Nat
         /\ k * d <= n * d
<1>1. \A x, y \in Nat : x * y \in Nat
  OBVIOUS
<1>2. k - 1 \in Nat /\ n - k \in Nat
  OBVIOUS
<1>3. n * d = k * d + (n - k) * d
  OBVIOUS
<1>4. (n - k) * d \in Nat /\ k * d \in Nat /\ n * d \in Nat /\ (k - 1) * d \in Nat
  BY <1>1, <1>2
<1> QED BY <1>3, <1>4

LEMMA BeginOneQubitFacts ==
  ASSUME IInv, Replaying, call = Ledger!Idle, KnownToLedger, Replayed.kind = "one_qubit",
         Ledger!BeginOneQubit(Replayed.atoms, Replayed.deps),
         UNCHANGED <<stage, replayed, routerVars>>
  PROVE  \E t, b : Begun(t, b)
<1>1. PICK n : n = Len(Replayed.atoms)
  OBVIOUS
<1>2. PICK beam : beam = Replayed.atoms
  OBVIOUS
<1>3. PICK begin :
        /\ Ledger!IsLatest(begin, {oneQEnd} \cup Ledger!DependencyEnds(Replayed.deps))
        /\ Ledger!Enter([kind |-> "one_qubit", begin |-> begin,
                         end |-> begin + n * OneQTime + OneQCommon,
                         resource |-> Ledger!Beam, pickup |-> 0, drop |-> 0],
                        [k \in 1 .. n |->
                           [type |-> "one_qubit_gate",
                            start |-> begin + (k - 1) * OneQTime,
                            stop |-> begin + k * OneQTime,
                            atoms |-> <<beam[k]>>, id |-> nextId, phase |-> k,
                            resource |-> Ledger!Beam]])
        /\ UNCHANGED <<instructions, nextId, traceEnd, activeUnion, atomEnd, Ledger!clocks, events>>
  BY <1>1, <1>2 DEF Ledger!BeginOneQubit
<1>4. TypeInv /\ n \in Nat /\ OneQTime \in Nat /\ OneQCommon \in Nat /\ nextId \in Nat
  <2>1. Replayed.atoms \in Seq(Atoms)
    BY ReplayedFacts DEF GoodInstruction
  <2> QED BY <1>1, <2>1, RouteAssumption, LenProperties, ReplayedFacts DEF IInv
<1>5. begin \in Nat /\ \A d \in Replayed.deps : instructions[d].end <= begin
  <2>1. /\ Replayed.deps \in SUBSET DOMAIN instructions /\ oneQEnd \in Nat
        /\ {} \in SUBSET Int
    BY <1>4 DEF KnownToLedger, TypeInv, LedgerType
  <2>2. Ledger!IsLatest(begin, {oneQEnd} \cup Ledger!DependencyEnds(Replayed.deps) \cup {})
    BY <1>3
  <2> QED BY <1>4, <2>1, <2>2, LatestBegin
<1>6. PICK t : t = [kind |-> "one_qubit", begin |-> begin,
                    end |-> begin + n * OneQTime + OneQCommon,
                    resource |-> Ledger!Beam, pickup |-> 0, drop |-> 0]
  OBVIOUS
<1>7. PICK b : b = [k \in 1 .. n |->
                      [type |-> "one_qubit_gate",
                       start |-> begin + (k - 1) * OneQTime,
                       stop |-> begin + k * OneQTime,
                       atoms |-> <<beam[k]>>, id |-> nextId, phase |-> k,
                       resource |-> Ledger!Beam]]
  OBVIOUS
<1>8. Entered(t, b)
  BY <1>3, <1>6, <1>7 DEF Ledger!Enter, Ledger!clocks, Entered
<1>9. n * OneQTime \in Nat
  <2>1. \A x, y \in Nat : x * y \in Nat
    OBVIOUS
  <2> QED BY <2>1, <1>4
<1>10. Interval(t) /\ t.begin = begin
  BY <1>4, <1>5, <1>6, <1>9 DEF Interval
<1>11. IsSeq(b) /\ Len(b) = n
  <2>1. b \in [1 .. n -> ToSet(b)]
    BY <1>7 DEF ToSet
  <2>2. b \in Seq(ToSet(b)) /\ DOMAIN b = 1 .. n
    BY <1>4, <2>1, SeqDef
  <2> QED BY <1>4, <2>2, LenProperties DEF IsSeq
<1>12. \A k \in 1 .. n : Booked(b[k], t)
  <2> TAKE k \in 1 .. n
  <2>1. /\ (k - 1) * OneQTime \in Nat /\ k * OneQTime \in Nat /\ k * OneQTime <= n * OneQTime
    BY <1>4, BeamSlots
  <2>2. /\ b[k].id = nextId /\ b[k].type = "one_qubit_gate"
        /\ b[k].start = begin + (k - 1) * OneQTime /\ b[k].stop = begin + k * OneQTime
    BY <1>7
  <2>3. t.begin = begin /\ t.end = begin + n * OneQTime + OneQCommon
    BY <1>6
  <2>4. begin + (k - 1) * OneQTime \in Nat /\ begin + k * OneQTime \in Nat
        /\ begin <= begin + (k - 1) * OneQTime
        /\ begin + k * OneQTime <= begin + n * OneQTime + OneQCommon
    BY <2>1, <1>4, <1>5, <1>9
  <2> QED BY <2>2, <2>3, <2>4 DEF Booked
<1>13. InTurn(b)
  <2>1. ASSUME NEW j \in 1 .. n, NEW k \in 1 .. n, j < k PROVE b[j].stop <= b[k].start
    <3>1. PICK m \in Nat : m = k - 1
      OBVIOUS
    <3>2. j * OneQTime \in Nat /\ m * OneQTime \in Nat /\ j * OneQTime <= m * OneQTime
      <4>1. j \in Nat /\ 1 <= j /\ j <= m
        BY <2>1, <3>1
      <4> QED BY <4>1, <1>4, BeamSlots
    <3>3. b[j].stop = begin + j * OneQTime /\ b[k].start = begin + m * OneQTime
      BY <1>7, <3>1
    <3> QED BY <3>2, <3>3, <1>5
  <2>2. ASSUME NEW k \in 1 .. n PROVE Ledger!ActiveAtoms(b[k]) \subseteq ToSet(beam)
    <3>1. b[k].atoms = <<beam[k]>>
      BY <1>7
    <3>2. Ledger!AtomsOf(b[k]) = {beam[k]}
      <4>1. \A x : DOMAIN <<x>> = {1} /\ <<x>>[1] = x
        OBVIOUS
      <4> QED BY <3>1, <4>1 DEF Ledger!AtomsOf
    <3>3. k \in DOMAIN beam
      <4>1. beam \in Seq(Atoms)
        BY <1>2, ReplayedFacts DEF GoodInstruction
      <4> QED BY <4>1, <1>1, <1>2, LenProperties
    <3> QED BY <3>2, <3>3 DEF Ledger!ActiveAtoms, ToSet
  <2> QED BY <2>1, <2>2, <1>2, <1>11 DEF InTurn
<1>14. TimedByLedger(t) /\ t.kind = "one_qubit"
  BY <1>1, <1>3, <1>6 DEF TimedByLedger
<1>15. Begun(t, b)
  BY <1>5, <1>8, <1>10, <1>11, <1>12, <1>13, <1>14 DEF Begun
<1> QED BY <1>15

LEMMA BeginCzFacts ==
  ASSUME IInv, Replaying, call = Ledger!Idle, KnownToLedger, Replayed.kind = "cz",
         Ledger!BeginCz(Replayed.atoms, Zone, Replayed.deps),
         UNCHANGED <<stage, replayed, routerVars>>
  PROVE  \E t, b : Begun(t, b)
<1>1. PICK begin :
        /\ Ledger!IsLatest(begin, {rydEnd[Zone]} \cup Ledger!DependencyEnds(Replayed.deps))
        /\ Ledger!Enter([kind |-> "cz", begin |-> begin, end |-> begin + RydTime,
                         resource |-> Zone, pickup |-> 0, drop |-> 0],
                        <<[type |-> "two_qubit_gate", start |-> begin,
                           stop |-> begin + RydTime, atoms |-> Replayed.atoms, id |-> nextId,
                           phase |-> 1, resource |-> Zone]>>)
        /\ UNCHANGED <<instructions, nextId, traceEnd, activeUnion, atomEnd, Ledger!clocks, events>>
  BY DEF Ledger!BeginCz
<1>2. TypeInv /\ RydTime \in Nat /\ nextId \in Nat /\ nextId \in DOMAIN exposures
  BY RouteAssumption, ReplayedFacts DEF IInv, GoodInstruction
<1>3. begin \in Nat /\ \A d \in Replayed.deps : instructions[d].end <= begin
  <2>1. /\ Replayed.deps \in SUBSET DOMAIN instructions /\ rydEnd[Zone] \in Nat
        /\ {} \in SUBSET Int
    BY <1>2 DEF KnownToLedger, TypeInv, LedgerType
  <2>2. Ledger!IsLatest(begin, {rydEnd[Zone]} \cup Ledger!DependencyEnds(Replayed.deps) \cup {})
    BY <1>1
  <2> QED BY <1>2, <2>1, <2>2, LatestBegin
<1>4. PICK t : t = [kind |-> "cz", begin |-> begin, end |-> begin + RydTime,
                    resource |-> Zone, pickup |-> 0, drop |-> 0]
  OBVIOUS
<1>5. PICK e : e = [type |-> "two_qubit_gate", start |-> begin,
                    stop |-> begin + RydTime, atoms |-> Replayed.atoms, id |-> nextId,
                    phase |-> 1, resource |-> Zone]
  OBVIOUS
<1>6. Entered(t, <<e>>)
  BY <1>1, <1>4, <1>5 DEF Ledger!Enter, Ledger!clocks, Entered
<1>7. Interval(t) /\ t.begin = begin
  BY <1>2, <1>3, <1>4 DEF Interval
<1>8. Len(<<e>>) = 1 /\ <<e>>[1] = e /\ IsSeq(<<e>>)
  <2>1. Len(<<e>>) = 1 /\ <<e>>[1] = e /\ <<e>> \in [1 .. 1 -> {e}] /\ DOMAIN <<e>> = 1 .. 1
    OBVIOUS
  <2>2. <<e>> \in Seq(ToSet(<<e>>))
    <3>1. ToSet(<<e>>) = {e}
      BY <2>1 DEF ToSet
    <3> QED BY <3>1
  <2> QED BY <2>1, <2>2 DEF IsSeq
<1>9. Booked(e, t)
  <2>1. begin + RydTime \in Nat /\ begin <= begin /\ begin + RydTime <= begin + RydTime
    BY <1>2, <1>3
  <2> QED BY <2>1, <1>2, <1>3, <1>4, <1>5 DEF Booked
<1>10. \A k \in 1 .. Len(<<e>>) : Booked(<<e>>[k], t)
  BY <1>8, <1>9
<1>11. InTurn(<<e>>)
  <2>1. Ledger!ActiveAtoms(e) \subseteq ToSet(Replayed.atoms)
    BY <1>5 DEF Ledger!ActiveAtoms, Ledger!AtomsOf, ToSet
  <2>2. \A k \in 1 .. Len(<<e>>) : k = 1
    BY <1>8
  <2> QED BY <2>1, <2>2, <1>8 DEF InTurn
<1>12. TimedByLedger(t) /\ t.kind = "cz"
  BY <1>1, <1>4 DEF TimedByLedger
<1>13. Begun(t, <<e>>)
  BY <1>3, <1>6, <1>7, <1>8, <1>10, <1>11, <1>12 DEF Begun
<1> QED BY <1>13

LEMMA BeginAodFacts ==
  ASSUME IInv, Replaying, call = Ledger!Idle, KnownToLedger, Replayed.kind = "aod",
         NEW job, job = Replayed.job, Ledger!BeginAod(job, Replayed.deps, Replayed.sites),
         UNCHANGED <<stage, replayed, routerVars>>
  PROVE  \E t, b : Begun(t, b)
<1> DEFINE earliest(r, drop) == {aodEnd[r]} \cup Ledger!DependencyEnds(Replayed.deps)
                                  \cup Ledger!SiteBegins(Replayed.sites \ {nextId}, drop)
           entered(r, pickup, length, drop, begin) ==
             Ledger!Enter([kind |-> "aod", begin |-> begin, end |-> begin + length,
                           resource |-> r, pickup |-> begin + pickup, drop |-> drop],
                          [k \in 1 .. Len(job) |->
                             [type |-> job[k].kind, start |-> begin + job[k].start,
                              stop |-> begin + job[k].stop, atoms |-> job[k].atoms,
                              id |-> nextId, phase |-> k, resource |-> r]])
<1>1. \E r \in Aods, pickup \in Ledger!Offsets(job, "load", "stop"),
         drop \in Ledger!Offsets(job, "store", "start"), length \in {job[Len(job)].stop} :
        /\ Ledger!IsAsapAod(r)
        /\ Ledger!IsLatest(pickup, Ledger!Offsets(job, "load", "stop"))
        /\ \A u \in Ledger!Offsets(job, "store", "start") : drop <= u
        /\ nextId \in Replayed.sites => pickup <= drop
        /\ \E begin \in earliest(r, drop) :
             /\ Ledger!IsLatest(begin, earliest(r, drop))
             /\ entered(r, pickup, length, drop, begin)
  BY DEF Ledger!BeginAod
<1>2. PICK r \in Aods, pickup \in Ledger!Offsets(job, "load", "stop"),
           drop \in Ledger!Offsets(job, "store", "start"), length \in {job[Len(job)].stop} :
        /\ Ledger!IsAsapAod(r)
        /\ Ledger!IsLatest(pickup, Ledger!Offsets(job, "load", "stop"))
        /\ \A u \in Ledger!Offsets(job, "store", "start") : drop <= u
        /\ \E begin \in earliest(r, drop) :
             /\ Ledger!IsLatest(begin, earliest(r, drop))
             /\ entered(r, pickup, length, drop, begin)
  <2> HIDE DEF earliest, entered
  <2> QED BY <1>1
<1>3. PICK begin :
        /\ Ledger!IsLatest(begin, {aodEnd[r]} \cup Ledger!DependencyEnds(Replayed.deps)
                             \cup Ledger!SiteBegins(Replayed.sites \ {nextId}, drop))
        /\ Ledger!Enter([kind |-> "aod", begin |-> begin, end |-> begin + length,
                         resource |-> r, pickup |-> begin + pickup, drop |-> drop],
                        [k \in 1 .. Len(job) |->
                           [type |-> job[k].kind, start |-> begin + job[k].start,
                            stop |-> begin + job[k].stop, atoms |-> job[k].atoms,
                            id |-> nextId, phase |-> k, resource |-> r]])
  BY <1>2
<1>4. UNCHANGED <<instructions, nextId, traceEnd, activeUnion, atomEnd, Ledger!clocks, events>>
  BY DEF Ledger!BeginAod
<1>5. TypeInv /\ nextId \in Nat /\ GoodJob(job)
  BY ReplayedFacts DEF IInv, GoodInstruction
<1>6. /\ Len(job) \in Nat /\ DOMAIN job = 1 .. Len(job) /\ length = Duration(job)
      /\ length \in Nat
  <2>1. Len(job) \in Nat /\ DOMAIN job = 1 .. Len(job)
    BY <1>5, LenProperties DEF GoodJob, IsSeq
  <2> QED BY <2>1, <1>2, <1>5, DurationType DEF Duration
<1>7. pickup \in Nat /\ drop \in Nat
  BY <1>2, <1>5 DEF Ledger!Offsets, GoodJob
<1>8. begin \in Nat /\ \A d \in Replayed.deps : instructions[d].end <= begin
  <2>1. Replayed.deps \in SUBSET DOMAIN instructions /\ aodEnd[r] \in Nat
    BY <1>5 DEF KnownToLedger, TypeInv, LedgerType
  <2>2. Replayed.sites \ {nextId} \subseteq DOMAIN instructions
    BY DEF KnownToLedger
  <2>3. \A d \in Replayed.sites \ {nextId} : instructions[d].end \in Nat /\ instructions[d].pickup \in Nat
    BY <1>5, <2>2 DEF TypeInv, LedgerType, Interval
  <2>4. Ledger!SiteBegins(Replayed.sites \ {nextId}, drop) \in SUBSET Int
    BY <1>7, <2>3 DEF Ledger!SiteBegins
  <2> QED BY <1>3, <1>5, <2>1, <2>4, LatestBegin
<1>9. PICK t : t = [kind |-> "aod", begin |-> begin, end |-> begin + length,
                    resource |-> r, pickup |-> begin + pickup, drop |-> drop]
  OBVIOUS
<1>10. PICK b : b = [k \in 1 .. Len(job) |->
                       [type |-> job[k].kind, start |-> begin + job[k].start,
                        stop |-> begin + job[k].stop, atoms |-> job[k].atoms,
                        id |-> nextId, phase |-> k, resource |-> r]]
  OBVIOUS
<1>11. Entered(t, b)
  BY <1>3, <1>4, <1>9, <1>10 DEF Ledger!Enter, Ledger!clocks, Entered
<1>12. Interval(t) /\ t.begin = begin
  BY <1>6, <1>7, <1>8, <1>9 DEF Interval
<1>13. IsSeq(b) /\ Len(b) = Len(job)
  <2>1. b \in [1 .. Len(job) -> ToSet(b)]
    BY <1>10 DEF ToSet
  <2>2. b \in Seq(ToSet(b)) /\ DOMAIN b = 1 .. Len(job)
    BY <1>6, <2>1, SeqDef
  <2> QED BY <1>6, <2>2, LenProperties DEF IsSeq
<1>14. \A k \in 1 .. Len(job) : Booked(b[k], t)
  <2> TAKE k \in 1 .. Len(job)
  <2>1. /\ job[k].kind \in {"load", "move", "store"}
        /\ job[k].start \in Nat /\ job[k].stop \in Nat /\ job[k].stop <= length
    BY <1>5, <1>6 DEF GoodJob
  <2>2. /\ b[k].id = nextId /\ b[k].type = job[k].kind
        /\ b[k].start = begin + job[k].start /\ b[k].stop = begin + job[k].stop
    BY <1>10
  <2>3. t.begin = begin /\ t.end = begin + length
    BY <1>9
  <2>4. begin + job[k].start \in Nat /\ begin + job[k].stop \in Nat
        /\ begin <= begin + job[k].start /\ begin + job[k].stop <= begin + length
    BY <2>1, <1>6, <1>8
  <2> QED BY <2>1, <2>2, <2>3, <2>4 DEF Booked
<1>15. t.kind = "aod" /\ t.resource = r /\ t.end = begin + length
       /\ t.pickup = begin + pickup /\ t.begin = begin
  BY <1>9
<1>16. ASSUME ShapedJob(job, ToSet(Replayed.atoms)) PROVE TimedByLedger(t) /\ InTurn(b)
  <2>1. InTurn(b)
    <3>1. ASSUME NEW j \in 1 .. Len(job), NEW k \in 1 .. Len(job), j < k
          PROVE  b[j].stop <= b[k].start
      <4>1. job[j].stop <= job[k].start /\ job[j].stop \in Nat /\ job[k].start \in Nat
        BY <3>1, <1>5, <1>6, <1>16 DEF ShapedJob, Ordered, GoodJob
      <4>2. b[j].stop = begin + job[j].stop /\ b[k].start = begin + job[k].start
        BY <1>10
      <4> QED BY <4>1, <4>2, <1>8
    <3>2. ASSUME NEW k \in 1 .. Len(job) PROVE Ledger!ActiveAtoms(b[k]) \subseteq ToSet(Replayed.atoms)
      <4>1. b[k].type = job[k].kind /\ b[k].atoms = job[k].atoms
        BY <1>10
      <4>2. CASE job[k].kind = "move"
        BY <4>1, <4>2 DEF Ledger!ActiveAtoms, Ledger!ActiveTypes
      <4>3. CASE job[k].kind # "move"
        <5>1. ToSet(job[k].atoms) \subseteq ToSet(Replayed.atoms)
          BY <4>3, <1>6, <1>16 DEF ShapedJob, Carries
        <5> QED BY <4>1, <5>1 DEF Ledger!ActiveAtoms, Ledger!AtomsOf, ToSet
      <4> QED BY <4>2, <4>3
    <3> QED BY <3>1, <3>2, <1>13 DEF InTurn
  <2>2. pickup = PickupOffset(job)
    <3>1. PICK l \in DOMAIN job : job[l].kind = "load" /\ job[l].stop = pickup
      BY <1>2 DEF Ledger!Offsets
    <3>2. PickupOffset(job) \in Nat /\ pickup <= PickupOffset(job)
      BY <3>1, <1>5, PickupExists
    <3>3. PickupOffset(job) \in Ledger!Offsets(job, "load", "stop")
      BY <3>1, <1>5, PickupExists DEF Ledger!Offsets
    <3>4. PickupOffset(job) <= pickup
      BY <3>3, <1>2 DEF Ledger!IsLatest
    <3> QED BY <3>2, <3>4, <1>7
  <2>3. drop = DropOffset(job)
    <3>1. PICK l \in DOMAIN job : job[l].kind = "store" /\ job[l].start = drop
      BY <1>2 DEF Ledger!Offsets
    <3>2. DropOffset(job) <= drop
      BY <3>1, <1>16 DEF ShapedJob, LiftsFirst
    <3>3. Len(job) \in DOMAIN job
      BY <1>5, <1>6, EmptySeq DEF GoodJob, IsSeq
    <3>4. DropOffset(job) \in Ledger!Offsets(job, "store", "start") /\ DropOffset(job) \in Nat
      BY <3>3, <1>5, <1>16 DEF ShapedJob, DropOffset, Ledger!Offsets, GoodJob
    <3>5. drop <= DropOffset(job)
      BY <3>4, <1>2
    <3> QED BY <3>2, <3>4, <3>5, <1>7
  <2>4. PickupOffset(job) <= DropOffset(job)
    <3>1. PICK l \in DOMAIN job : job[l].kind = "load" /\ job[l].stop = pickup
      BY <1>2 DEF Ledger!Offsets
    <3> QED BY <3>1, <2>2, <1>16 DEF ShapedJob, LiftsFirst
  <2>5. TimedByLedger(t)
    BY <2>2, <2>3, <2>4, <1>2, <1>3, <1>6, <1>15 DEF TimedByLedger
  <2> QED BY <2>1, <2>5
<1>17. Begun(t, b)
  BY <1>8, <1>11, <1>12, <1>13, <1>14, <1>15, <1>16 DEF Begun
<1> QED BY <1>17

\* A call that begins.
LEMMA ScheduleFacts ==
  ASSUME IInv, Replaying, call = Ledger!Idle, KnownToLedger, Schedule(Replayed),
         UNCHANGED <<stage, replayed, routerVars>>
  PROVE  \E t, b : Begun(t, b)
BY BeginInitFacts, BeginOneQubitFacts, BeginCzFacts, BeginAodFacts DEF Schedule

LEMMA ReplayBeginStep == IInv /\ ReplayBegin => IInv'
<1> SUFFICES ASSUME IInv, ReplayBegin PROVE IInv'
  OBVIOUS
<1>1. Replaying /\ call = Ledger!Idle
  BY DEF ReplayBegin
<1>2. CASE ~KnownToLedger
  BY <1>1, <1>2, FailStep DEF ReplayBegin
<1>3. CASE KnownToLedger
  <2>1. Schedule(Replayed) /\ UNCHANGED <<stage, replayed, routerVars>>
    BY <1>3 DEF ReplayBegin
  <2>2. PICK t, b : Begun(t, b)
    BY <1>1, <1>3, <2>1, ScheduleFacts
  <2> QED BY <1>1, <1>3, <2>2, EnterStep DEF Begun
<1> QED BY <1>2, <1>3

-----------------------------------------------------------------------------
(***************************************************************************)
(* The rest of a call of the ledger.                                       *)
(***************************************************************************)

\* The parts that speak of the chunk, while the ledger keeps its instructions.
LEMMA SameChunk ==
  ASSUME UNCHANGED <<routed, instructions, nextId>>
  PROVE  /\ ChunkInv' <=> ChunkInv
         /\ NextInst' = NextInst /\ UntimedId' = UntimedId
         /\ \A q : Touched(q)' = Touched(q)
         /\ \A d : At(d)' = At(d)
<1> USE DEF routed
<1>1. ChunkInv' <=> ChunkInv
  BY DEF ChunkInv
<1>2. NextInst' = NextInst /\ UntimedId' = UntimedId
  BY DEF NextInst, UntimedId
<1>3. (\A q : Touched(q)' = Touched(q)) /\ (\A d : At(d)' = At(d))
  BY DEF Touched, At
<1> QED BY <1>1, <1>2, <1>3

LEMMA RaiseStep ==
  ASSUME IInv, Replaying, Ledger!RaiseOverlap, Fail
  PROVE  IInv'
<1> USE DEF Fail, layerVars, depVars, crashVars, history
<1>1. /\ TypeInv /\ StageInv /\ SeatInv /\ ChunkInv /\ OrderInv
      /\ ReplayInv /\ CallInv /\ HistoryInv /\ SavedInv
  BY DEF IInv
<1>2. /\ UNCHANGED <<instructions, nextId, aodEnd, oneQEnd, rydEnd, events>>
      /\ call' = Ledger!Raised /\ stage' = "failed" /\ UNCHANGED routed
  BY DEF Ledger!RaiseOverlap, Ledger!clocks, routed
<1>3. /\ ChunkInv' /\ NextInst' = NextInst /\ UntimedId' = UntimedId
      /\ \A q : Touched(q)' = Touched(q)
      /\ \A d : At(d)' = At(d)
  BY <1>1, <1>2, SameChunk
<1>4. TypeInv'
  BY <1>1, <1>2, <1>3 DEF TypeInv, routed
<1>5. StageInv'
  BY <1>1, <1>2, CallStates DEF StageInv, routed, Ledger!Booking
<1>6. OrderInv'
  <2>1. \A q, i, d : After(q, i, d)' <=> After(q, i, d)
    BY <1>2, <1>3 DEF After, routed
  <2> QED BY <1>1, <1>2, <1>3, <2>1 DEF OrderInv, routed
<1>7. ReplayInv'
  BY <1>1, <1>2, <1>3 DEF ReplayInv, routed
<1>8. CallInv'
  BY <1>1, <1>2, CallStates DEF CallInv
<1>9. HistoryInv' /\ SeatInv' /\ SavedInv'
  BY <1>1, <1>2 DEF HistoryInv, Chained, PulsesExposed, SeatInv, SavedInv, routed
<1> QED BY <1>3, <1>4, <1>5, <1>6, <1>7, <1>8, <1>9 DEF IInv

LEMMA RecordStep ==
  ASSUME IInv, Replaying, Ledger!RecordEvent, UNCHANGED <<stage, replayed, routerVars>>
  PROVE  IInv'
<1> USE DEF routerVars, layerVars, depVars, crashVars, history
<1>1. /\ TypeInv /\ StageInv /\ SeatInv /\ ChunkInv /\ OrderInv
      /\ ReplayInv /\ CallInv /\ HistoryInv /\ SavedInv
  BY DEF IInv
<1>2. PICK e : e = Ledger!NextEvent
  OBVIOUS
<1>3. /\ call.state = "booking" /\ call.done < Len(call.booking)
      /\ events' = events \cup {e} /\ call' = [call EXCEPT !.done = @ + 1]
      /\ UNCHANGED <<instructions, nextId, aodEnd, oneQEnd, rydEnd>>
      /\ UNCHANGED <<routed, stage>>
  BY <1>2 DEF Ledger!RecordEvent, Ledger!Pending, Ledger!Booking, Ledger!clocks, routed
<1>4. /\ ChunkInv' /\ NextInst' = NextInst /\ UntimedId' = UntimedId
      /\ \A q : Touched(q)' = Touched(q)
      /\ \A d : At(d)' = At(d)
  BY <1>1, <1>3, SameChunk
<1>5. /\ nextId \in Nat /\ base \in Nat /\ base <= nextId
  BY ReplayedFacts
<1>6. /\ call = [state |-> "booking", timing |-> call.timing, booking |-> call.booking,
                 done |-> call.done]
      /\ Interval(call.timing)
      /\ IsSeq(call.booking) /\ call.done \in 0 .. Len(call.booking)
      /\ \A q \in Atoms : \A f \in events :
           nextId \in Touched(q) /\ f.id \in Touched(q) /\ f.id < nextId
             => f.stop <= call.timing.begin
      /\ \A d \in Replayed.deps : d \in DOMAIN instructions
                                  /\ instructions[d].end <= call.timing.begin
      /\ \A f \in events : f.id = nextId => f.stop <= call.timing.end
      /\ \A f \in events : f.id <= nextId
  BY <1>1, <1>3 DEF CallInv
<1>7. PICK n : n = Len(call.booking)
  OBVIOUS
<1>8. n \in Nat /\ call.done + 1 \in 1 .. n /\ call.done + 1 \in 0 .. n
  BY <1>3, <1>6, <1>7, LenProperties DEF IsSeq
<1>9. /\ e.id = nextId /\ e.start \in Nat /\ e.stop \in Nat
      /\ call.timing.begin <= e.start /\ e.stop <= call.timing.end
      /\ (e.type = "two_qubit_gate" => nextId \in DOMAIN exposures)
  <2>1. PICK k \in 1 .. Len(call.booking) : k = call.done + 1
    BY <1>7, <1>8
  <2>2. e = call.booking[k]
    BY <1>2, <2>1 DEF Ledger!NextEvent
  <2> QED BY <1>1, <1>3, <2>2 DEF CallInv
<1>10. TypeInv'
  <2>1. LedgerType(NextInst, instructions', aodEnd', oneQEnd', rydEnd', events')
    BY <1>1, <1>3, <1>5, <1>9 DEF TypeInv, LedgerType
  <2> QED BY <1>1, <1>3, <1>4, <2>1 DEF TypeInv, routed
<1>11. StageInv'
  BY <1>1, <1>3 DEF StageInv, routed, Replaying
<1>12. SeatInv' /\ SavedInv'
  BY <1>1, <1>3 DEF SeatInv, SavedInv, Replaying
<1>13. ASSUME NEW q \in Atoms, NEW i, NEW d, After(q, i, d) PROVE After(q, i, d)'
  <2>1. CASE d < base
    <3>1. i < base /\ i # nextId
      BY <1>5, <1>13, <2>1 DEF After
    <3> QED BY <1>3, <1>9, <1>13, <2>1, <3>1 DEF After, routed
  <2>2. CASE ~(d < base)
    BY <1>3, <1>4, <1>13, <2>2 DEF After, routed
  <2> QED BY <2>1, <2>2
<1>14. OrderInv'
  <2>1. \A q \in Atoms : \A i \in Touched(q) : After(q, i, qubitDep[q])'
    <3> TAKE q \in Atoms
    <3> TAKE i \in Touched(q)
    <3>1. PICK d : d = qubitDep[q]
      OBVIOUS
    <3>2. After(q, i, d)
      BY <1>1, <3>1 DEF OrderInv
    <3>3. After(q, i, d)'
      BY <1>13, <3>2
    <3>4. qubitDep'[q] = d
      BY <1>3, <3>1 DEF routed
    <3> QED BY <3>3, <3>4 DEF After
  <2>2. \A q \in Atoms : \A m, i \in Touched(q) :
          base <= m /\ i < m => \E d \in At(m).deps : After(q, i, d)'
    BY <1>1, <1>13 DEF OrderInv
  <2> QED BY <1>3, <1>4, <2>1, <2>2 DEF OrderInv, routed
<1>15. ReplayInv'
  <2>1. \A d \in base .. nextId - 1 : ~(e.id <= d)
    BY <1>5, <1>9
  <2> QED BY <1>1, <1>3, <1>4, <1>9, <2>1 DEF ReplayInv, routed
<1>16. HistoryInv'
  <2>1. Chained(journal', exposures', events')
    <3> SUFFICES ASSUME NEW q \in Atoms, NEW f \in events', NEW g \in events',
                        f.id \in Touched(q)', g.id \in Touched(q)', f.id < g.id
                 PROVE  f.stop <= g.start
      BY DEF Chained, Touched
    <3>1. f.id \in Touched(q) /\ g.id \in Touched(q)
      BY <1>4
    <3>2. f \in events
      <4>1. g.id <= nextId /\ g.id \in Nat
        BY <1>1, <1>3, <1>5, <1>6, <1>9 DEF TypeInv, LedgerType
      <4>2. f # e
        BY <1>5, <1>9, <4>1
      <4> QED BY <1>3, <4>2
    <3>3. CASE g \in events
      BY <1>1, <3>1, <3>2, <3>3 DEF HistoryInv, Chained, Touched
    <3>4. CASE g = e
      <4>1. f.stop <= call.timing.begin
        BY <1>6, <1>9, <3>1, <3>2, <3>4
      <4>2. f.stop \in Nat /\ call.timing.begin \in Nat
        BY <1>1, <1>6, <3>2 DEF TypeInv, LedgerType, Interval
      <4> QED BY <1>9, <3>4, <4>1, <4>2
    <3> QED BY <1>3, <3>3, <3>4
  <2>2. PulsesExposed(exposures', events')
    BY <1>1, <1>3, <1>9 DEF HistoryInv, PulsesExposed, routed
  <2> QED BY <2>1, <2>2 DEF HistoryInv
<1>17. CallInv'
  <2>1. PICK c : c = call'
    OBVIOUS
  <2>2. /\ c = [state |-> "booking", timing |-> call.timing, booking |-> call.booking,
                done |-> call.done + 1]
    BY <1>3, <1>6, <2>1
  <2>3. Replaying' /\ Replayed' = Replayed
    BY <1>3 DEF Replaying, Replayed, routed
  <2>4. \A f \in events' : f.id <= nextId
    BY <1>3, <1>5, <1>6, <1>9
  <2>5. c # Ledger!Idle
    BY <2>2, CallStates
  <2>6. \A f \in events' : f.id = nextId => f.stop <= c.timing.end
    BY <1>3, <1>6, <1>9, <2>2
  <2>7. \A q \in Atoms : \A f \in events' :
          nextId \in Touched(q) /\ f.id \in Touched(q) /\ f.id < nextId => f.stop <= c.timing.begin
    BY <1>3, <1>5, <1>6, <1>9, <2>2
  <2>8. \A k \in 1 .. Len(c.booking) : Booked(c.booking[k], c.timing)
    BY <1>1, <1>3, <2>2 DEF CallInv, Booked
  <2>9. c.state = "booking" /\ c.done \in 0 .. Len(c.booking)
        /\ c = [state |-> "booking", timing |-> c.timing, booking |-> c.booking, done |-> c.done]
    BY <1>7, <1>8, <2>2
  <2>10. Interval(c.timing) /\ IsSeq(c.booking)
    BY <1>6, <2>2
  <2>11. \A d \in Replayed.deps : d \in DOMAIN instructions /\ instructions[d].end <= c.timing.begin
    BY <1>6, <2>2
  <2>12. nextId' = nextId /\ instructions' = instructions /\ exposures' = exposures
    BY <1>3
  <2> QED BY <1>4, <2>1, <2>3, <2>4, <2>5, <2>6, <2>7, <2>8, <2>9, <2>10, <2>11, <2>12
        DEF CallInv, Booked
<1> QED BY <1>4, <1>10, <1>11, <1>12, <1>14, <1>15, <1>16, <1>17 DEF IInv

LEMMA ReplayEventStep == IInv /\ ReplayEvent => IInv'
BY RecordStep, RaiseStep DEF ReplayEvent

LEMMA ReplayCommitStep == IInv /\ ReplayCommit => IInv'
<1> SUFFICES ASSUME IInv, ReplayCommit PROVE IInv'
  OBVIOUS
<1> USE DEF routerVars, layerVars, depVars, crashVars, history
<1>1. /\ TypeInv /\ StageInv /\ SeatInv /\ ChunkInv /\ OrderInv
      /\ ReplayInv /\ CallInv /\ HistoryInv /\ SavedInv
  BY DEF IInv
<1>2. PICK t : t = call.timing
  OBVIOUS
<1>3. /\ Replaying /\ call.state = "booking"
      /\ instructions' = [id \in DOMAIN instructions \cup {nextId} |->
                            IF id = nextId THEN t ELSE instructions[id]]
      /\ nextId' = nextId + 1 /\ call' = Ledger!Idle /\ events' = events
      /\ replayed' = replayed + 1 /\ stage' \in {stage, "failed"}
      /\ UNCHANGED <<layer, boundary, gateMap, finalMap, gates, block, pending, base, chunk,
                     timed, window, qubitDep, siteDep, aodDep, aodFree, rydDep, lastOneQ,
                     saved, crashes, journal, exposures>>
  BY <1>2 DEF ReplayCommit, Ledger!Commit, Ledger!Booking
<1>4. /\ aodEnd'  = [r \in Aods |-> IF t.kind = "aod" /\ r = t.resource THEN t.end ELSE aodEnd[r]]
      /\ oneQEnd' = IF t.kind = "one_qubit" THEN t.end ELSE oneQEnd
      /\ rydEnd'  = [z \in {Zone} |-> IF t.kind = "cz" /\ z = t.resource THEN t.end ELSE rydEnd[z]]
  BY <1>2 DEF ReplayCommit, Ledger!Commit, Ledger!AdvanceClock
<1>5. /\ base \in Nat /\ nextId \in Nat /\ NextInst \in Nat /\ base <= nextId
      /\ nextId \in Before(NextInst) /\ nextId = base + replayed
      /\ Replayed = At(nextId) /\ GoodInstruction(Replayed, nextId, exposures)
      /\ stage = "replay" /\ replayed + 1 \in 0 .. Len(chunk) /\ replayed \in Nat
  BY <1>3, ReplayedFacts
<1>6. /\ Interval(t)
      /\ \A e \in events : e.id = nextId => e.stop <= t.end
      /\ \A d \in Replayed.deps : d \in DOMAIN instructions /\ instructions[d].end <= t.begin
      /\ \A q \in Atoms : \A e \in events :
           nextId \in Touched(q) /\ e.id \in Touched(q) /\ e.id < nextId => e.stop <= t.begin
      /\ \A e \in events : e.id <= nextId
  BY <1>1, <1>2, <1>3 DEF CallInv
<1>7. NextInst' = NextInst /\ UntimedId' = UntimedId
  BY <1>3 DEF NextInst, UntimedId
<1>8. TypeInv'
  <2>1. LedgerType(NextInst, instructions', aodEnd', oneQEnd', rydEnd', events')
    <3>1. LedgerType(NextInst, instructions, aodEnd, oneQEnd, rydEnd, events)
      BY <1>1 DEF TypeInv
    <3>2. t.end \in Nat
      BY <1>6 DEF Interval
    <3>3. DOMAIN instructions' \subseteq Before(NextInst)
          /\ \A id \in DOMAIN instructions' : Interval(instructions'[id])
      BY <1>3, <1>5, <1>6, <3>1 DEF LedgerType
    <3>4. aodEnd' \in [Aods -> Nat]
      BY <1>4, <3>1, <3>2 DEF LedgerType
    <3>5. rydEnd' \in [{Zone} -> Nat] /\ oneQEnd' \in Nat
      BY <1>4, <3>1, <3>2 DEF LedgerType
    <3> QED BY <1>3, <3>1, <3>3, <3>4, <3>5 DEF LedgerType
  <2> QED BY <1>1, <1>3, <1>7, <2>1 DEF TypeInv
<1>9. StageInv'
  <2>1. ~Ledger!Booking'
    BY <1>3, CallStates DEF Ledger!Booking
  <2>2. nextId + 1 = base + (replayed + 1)
    BY <1>5
  <2>3. /\ timed \in 0 .. Len(chunk) /\ timed = Len(chunk) /\ (base > 0 => layer < Len(Program))
    BY <1>1, <1>5 DEF StageInv
  <2> QED BY <1>3, <1>5, <2>1, <2>2, <2>3 DEF StageInv
<1>10. SeatInv' /\ SavedInv' /\ ChunkInv' /\ HistoryInv'
  BY <1>1, <1>3, <1>5 DEF SeatInv, SavedInv, ChunkInv, HistoryInv, Chained, PulsesExposed
<1>11. (\A q : Touched(q)' = Touched(q)) /\ (\A d : At(d)' = At(d))
  BY <1>3 DEF Touched, At
<1>12. \A d \in DOMAIN instructions :
         d # nextId => d \in DOMAIN instructions' /\ instructions'[d] = instructions[d]
  BY <1>3
<1>13. nextId \in DOMAIN instructions' /\ instructions'[nextId] = t
  BY <1>3
<1>14. ASSUME NEW q \in Atoms, NEW i \in Touched(q), NEW d, After(q, i, d) PROVE After(q, i, d)'
  <2>1. CASE d < base
    <3>1. /\ i < base
          /\ \A e \in events : e.id = i => d \in DOMAIN instructions
                                           /\ e.stop <= instructions[d].end
      BY <1>14, <2>1 DEF After
    <3>2. d # nextId
      BY <1>5, <2>1
    <3> QED BY <1>3, <1>12, <2>1, <3>1, <3>2 DEF After
  <2>2. CASE ~(d < base)
    BY <1>3, <1>11, <1>14, <2>2 DEF After
  <2> QED BY <2>1, <2>2
<1>15. OrderInv'
  <2>1. \A q \in Atoms : \A i \in Touched(q) : After(q, i, qubitDep[q])'
    <3> TAKE q \in Atoms
    <3> TAKE i \in Touched(q)
    <3>1. PICK d : d = qubitDep[q]
      OBVIOUS
    <3>2. After(q, i, d)
      BY <1>1, <3>1 DEF OrderInv
    <3>3. After(q, i, d)'
      BY <1>14, <3>2
    <3>4. qubitDep'[q] = d
      BY <1>3, <3>1
    <3> QED BY <3>3, <3>4 DEF After
  <2>2. \A q \in Atoms : \A m, i \in Touched(q) :
          base <= m /\ i < m => \E d \in At(m).deps : After(q, i, d)'
    BY <1>1, <1>14 DEF OrderInv
  <2> QED BY <1>3, <1>11, <2>1, <2>2 DEF OrderInv
<1>16. ReplayInv'
  <2>1. base' = base /\ nextId' - 1 = nextId
    BY <1>3, <1>5
  <2>2. ASSUME NEW n \in base .. nextId
        PROVE  /\ n \in DOMAIN instructions'
               /\ \A d \in At(n).deps : d \in DOMAIN instructions'
                                        /\ instructions'[d].end <= instructions'[n].begin
    <3>1. n \in Before(NextInst) /\ base <= n
      BY <1>5 DEF Before
    <3>2. \A d \in At(n).deps : d # nextId
      BY <1>1, <1>5, <3>1, DepsBefore DEF Before
    <3>3. CASE n = nextId
      BY <1>5, <1>6, <1>12, <1>13, <3>2, <3>3
    <3>4. CASE n # nextId
      <4>1. n \in base .. nextId - 1
        BY <1>5, <3>4
      <4> QED BY <1>1, <1>12, <3>2, <3>4, <4>1 DEF ReplayInv
    <3> QED BY <3>3, <3>4
  <2>3. ASSUME NEW q \in Atoms, NEW d \in base .. nextId, NEW e \in events,
               d \in Touched(q), e.id \in Touched(q), e.id <= d
        PROVE  e.stop <= instructions'[d].end
    <3>1. e.stop \in Nat /\ e.id \in Nat
      BY <1>1 DEF TypeInv, LedgerType
    <3>2. CASE d = nextId
      <4>1. CASE e.id = nextId
        BY <1>6, <1>13, <3>2, <4>1
      <4>2. CASE e.id # nextId
        <5>1. e.id < nextId
          BY <1>5, <2>3, <3>1, <3>2, <4>2
        <5>2. e.stop <= t.begin /\ t.begin \in Nat /\ t.end \in Nat /\ t.begin <= t.end
          BY <1>6, <2>3, <3>2, <5>1 DEF Interval
        <5> QED BY <1>13, <3>1, <3>2, <5>2
      <4> QED BY <4>1, <4>2
    <3>3. CASE d # nextId
      <4>1. d \in base .. nextId - 1
        BY <1>5, <3>3
      <4>2. d \in DOMAIN instructions /\ e.stop <= instructions[d].end
        BY <1>1, <2>3, <4>1 DEF ReplayInv
      <4> QED BY <1>12, <3>3, <4>2
    <3> QED BY <3>2, <3>3
  <2> QED BY <1>3, <1>11, <2>1, <2>2, <2>3 DEF ReplayInv
<1>17. CallInv'
  <2>1. \A e \in events : e.id < nextId + 1 /\ e.id <= nextId + 1
    BY <1>1, <1>5, <1>6 DEF TypeInv, LedgerType
  <2> QED BY <1>3, <2>1, CallStates DEF CallInv
<1> QED BY <1>8, <1>9, <1>10, <1>15, <1>16, <1>17 DEF IInv

-----------------------------------------------------------------------------
(***************************************************************************)
(* The chunk is published, saved and restored.                             *)
(***************************************************************************)

LEMMA PublishStep == IInv /\ Publish => IInv'
<1> SUFFICES ASSUME IInv, Publish PROVE IInv'
  OBVIOUS
<1> USE DEF layerVars, depVars, crashVars, history
<1>1. /\ TypeInv /\ StageInv /\ SeatInv /\ ChunkInv /\ OrderInv
      /\ ReplayInv /\ CallInv /\ HistoryInv /\ SavedInv
  BY DEF IInv
<1>2. /\ Len(chunk) \in Nat /\ base \in Nat /\ NextInst \in Nat /\ NextInst >= 1
      /\ base <= NextInst /\ nextId = base + replayed
  BY <1>1, Numbers
<1>3. stage = "replay" /\ replayed = Len(chunk) /\ nextId = NextInst
  BY <1>2 DEF Publish, NextInst
<1>4. call \in {Ledger!Idle, Ledger!Raised}
  <2>1. ~Replaying
    BY <1>2, <1>3 DEF Replaying
  <2> QED BY <1>1, <2>1 DEF CallInv
<1>5. CASE ~(ActiveIds \subseteq DOMAIN window \cap DOMAIN instructions)
  BY <1>4, <1>5, FailStep DEF Publish
<1>6. CASE ActiveIds \subseteq DOMAIN window \cap DOMAIN instructions
  <2>1. /\ window' = [id \in ActiveIds |-> window[id]]
        /\ call = Ledger!Idle /\ call' = call
        /\ instructions' = [id \in ActiveIds |-> instructions[id]]
        /\ UNCHANGED <<nextId, aodEnd, oneQEnd, rydEnd, events>>
        /\ boundary' = finalMap /\ layer' = (IF base = 0 THEN 0 ELSE layer + 1)
        /\ base' = NextInst /\ chunk' = <<>> /\ timed' = 0 /\ replayed' = 0
        /\ stage' = "boundary"
        /\ UNCHANGED <<gateMap, finalMap, gates, block, pending, qubitDep, siteDep, aodDep,
                       aodFree, rydDep, lastOneQ, saved, crashes, journal, exposures>>
    BY <1>6 DEF Publish, Ledger!Prune, Ledger!clocks
  <2>2. Len(chunk') = 0
    BY <2>1, EmptySeq
  <2>3. NextInst' = NextInst /\ UntimedId' = NextInst
    BY <1>2, <2>1, <2>2 DEF NextInst, UntimedId
  <2>4. layer' \in 0 .. Len(Program)
    <3>1. layer \in 0 .. Len(Program) /\ Len(Program) \in Nat
      BY <1>1, RouteAssumption, LenProperties DEF TypeInv
    <3>2. base > 0 => layer < Len(Program)
      BY <1>1, <1>3 DEF StageInv
    <3> QED BY <1>2, <2>1, <3>1, <3>2
  <2>5. TypeInv'
    <3>1. RouterType(NextInst, window', qubitDep, siteDep, aodDep, aodFree, rydDep, lastOneQ)
      <4>1. RouterType(NextInst, window, qubitDep, siteDep, aodDep, aodFree, rydDep, lastOneQ)
        BY <1>1 DEF TypeInv
      <4>2. DOMAIN window' \subseteq DOMAIN window
            /\ \A id \in DOMAIN window' : window'[id] = window[id]
        BY <1>6, <2>1
      <4> QED BY <4>1, <4>2 DEF RouterType
    <3>2. LedgerType(NextInst, instructions', aodEnd, oneQEnd, rydEnd, events)
      <4>1. LedgerType(NextInst, instructions, aodEnd, oneQEnd, rydEnd, events)
        BY <1>1 DEF TypeInv
      <4>2. DOMAIN instructions' \subseteq DOMAIN instructions
            /\ \A id \in DOMAIN instructions' : instructions'[id] = instructions[id]
        BY <1>6, <2>1
      <4> QED BY <4>1, <4>2 DEF LedgerType
    <3>3. aodDep' \in [Aods -> Before(UntimedId')]
      BY <2>1, <2>3, <3>1 DEF RouterType
    <3> QED BY <1>1, <1>2, <2>1, <2>3, <2>4, <3>1, <3>2, <3>3 DEF TypeInv
  <2>6. StageInv'
    <3>1. ~Ledger!Booking'
      BY <2>1, CallStates DEF Ledger!Booking
    <3>2. nextId' = base' + 0 /\ base' > 0 /\ 0 \in 0 .. Len(chunk')
      BY <1>2, <1>3, <2>1, <2>2
    <3> QED BY <2>1, <3>1, <3>2 DEF StageInv
  <2>7. SeatInv' /\ HistoryInv' /\ SavedInv'
    BY <1>1, <2>1 DEF SeatInv, HistoryInv, Chained, PulsesExposed, SavedInv
  <2>8. ChunkInv'
    <3>1. IsSeq(chunk')
      BY <2>1, EmptySeq DEF IsSeq
    <3>2. 1 .. Len(chunk') = {}
      BY <2>2
    <3> QED BY <3>1, <3>2 DEF ChunkInv
  <2>9. \A q : Touched(q)' = Touched(q)
    BY <2>1 DEF Touched
  <2>10. \A q \in Atoms : Touched(q) \subseteq Before(NextInst)
    BY <1>1, <1>2, TouchedWritten DEF TypeInv, Touched
  <2>11. OrderInv'
    <3>1. ASSUME NEW q \in Atoms, NEW i \in Touched(q) PROVE After(q, i, qubitDep[q])'
      <4>1. PICK d : d = qubitDep[q]
        OBVIOUS
      <4>2. After(q, i, d) /\ d \in Before(nextId)
        BY <1>1, <1>3, <4>1 DEF OrderInv, TypeInv, RouterType
      <4>3. \A e \in events : e.id = i => d \in DOMAIN instructions /\ e.stop <= instructions[d].end
        BY <1>1, <4>2, Reached
      <4>4. d \in ActiveIds
        BY <4>1 DEF ActiveIds
      <4>5. \A e \in events : e.id = i => d \in DOMAIN instructions' /\ e.stop <= instructions'[d].end
        BY <4>3, <4>4, <2>1
      <4>6. d < base' /\ i < base'
        BY <4>2, <1>2, <1>3, <2>1, <2>10 DEF Before
      <4>7. After(q, i, d)'
        BY <2>1, <4>5, <4>6 DEF After
      <4>8. qubitDep'[q] = d
        BY <2>1, <4>1
      <4> QED BY <4>7, <4>8 DEF After
    <3>2. \A q \in Atoms : \A n \in Touched(q) : ~(base' <= n)
      BY <1>2, <2>1, <2>10 DEF Before
    <3> QED BY <2>1, <2>9, <3>1, <3>2 DEF OrderInv
  <2>12. ReplayInv'
    <3>1. base' .. nextId' - 1 = {}
      BY <1>2, <1>3, <2>1
    <3> QED BY <3>1 DEF ReplayInv
  <2>13. CallInv'
    BY <1>1, <2>1, CallStates DEF CallInv
  <2> QED BY <2>5, <2>6, <2>7, <2>8, <2>11, <2>12, <2>13 DEF IInv
<1> QED BY <1>5, <1>6

LEMMA CheckpointStep == IInv /\ Checkpoint => IInv'
<1> SUFFICES ASSUME IInv, Checkpoint PROVE IInv'
  OBVIOUS
<1> USE DEF layerVars, depVars, history
<1>1. /\ TypeInv /\ StageInv /\ SeatInv /\ ChunkInv /\ OrderInv
      /\ ReplayInv /\ CallInv /\ HistoryInv /\ SavedInv
  BY DEF IInv
<1>2. /\ stage = "boundary" /\ saved' = State
      /\ UNCHANGED <<stage, layer, boundary, gateMap, finalMap, gates, block, pending, crashes>>
      /\ UNCHANGED <<routed, ledgerVars>>
  BY DEF Checkpoint, routed
<1>3. /\ base > 0 /\ chunk = <<>> /\ replayed = 0 /\ call = Ledger!Idle
  BY <1>1, <1>2 DEF StageInv
<1>4. base \in Nat /\ nextId = base /\ NextInst = base
  <2>1. base \in Nat /\ nextId = base + replayed /\ Len(chunk) = 0
    BY <1>1, <1>3, Numbers, EmptySeq
  <2> QED BY <1>3, <2>1 DEF NextInst
<1>5. TypeInv'
  BY <1>1, <1>2, SameTypes DEF TypeInv
<1>6. StageInv' /\ SeatInv'
  BY <1>1, <1>2 DEF StageInv, SeatInv, InZone, routed, ledgerVars, Ledger!Booking
<1>7. ChunkInv' /\ OrderInv' /\ ReplayInv' /\ HistoryInv' /\ CallInv'
  BY <1>1, <1>2, <1>3, SameLedger, SameCall
<1>8. Settled(journal, exposures, events, instructions, qubitDep)
  <2> SUFFICES ASSUME NEW q \in Atoms, NEW e \in events, e.id \in Touched(q)
               PROVE  qubitDep[q] \in DOMAIN instructions /\ e.stop <= instructions[qubitDep[q]].end
    BY DEF Settled, Touched
  <2>1. After(q, e.id, qubitDep[q])
    BY <1>1 DEF OrderInv
  <2>2. qubitDep[q] < base
    BY <1>1, <1>4 DEF TypeInv, RouterType, Before
  <2> QED BY <2>1, <2>2 DEF After
<1>9. SavedInv'
  <2>1. \A e \in events : e.id < base
    BY <1>1, <1>3, <1>4 DEF CallInv
  <2>2. PICK s : s = State
    OBVIOUS
  <2>3. /\ s.layer = layer /\ s.boundary = boundary /\ s.base = base /\ s.window = window
        /\ s.qubitDep = qubitDep /\ s.siteDep = siteDep /\ s.aodDep = aodDep
        /\ s.aodFree = aodFree /\ s.rydDep = rydDep /\ s.lastOneQ = lastOneQ
        /\ s.instructions = instructions /\ s.nextId = nextId /\ s.aodEnd = aodEnd
        /\ s.oneQEnd = oneQEnd /\ s.rydEnd = rydEnd
        /\ s.journal = journal /\ s.exposures = exposures /\ s.events = events
    BY <2>2 DEF State
  <2>4. saved' = s
    BY <1>2, <2>2
  <2>5. /\ RouterType(base, window, qubitDep, siteDep, aodDep, aodFree, rydDep, lastOneQ)
        /\ HistoryType(base, journal, exposures)
        /\ LedgerType(base, instructions, aodEnd, oneQEnd, rydEnd, events)
        /\ layer \in 0 .. Len(Program) /\ Placing(boundary)
    BY <1>1, <1>4 DEF TypeInv
  <2>6. Chained(journal, exposures, events) /\ PulsesExposed(exposures, events)
    BY <1>1 DEF HistoryInv
  <2> HIDE DEF State
  <2> QED BY <1>3, <1>4, <1>8, <2>1, <2>3, <2>4, <2>5, <2>6 DEF SavedInv
<1> QED BY <1>5, <1>6, <1>7, <1>9 DEF IInv

LEMMA RestoreStep == IInv /\ Restore => IInv'
<1> SUFFICES ASSUME IInv, Restore PROVE IInv'
  OBVIOUS
<1>1. PICK s : s = saved
  OBVIOUS
<1>2. /\ s.base \in Nat /\ s.base > 0 /\ s.layer \in 0 .. Len(Program)
      /\ s.nextId = s.base
      /\ Placing(s.boundary)
      /\ RouterType(s.base, s.window, s.qubitDep, s.siteDep, s.aodDep, s.aodFree, s.rydDep,
                    s.lastOneQ)
      /\ HistoryType(s.base, s.journal, s.exposures)
      /\ LedgerType(s.base, s.instructions, s.aodEnd, s.oneQEnd, s.rydEnd, s.events)
      /\ \A e \in s.events : e.id < s.base
      /\ Chained(s.journal, s.exposures, s.events)
      /\ PulsesExposed(s.exposures, s.events)
      /\ Settled(s.journal, s.exposures, s.events, s.instructions, s.qubitDep)
  BY <1>1 DEF Restore, IInv, SavedInv
<1>3. /\ crashes < MaxCrashes /\ crashes' = crashes + 1
      /\ layer' = s.layer /\ boundary' = s.boundary /\ base' = s.base
      /\ window' = s.window
      /\ qubitDep' = s.qubitDep /\ siteDep' = s.siteDep /\ aodDep' = s.aodDep
      /\ aodFree' = s.aodFree /\ rydDep' = s.rydDep /\ lastOneQ' = s.lastOneQ
      /\ instructions' = s.instructions /\ nextId' = s.nextId
      /\ aodEnd' = s.aodEnd /\ oneQEnd' = s.oneQEnd /\ rydEnd' = s.rydEnd
      /\ journal' = s.journal /\ exposures' = s.exposures /\ events' = s.events
      /\ call' = Ledger!Idle
      /\ gateMap' = s.boundary /\ finalMap' = s.boundary
      /\ pending' = {} /\ chunk' = <<>> /\ timed' = 0 /\ replayed' = 0
      /\ stage' \in {"boundary", "failed"} /\ saved' = saved
  BY <1>1 DEF Restore
<1>4. Len(chunk') = 0 /\ NextInst' = s.base /\ UntimedId' = s.base
  <2>1. Len(chunk') = 0
    BY <1>3, EmptySeq
  <2> QED BY <1>2, <1>3, <2>1 DEF NextInst, UntimedId
<1>5. TypeInv'
  <2>1. crashes' \in 0 .. MaxCrashes
    <3>1. crashes \in 0 .. MaxCrashes /\ MaxCrashes \in Nat
      BY RouteAssumption DEF IInv, TypeInv
    <3> QED BY <1>3, <3>1
  <2>2. s.aodDep \in [Aods -> Before(s.base)]
    BY <1>2 DEF RouterType
  <2> QED BY <1>2, <1>3, <1>4, <2>1, <2>2 DEF TypeInv
<1>6. StageInv'
  <2>1. ~Ledger!Booking'
    BY <1>3, CallStates DEF Ledger!Booking
  <2>2. nextId' = base' + 0 /\ 0 \in 0 .. Len(chunk')
    BY <1>2, <1>3, <1>4
  <2> QED BY <1>2, <1>3, <2>1, <2>2 DEF StageInv
<1>7. SeatInv'
  BY <1>3 DEF SeatInv
<1>8. ChunkInv'
  <2>1. IsSeq(chunk')
    BY <1>3, EmptySeq DEF IsSeq
  <2>2. 1 .. Len(chunk') = {}
    BY <1>4
  <2> QED BY <2>1, <2>2 DEF ChunkInv
<1>9. \A q : Touched(q)' = Touches(s.journal, s.exposures, q)
  BY <1>3 DEF Touched
<1>10. \A q : Touches(s.journal, s.exposures, q) \subseteq Before(s.base)
  BY <1>2, TouchedWritten
<1>11. OrderInv'
  <2>1. ASSUME NEW q \in Atoms, NEW i \in Touched(q)' PROVE After(q, i, qubitDep[q])'
    <3>1. PICK d : d = s.qubitDep[q]
      OBVIOUS
    <3>2. d < s.base
      BY <1>2, <3>1 DEF RouterType, Before
    <3>3. i < s.base /\ i \in Touches(s.journal, s.exposures, q)
      <4>1. i \in Touches(s.journal, s.exposures, q)
        BY <1>9, <2>1
      <4>2. i \in Before(s.base)
        BY <1>10, <4>1
      <4> QED BY <1>2, <4>1, <4>2 DEF Before
    <3>4. \A e \in s.events : e.id = i => d \in DOMAIN s.instructions
                                          /\ e.stop <= s.instructions[d].end
      BY <1>2, <3>1, <3>3 DEF Settled
    <3>5. After(q, i, d)'
      BY <1>3, <3>2, <3>3, <3>4 DEF After
    <3>6. qubitDep'[q] = d
      BY <1>3, <3>1
    <3> QED BY <3>5, <3>6 DEF After
  <2>2. \A q \in Atoms : \A n \in Touched(q)' : ~(base' <= n)
    BY <1>2, <1>3, <1>9, <1>10 DEF Before
  <2> QED BY <2>1, <2>2 DEF OrderInv
<1>12. ReplayInv'
  <2>1. base' .. nextId' - 1 = {}
    BY <1>2, <1>3
  <2> QED BY <2>1 DEF ReplayInv
<1>13. CallInv'
  <2>1. \A e \in s.events : e.id < s.base /\ e.id <= s.base
    BY <1>2 DEF LedgerType
  <2> QED BY <1>2, <1>3, <2>1, CallStates DEF CallInv
<1>14. HistoryInv'
  BY <1>2, <1>3 DEF HistoryInv
<1>15. SavedInv'
  BY <1>3 DEF IInv, SavedInv
<1> QED BY <1>5, <1>6, <1>7, <1>8, <1>11, <1>12, <1>13, <1>14, <1>15 DEF IInv

-----------------------------------------------------------------------------
(***************************************************************************)
(* Sites change hands.  An atom that is set down waits, through the site   *)
(* dependency its router wrote, for the job that last lifted an atom from  *)
(* there; that job lifted an atom which had been set down after the one    *)
(* lifted before, and so on back to any atom that ever left the site.      *)
(***************************************************************************)

Place == [q \in Atoms |-> Now(q)]

Apart(place) == \A p, q \in Atoms : place[p] = place[q] => p = q

\* The last job that lifted an atom from a site is remembered.
LiftsRemembered(j, sd) ==
  \A m \in j : /\ m.from \in DOMAIN sd /\ m.id <= sd[m.from]
               /\ \E l \in j : l.from = m.from /\ l.id = sd[m.from]

\* Between two lifts from a site, an atom was set down there: the second one.
Refilled(j) ==
  \A l, m \in j : l.from = m.from /\ l.id < m.id =>
    \E n \in j : n.to = m.from /\ n.atom = m.atom /\ l.id <= n.id /\ n.id < m.id

\* An atom that sits where another was lifted has been set down there since.
Arrived(j, place) ==
  \A m \in j : \A q \in Atoms : place[q] = m.from =>
    \E n \in j : n.atom = q /\ n.to = m.from /\ m.id <= n.id

\* Loads that came before a job left its site are over when it has picked up.
PickedUp(j, ins, ev) ==
  \A l, m \in j : l.from = m.from /\ l.id <= m.id /\ m.id \in DOMAIN ins =>
    /\ ins[m.id].kind = "aod"
    /\ \A e \in ev : e.id = l.id /\ e.type = "load" => e.stop <= ins[m.id].pickup

\* The property, for every load and store of the two jobs.
HandedOver(j, ev) ==
  \A m, n \in j : m.from = n.to /\ m.id <= n.id =>
    \A e, f \in ev : e.id = m.id /\ e.type = "load" /\ f.id = n.id /\ f.type = "store"
                       => e.stop <= f.start

\* Every job of the ledger has set its atoms down.
Stored(j, ev, next) ==
  \A n \in j : n.id < next => \E f \in ev : f.id = n.id /\ f.type = "store"

Forward(ev) == \A e \in ev : e.type = "store" => e.start <= e.stop

PlaceInv ==
  /\ Apart(Place) /\ Apart(gateMap) /\ Apart(finalMap)
  /\ stage = "boundary" => boundary = finalMap
  /\ stage \in {"boundary", "replay"} => pending = {}

JobInv ==
  /\ \A k \in 1 .. Len(chunk) : chunk[k].kind = "aod" => LiftsFirst(chunk[k].job)
  /\ \A m \in journal : base <= m.id => At(m.id).kind = "aod"
  /\ \A m, n \in journal : base <= n.id /\ m.from = n.to /\ m.id < n.id =>
       \E l \in journal : l.from = n.to /\ m.id <= l.id /\ l.id \in At(n.id).sites

LiftInv ==
  /\ LiftsRemembered(journal, siteDep) /\ Refilled(journal) /\ Arrived(journal, Place)

HandoverInv ==
  /\ DOMAIN instructions \subseteq Before(nextId)
  /\ PickedUp(journal, instructions, events) /\ HandedOver(journal, events)
  /\ Stored(journal, events, nextId) /\ Forward(events)

\* A call that books a job.
JobCall(c) ==
  /\ c.timing.kind = "aod" /\ c.timing.drop \in Nat
  /\ c.timing.begin <= c.timing.pickup /\ c.timing.pickup <= c.timing.begin + c.timing.drop
  /\ \A k \in 1 .. Len(c.booking) :
       /\ c.booking[k].type = "load" => c.booking[k].stop <= c.timing.pickup
       /\ c.booking[k].type = "store" => c.timing.begin + c.timing.drop <= c.booking[k].start
  /\ \E k \in 1 .. Len(c.booking) : c.booking[k].type = "store"
  /\ \A d \in Replayed.sites \ {nextId} :
       /\ d \in DOMAIN instructions
       /\ instructions[d].kind = "aod" => instructions[d].pickup <= c.timing.begin + c.timing.drop
  /\ \A e \in events : e.id = nextId =>
       /\ e.type = "load" => e.stop <= c.timing.pickup
       /\ e.type = "store" => c.timing.begin + c.timing.drop <= e.start

BookingInv ==
  call.state = "booking" =>
    /\ \A k \in 1 .. Len(call.booking) :
         call.booking[k].type = "store" => call.booking[k].start <= call.booking[k].stop
    /\ \A k \in 1 .. call.done : call.booking[k] \in events
    /\ Replayed.kind = "aod" => JobCall(call)

SavedSiteInv ==
  saved # NoCheckpoint =>
    /\ Apart(saved.boundary)
    /\ LiftsRemembered(saved.journal, saved.siteDep) /\ Refilled(saved.journal)
    /\ Arrived(saved.journal, saved.boundary)
    /\ DOMAIN saved.instructions \subseteq Before(saved.base)
    /\ PickedUp(saved.journal, saved.instructions, saved.events)
    /\ HandedOver(saved.journal, saved.events)
    /\ Stored(saved.journal, saved.events, saved.base) /\ Forward(saved.events)

SiteInv ==
  /\ PlaceInv /\ JobInv /\ LiftInv /\ HandoverInv /\ BookingInv /\ SavedSiteInv

SitesKept ==
  UNCHANGED <<boundary, gateMap, finalMap, pending>>

\* Where the atoms are does not depend on the stage once the gates are written.
LEMMA PlaceKept ==
  ASSUME PlaceInv, SitesKept, stage # "out", stage' # "out",
         stage' \in {"boundary", "replay"} => pending = {},
         stage' = "boundary" => boundary = finalMap
  PROVE  PlaceInv' /\ Place' = Place
<1>1. Place' = Place
  BY DEF Place, Now, From, To, SitesKept
<1>2. PlaceInv'
  BY <1>1 DEF PlaceInv, SitesKept, Apart
<1> QED BY <1>1, <1>2

LEMMA PlaceStays ==
  ASSUME PlaceInv, SitesKept, stage' = stage
  PROVE  PlaceInv' /\ Place' = Place
<1>1. Place' = Place
  BY DEF Place, Now, From, To, SitesKept
<1>2. PlaceInv'
  BY <1>1 DEF PlaceInv, SitesKept, Apart
<1> QED BY <1>1, <1>2

LEMMA LiftKept ==
  ASSUME LiftInv, Place' = Place, journal' = journal, siteDep' = siteDep
  PROVE  LiftInv'
  BY DEF LiftInv

LEMMA SavedKept ==
  ASSUME SavedSiteInv, saved' = saved
  PROVE  SavedSiteInv'
  BY DEF SavedSiteInv

LEMMA HandoverKept ==
  ASSUME HandoverInv, instructions' = instructions, nextId' = nextId, journal' = journal,
         events' = events
  PROVE  HandoverInv'
  BY DEF HandoverInv

LEMMA JobKept ==
  ASSUME JobInv, chunk' = chunk, base' = base, journal' = journal
  PROVE  JobInv'
  BY DEF JobInv, At

\* Nothing is booked outside the replay.
LEMMA NotBooking ==
  ASSUME IInv', stage' # "replay"
  PROVE  BookingInv'
<1>1. StageInv'
  BY DEF IInv
<1> QED BY <1>1 DEF StageInv, BookingInv, Ledger!Booking

LEMMA InitSites == Init => SiteInv
<1> SUFFICES ASSUME Init PROVE SiteInv
  OBVIOUS
<1> USE DEF Init, Ledger!Init
<1>1. PlaceInv
  <2>1. Place = InitialMapping
    BY RouteAssumption DEF Place, Now, To, From
  <2> QED BY <2>1, RouteAssumption DEF PlaceInv, Apart
<1>2. journal = {} /\ events = {} /\ call = Ledger!Idle /\ saved = NoCheckpoint
  OBVIOUS
<1>3. JobInv
  <2>1. ASSUME NEW k \in 1 .. Len(chunk), chunk[k].kind = "aod" PROVE FALSE
    <3>1. \A j \in 1 .. Len(chunk) : j = 1 \/ (j = 2 /\ block # <<>>)
      BY InitialChunk
    <3>2. CASE k = 1
      BY <2>1, <3>2, InitialChunk DEF Instruction
    <3>3. CASE k = 2 /\ block # <<>>
      BY <2>1, <3>3, InitialChunk DEF Instruction
    <3> QED BY <3>1, <3>2, <3>3
  <2> QED BY <2>1, <1>2 DEF JobInv
<1>4. LiftInv
  BY <1>2 DEF LiftInv, LiftsRemembered, Refilled, Arrived
<1>5. HandoverInv
  BY <1>2 DEF HandoverInv, PickedUp, HandedOver, Stored, Forward
<1>6. BookingInv /\ SavedSiteInv
  BY <1>2 DEF BookingInv, SavedSiteInv, Ledger!Idle
<1> QED BY <1>1, <1>3, <1>4, <1>5, <1>6 DEF SiteInv

\* A boundary accepts a layer: nobody moves yet.
LEMMA RouteLayerSites == IInv /\ IInv' /\ SiteInv /\ RouteLayer => SiteInv'
<1> SUFFICES ASSUME IInv, IInv', SiteInv, RouteLayer PROVE SiteInv'
  OBVIOUS
<1> USE DEF layerVars, depVars, crashVars, history, ledgerVars
<1>0. PICK s \in Program[layer + 1] :
        \E pairOf \in [DOMAIN s.gates -> SitePairs] :
          \E f \in Returns(Placement(s.gates, pairOf)) :
            AcceptLayer(s, Placement(s.gates, pairOf), f)
  BY DEF RouteLayer
<1>1. PICK pairOf \in [DOMAIN s.gates -> SitePairs] :
        \E f \in Returns(Placement(s.gates, pairOf)) :
          AcceptLayer(s, Placement(s.gates, pairOf), f)
  BY <1>0
<1>2. PICK g : g = Placement(s.gates, pairOf)
  OBVIOUS
<1>12. PICK f \in Returns(g) : AcceptLayer(s, g, f)
  BY <1>1, <1>2
<1>3. /\ stage = "boundary" /\ Seated(s.gates, g) /\ gateMap' = g /\ finalMap' = f
      /\ stage' = "out" /\ pending' = {q \in Participants(s.gates) : boundary[q] # g[q]}
      /\ UNCHANGED <<boundary, base, chunk, siteDep, saved, journal, instructions, nextId, events>>
  BY <1>12 DEF AcceptLayer
<1>4. \A q \in Atoms \ Participants(s.gates) : g[q] = boundary[q]
  BY <1>2 DEF Placement
<1>5. boundary \in [Atoms -> Sites] /\ finalMap \in [Atoms -> Sites]
  BY DEF IInv, TypeInv, Placing
<1>6. /\ PlaceInv /\ JobInv /\ LiftInv /\ HandoverInv /\ SavedSiteInv
  BY DEF SiteInv
<1>7. Place = boundary /\ Place' = boundary
  <2>1. Place = boundary
    BY <1>3, <1>5, <1>6 DEF PlaceInv, Place, Now, From, To
  <2>2. \A q \in Atoms : Now(q)' = boundary[q]
    <3> TAKE q \in Atoms
    <3>1. CASE q \in pending'
      BY <3>1, <1>3 DEF Now, From
    <3>2. CASE q \notin pending'
      BY <3>2, <1>3, <1>4 DEF Now, To
    <3> QED BY <3>1, <3>2
  <2>3. Place' = [q \in Atoms |-> boundary[q]]
    BY <2>2 DEF Place
  <2> QED BY <2>1, <2>3, <1>5
<1>8. Apart(g) /\ Apart(f)
  <2>1. Apart(g)
    BY <1>3 DEF Seated, Apart
  <2>2. Apart(f)
    BY <1>12 DEF Returns, Apart
  <2> QED BY <2>1, <2>2
<1>9. PlaceInv'
  BY <1>3, <1>6, <1>7, <1>8 DEF PlaceInv, Apart
<1>10. LiftInv' /\ JobInv' /\ HandoverInv' /\ SavedSiteInv'
  BY <1>3, <1>6, <1>7, LiftKept, JobKept, HandoverKept, SavedKept
<1>11. BookingInv'
  BY <1>3, NotBooking
<1> QED BY <1>9, <1>10, <1>11 DEF SiteInv

-----------------------------------------------------------------------------
(***************************************************************************)
(* A job is written: its atoms leave their sites and have targets.         *)
(***************************************************************************)

\* The legs a job enters into the journal.
JobLeg(q, id) ==
  [id |-> id, atom |-> q, from |-> From[q], to |-> To[q], layer |-> layer, phase |-> stage]

JobLegs(atoms, id) == {JobLeg(q, id) : q \in atoms}

LEMMA JobLegFields ==
  ASSUME NEW atoms, NEW id
  PROVE  /\ \A q : /\ JobLeg(q, id).id = id /\ JobLeg(q, id).atom = q
                   /\ JobLeg(q, id).from = From[q] /\ JobLeg(q, id).to = To[q]
         /\ \A m : m \in JobLegs(atoms, id) <=> \E q \in atoms : m = JobLeg(q, id)
  BY DEF JobLeg, JobLegs

\* A job waits for the last job that lifted an atom from a target, or is it.
LEMMA VisitSites ==
  ASSUME TypeInv, NEW atoms \in SUBSET Atoms, NEW id, NEW q \in atoms, To[q] \in DOMAIN siteDep
  PROVE  \/ siteDep[To[q]] \in SiteDepsOf(VisitOrder(atoms), id)
         \/ id \in SiteDepsOf(VisitOrder(atoms), id) /\ \E p \in atoms : From[p] = To[q]
<1>1. PICK r : r = [p \in atoms |-> RowOf[From[p]]]
  OBVIOUS
<1>2. \A p \in atoms : r[p] \in Int
  <2>1. \A p \in atoms : From[p] \in Sites
    BY DEF TypeInv, Placing, From
  <2> QED BY <1>1, <2>1, RouteAssumption
<1>3. IsFiniteSet(atoms) /\ atoms \subseteq Int
  <2>1. IsFiniteSet(atoms)
    BY RouteAssumption, FS_Subset
  <2>2. atoms \subseteq Int
    BY RouteAssumption
  <2> QED BY <2>1, <2>2
<1>4. PICK s : s = VisitOrder(atoms) /\ s = FlattenSeq(RowSeq(atoms, r))
  BY <1>1 DEF VisitOrder
<1>5. s \in Seq(atoms) /\ \A p \in atoms : \E k \in 1 .. Len(s) : s[k] = p
  <2>1. Visits(FlattenSeq(RowSeq(atoms, r)), atoms)
    BY <1>2, <1>3, RowsHaveAll
  <2>2. Visits(s, atoms)
    BY <2>1, <1>4
  <2> QED BY <2>2 DEF Visits
<1>6. PICK k \in 1 .. Len(s) : s[k] = q
  BY <1>5
<1>7. k \in DOMAIN s /\ To[s[k]] \in DOMAIN siteDep
  BY <1>5, <1>6, LenProperties
<1>8. CASE \E i \in 1 .. k - 1 : From[s[i]] = To[s[k]]
  <2>1. PICK i \in 1 .. k - 1 : From[s[i]] = To[s[k]]
    BY <1>8
  <2>2. s[i] \in atoms
    <3>1. PICK n \in Nat : n = Len(s) /\ k \in 1 .. n
      BY <1>5, <1>6, LenProperties
    <3>2. i \in 1 .. n
      BY <3>1
    <3> QED BY <3>1, <3>2, <1>5, ElementOfSeq
  <2>3. id \in SiteDepsOf(s, id)
    BY <1>7, <1>8 DEF SiteDepsOf
  <2> QED BY <1>4, <1>6, <2>1, <2>2, <2>3
<1>9. CASE ~ \E i \in 1 .. k - 1 : From[s[i]] = To[s[k]]
  <2>1. siteDep[To[s[k]]] \in SiteDepsOf(s, id)
    BY <1>7, <1>9 DEF SiteDepsOf
  <2> QED BY <1>4, <1>6, <2>1
<1> QED BY <1>8, <1>9

LEMMA EmitJobSites ==
  ASSUME IInv, IInv', SiteInv, NEW atoms \in SUBSET pending, EmitJob(atoms)
  PROVE  SiteInv'
<1> USE DEF layerVars, crashVars
<1> DEFINE rows == RowSeq(atoms, [q \in atoms |-> RowOf[From[q]]])
           colOf == [q \in atoms |-> ColOf[From[q]]]
           job == ExpandedJob(rows, colOf)
           deps == {qubitDep[q] : q \in atoms}
<1>1. PICK id : id = NextInst
  OBVIOUS
<1> DEFINE sites == SiteDepsOf(VisitOrder(atoms), id)
           instr == Instruction("aod", VisitOrder(atoms), job, deps, sites)
<1>2. /\ TypeInv /\ StageInv /\ ChunkInv /\ CallInv
      /\ PlaceInv /\ JobInv /\ LiftInv /\ HandoverInv /\ SavedSiteInv
  BY DEF IInv, SiteInv
<1>3. /\ Len(chunk) \in Nat /\ id \in Nat /\ base \in Nat /\ id = base + Len(chunk) /\ base <= id
  BY <1>1, <1>2, Numbers DEF NextInst
<1>4. /\ stage \in {"out", "back"} /\ timed = 0 /\ atoms # {} /\ atoms \subseteq Atoms
      /\ \A q \in atoms, p \in Atoms \ atoms : Now(p) # To[q]
      /\ chunk' = Append(chunk, instr)
      /\ siteDep' = [s \in DOMAIN siteDep \cup {From[q] : q \in atoms} |->
                       IF s \in {From[q] : q \in atoms} THEN id ELSE siteDep[s]]
      /\ pending' = pending \ atoms
      /\ journal' = journal \cup JobLegs(atoms, id)
      /\ UNCHANGED <<stage, boundary, gateMap, finalMap, base, saved, instructions, nextId, call, events>>
  BY <1>1, <1>2 DEF EmitJob, TypeInv, JobLegs, JobLeg, ledgerVars
<1>5. nextId = base /\ call = Ledger!Idle
  BY <1>2, <1>3, <1>4 DEF StageInv
<1>6. /\ IsSeq(chunk') /\ Len(chunk') = Len(chunk) + 1
      /\ \A k \in 1 .. Len(chunk) : chunk'[k] = chunk[k]
      /\ chunk'[Len(chunk) + 1] = instr
  <2> HIDE DEF instr
  <2> QED BY <1>2, <1>4, AppendIsSeq DEF ChunkInv
<1>7. /\ instr.kind = "aod" /\ instr.job = job /\ instr.sites = sites
  BY DEF Instruction
<1>8. LiftsFirst(job)
  <2>1. IsFiniteSet(atoms)
    BY <1>4, RouteAssumption, FS_Subset
  <2> QED BY <2>1, <1>4, ExpandedIsGood
<1> HIDE DEF instr, job, deps, sites
<1>9. \A m \in journal : m.id \in Nat /\ m.id < id
  BY <1>1, <1>2, <1>3 DEF TypeInv, HistoryType, Before
<1>10. /\ \A m \in JobLegs(atoms, id) : \E q \in atoms : /\ m.id = id /\ m.atom = q
                                                         /\ m.from = From[q] /\ m.to = To[q]
       /\ \A q \in atoms : \E m \in JobLegs(atoms, id) : /\ m.id = id /\ m.atom = q
                                                         /\ m.from = From[q] /\ m.to = To[q]
  BY JobLegFields
<1>11. /\ \A q \in Atoms : Place[q] = Now(q) /\ Place'[q] = Now(q)'
       /\ \A q \in atoms : Place[q] = From[q] /\ Place'[q] = To[q]
       /\ \A q \in Atoms \ atoms : Place'[q] = Place[q]
  <2>1. From' = From /\ To' = To
    BY <1>4 DEF From, To
  <2> QED BY <1>4, <2>1 DEF Place, Now
<1>12. PlaceInv'
  <2>1. Apart(To) /\ Apart(Place)
    BY <1>2, <1>4 DEF To, PlaceInv
  <2>2. Apart(Place')
    <3> SUFFICES ASSUME NEW p \in Atoms, NEW q \in Atoms, Place'[p] = Place'[q] PROVE p = q
      BY DEF Apart
    <3>1. CASE p \in atoms /\ q \in atoms
      BY <3>1, <1>11, <2>1 DEF Apart
    <3>2. CASE p \notin atoms /\ q \notin atoms
      BY <3>2, <1>11, <2>1 DEF Apart
    <3>3. CASE p \in atoms /\ q \notin atoms
      BY <3>3, <1>4, <1>11
    <3>4. CASE p \notin atoms /\ q \in atoms
      BY <3>4, <1>4, <1>11
    <3> QED BY <3>1, <3>2, <3>3, <3>4
  <2> QED BY <2>2, <1>2, <1>4 DEF PlaceInv, Apart
<1>13. LiftInv'
  <2>1. LiftsRemembered(journal', siteDep')
    <3> SUFFICES ASSUME NEW m \in journal'
                 PROVE  /\ m.from \in DOMAIN siteDep' /\ m.id <= siteDep'[m.from]
                        /\ \E l \in journal' : l.from = m.from /\ l.id = siteDep'[m.from]
      BY DEF LiftsRemembered
    <3>1. CASE \E q \in atoms : m.from = From[q]
      <4>1. m.from \in DOMAIN siteDep' /\ siteDep'[m.from] = id
        BY <3>1, <1>4
      <4>2. m.id <= id
        BY <1>3, <1>4, <1>9, <1>10
      <4>3. \E l \in journal' : l.from = m.from /\ l.id = id
        BY <3>1, <1>4, <1>10
      <4> QED BY <4>1, <4>2, <4>3
    <3>2. CASE ~ \E q \in atoms : m.from = From[q]
      <4>1. m \in journal
        BY <3>2, <1>4, <1>10
      <4>2. /\ m.from \in DOMAIN siteDep /\ m.id <= siteDep[m.from]
            /\ \E l \in journal : l.from = m.from /\ l.id = siteDep[m.from]
        BY <4>1, <1>2 DEF LiftInv, LiftsRemembered
      <4>3. m.from \in DOMAIN siteDep' /\ siteDep'[m.from] = siteDep[m.from]
        BY <3>2, <4>2, <1>4
      <4> QED BY <4>2, <4>3, <1>4
    <3> QED BY <3>1, <3>2
  <2>2. Refilled(journal')
    <3> SUFFICES ASSUME NEW l \in journal', NEW m \in journal', l.from = m.from, l.id < m.id
                 PROVE  \E n \in journal' : /\ n.to = m.from /\ n.atom = m.atom
                                            /\ l.id <= n.id /\ n.id < m.id
      BY DEF Refilled
    <3>1. l \in journal
      <4>1. ~(id < id)
        BY <1>3
      <4>2. m.id = id \/ (m.id \in Nat /\ m.id < id)
        BY <1>4, <1>9, <1>10
      <4>3. l.id # id
        BY <4>1, <4>2, <1>3
      <4> QED BY <4>3, <1>4, <1>10
    <3>2. CASE m \in journal
      BY <3>1, <3>2, <1>2, <1>4 DEF LiftInv, Refilled
    <3>3. CASE m \notin journal
      <4>1. PICK q \in atoms : m.id = id /\ m.atom = q /\ m.from = From[q]
        BY <3>3, <1>4, <1>10
      <4>2. PICK n \in journal : n.atom = q /\ n.to = l.from /\ l.id <= n.id
        BY <3>1, <4>1, <1>2, <1>4, <1>11 DEF LiftInv, Arrived
      <4> QED BY <4>1, <4>2, <1>4, <1>9
    <3> QED BY <3>2, <3>3
  <2>3. Arrived(journal', Place')
    <3> SUFFICES ASSUME NEW m \in journal', NEW q \in Atoms, Place'[q] = m.from
                 PROVE  \E n \in journal' : n.atom = q /\ n.to = m.from /\ m.id <= n.id
      BY DEF Arrived
    <3>1. m.id <= id
      BY <1>3, <1>4, <1>9, <1>10
    <3>2. CASE q \in atoms
      BY <3>1, <3>2, <1>4, <1>10, <1>11
    <3>3. CASE q \notin atoms /\ m \in journal
      BY <3>3, <1>2, <1>4, <1>11 DEF LiftInv, Arrived
    <3>4. CASE q \notin atoms /\ m \notin journal
      <4>1. PICK p \in atoms : m.from = From[p]
        BY <3>4, <1>4, <1>10
      <4>2. Place[p] = Place[q] /\ p \in Atoms
        BY <4>1, <3>4, <1>4, <1>11
      <4>3. p = q
        BY <4>2, <1>2 DEF PlaceInv, Apart
      <4> QED BY <4>3, <3>4
    <3> QED BY <3>2, <3>3, <3>4
  <2> QED BY <2>1, <2>2, <2>3 DEF LiftInv
<1>14. /\ \A n : n = id => At(n)' = instr
       /\ \A n \in Nat : base <= n /\ n < id => At(n)' = At(n)
  <2>1. ASSUME NEW n, n = id PROVE At(n)' = instr
    <3>1. (n - base') + 1 = Len(chunk) + 1
      BY <2>1, <1>3, <1>4
    <3> QED BY <3>1, <1>6 DEF At
  <2>2. ASSUME NEW n \in Nat, base <= n, n < id PROVE At(n)' = At(n)
    <3>1. (n - base) + 1 \in 1 .. Len(chunk) /\ base' = base
      BY <2>2, <1>3, <1>4
    <3> QED BY <3>1, <1>6 DEF At
  <2> QED BY <2>1, <2>2
<1>15. JobInv'
  <2>1. \A k \in 1 .. Len(chunk') : chunk'[k].kind = "aod" => LiftsFirst(chunk'[k].job)
    <3> TAKE k \in 1 .. Len(chunk')
    <3>1. CASE k \in 1 .. Len(chunk)
      BY <3>1, <1>2, <1>6 DEF JobInv
    <3>2. CASE k = Len(chunk) + 1
      BY <3>2, <1>6, <1>7, <1>8
    <3>3. k \in 1 .. Len(chunk) \/ k = Len(chunk) + 1
      BY <1>3, <1>6
    <3> QED BY <3>1, <3>2, <3>3
  <2>2. \A m \in journal' : base' <= m.id => At(m.id)'.kind = "aod"
    <3> TAKE m \in journal'
    <3>1. CASE m \in journal
      BY <3>1, <1>2, <1>4, <1>9, <1>14 DEF JobInv
    <3>2. CASE m \notin journal
      BY <3>2, <1>4, <1>7, <1>10, <1>14
    <3> QED BY <3>1, <3>2
  <2>3. ASSUME NEW m \in journal', NEW n \in journal', base' <= n.id, m.from = n.to, m.id < n.id
        PROVE  \E l \in journal' : l.from = n.to /\ m.id <= l.id /\ l.id \in At(n.id)'.sites
    <3>1. m \in journal
      <4>1. n.id = id \/ (n.id \in Nat /\ n.id < id)
        BY <1>4, <1>9, <1>10
      <4>2. m.id # id
        BY <4>1, <2>3, <1>3
      <4> QED BY <4>2, <1>4, <1>10
    <3>2. CASE n \in journal
      <4>1. At(n.id)' = At(n.id)
        BY <3>2, <2>3, <1>4, <1>9, <1>14
      <4> QED BY <3>1, <3>2, <4>1, <2>3, <1>2, <1>4 DEF JobInv
    <3>3. CASE n \notin journal
      <4>1. PICK q \in atoms : n.id = id /\ n.atom = q /\ n.to = To[q]
        BY <3>3, <1>4, <1>10
      <4>2. /\ To[q] \in DOMAIN siteDep /\ m.id <= siteDep[To[q]]
            /\ \E l \in journal : l.from = To[q] /\ l.id = siteDep[To[q]]
        BY <3>1, <4>1, <2>3, <1>2 DEF LiftInv, LiftsRemembered
      <4>3. At(n.id)'.sites = sites
        BY <4>1, <1>7, <1>14
      <4>4. \/ siteDep[To[q]] \in sites
            \/ id \in sites /\ \E p \in atoms : From[p] = To[q]
        BY <4>2, <1>2, <1>4, VisitSites DEF sites
      <4>5. CASE siteDep[To[q]] \in sites
        BY <4>1, <4>2, <4>3, <4>5, <1>4
      <4>6. CASE id \in sites /\ \E p \in atoms : From[p] = To[q]
        <5>1. PICK l \in JobLegs(atoms, id) : l.id = id /\ l.from = To[q]
          BY <4>6, <1>10
        <5>2. m.id <= id
          BY <3>1, <1>3, <1>9
        <5> QED BY <5>1, <5>2, <4>1, <4>3, <4>6, <1>4
      <4> QED BY <4>4, <4>5, <4>6
    <3> QED BY <3>2, <3>3
  <2> QED BY <2>1, <2>2, <2>3 DEF JobInv
<1>16. \A e \in events : e.id < base
  BY <1>2, <1>4, <1>5 DEF CallInv
<1>17. \A e \in events, m \in JobLegs(atoms, id) : e.id # m.id
  BY <1>3, <1>10, <1>16
<1>18. HandoverInv'
  <2>1. PickedUp(journal', instructions, events)
    <3>1. DOMAIN instructions \subseteq Before(base)
      BY <1>2, <1>5 DEF HandoverInv
    <3>2. \A m \in JobLegs(atoms, id) : m.id \notin DOMAIN instructions
      BY <3>1, <1>3, <1>10 DEF Before
    <3> SUFFICES ASSUME NEW l \in journal', NEW m \in journal', l.from = m.from, l.id <= m.id,
                        m.id \in DOMAIN instructions
                 PROVE  /\ instructions[m.id].kind = "aod"
                        /\ \A e \in events : e.id = l.id /\ e.type = "load"
                                                => e.stop <= instructions[m.id].pickup
      BY DEF PickedUp
    <3>3. m \in journal
      BY <3>2, <1>4
    <3>4. instructions[m.id].kind = "aod"
      BY <3>3, <1>2, <1>9 DEF HandoverInv, PickedUp
    <3>5. CASE l \in journal
      BY <3>3, <3>5, <1>2 DEF HandoverInv, PickedUp
    <3>6. CASE l \notin journal
      BY <3>4, <3>6, <1>4, <1>17
    <3> QED BY <3>5, <3>6
  <2>2. HandedOver(journal', events)
    BY <1>2, <1>4, <1>17 DEF HandoverInv, HandedOver
  <2>3. Stored(journal', events, nextId)
    <3>1. \A m \in JobLegs(atoms, id) : ~(m.id < nextId)
      BY <1>3, <1>5, <1>10
    <3> QED BY <3>1, <1>2, <1>4 DEF HandoverInv, Stored
  <2> QED BY <2>1, <2>2, <2>3, <1>2, <1>4 DEF HandoverInv
<1>19. BookingInv' /\ SavedSiteInv'
  BY <1>2, <1>4, NotBooking, SavedKept
<1> QED BY <1>12, <1>13, <1>15, <1>18, <1>19 DEF SiteInv

-----------------------------------------------------------------------------
(***************************************************************************)
(* Gates and times leave the jobs alone.                                   *)
(***************************************************************************)

LEMMA EmitGatesSites == IInv /\ IInv' /\ SiteInv /\ EmitGates => SiteInv'
<1> SUFFICES ASSUME IInv, IInv', SiteInv, EmitGates PROVE SiteInv'
  OBVIOUS
<1> USE DEF layerVars, crashVars, ledgerVars
<1>a. PICK cz : cz = NextInst
  OBVIOUS
<1>b. PICK dep1 : dep1 = [q \in Atoms |-> IF q \in Participants(gates) THEN cz ELSE qubitDep[q]]
  OBVIOUS
<1>c. PICK dep2 : dep2 = [q \in Atoms |-> IF q \in ToSet(block) THEN cz + 1 ELSE dep1[q]]
  OBVIOUS
<1>d. PICK czDeps : czDeps = {qubitDep[q] : q \in Participants(gates)} \cup {rydDep} \cup BoundDeps(dep2, cz)
  OBVIOUS
<1>e. PICK oneDeps : oneDeps = {dep1[q] : q \in ToSet(block)}
                               \cup (IF lastOneQ = None THEN {} ELSE {lastOneQ})
  OBVIOUS
<1>f. PICK a : a = Instruction("cz", FlattenSeq(gates), <<>>, czDeps, {})
  OBVIOUS
<1>g. PICK b : b = Instruction("one_qubit", block, <<>>, oneDeps, {})
  OBVIOUS
<1>h. a.kind = "cz" /\ b.kind = "one_qubit"
  BY <1>f, <1>g DEF Instruction
<1>1. /\ stage = "out" /\ pending = {}
      /\ chunk' = chunk \o <<a>> \o (IF block # <<>> THEN <<b>> ELSE <<>>)
      /\ stage' = "back"
      /\ pending' = {q \in Atoms : gateMap[q] # finalMap[q]}
      /\ UNCHANGED <<boundary, gateMap, finalMap, base, siteDep, saved, journal, ledgerVars>>
  BY <1>a, <1>b, <1>c, <1>d, <1>e, <1>f, <1>g DEF EmitGates
<1>2. /\ ChunkInv /\ TypeInv /\ StageInv
      /\ PlaceInv /\ JobInv /\ LiftInv /\ HandoverInv /\ SavedSiteInv
  BY DEF IInv, SiteInv
<1>3. /\ Len(chunk') = (IF block # <<>> THEN Len(chunk) + 2 ELSE Len(chunk) + 1)
      /\ \A k \in 1 .. Len(chunk) : chunk'[k] = chunk[k]
      /\ chunk'[Len(chunk) + 1] = a /\ (block # <<>> => chunk'[Len(chunk) + 2] = b)
  <2>1. PICK t : t = chunk'
    OBVIOUS
  <2>2. t = Extended(chunk, a, block, b)
    BY <2>1, <1>1 DEF Extended
  <2>3. Extends(t, chunk, a, block, b)
    BY <2>2, <1>2, OneOrTwoMore DEF ChunkInv
  <2> QED BY <2>1, <2>3 DEF Extends
<1>4. Len(chunk) \in Nat /\ base \in Nat /\ NextInst = base + Len(chunk)
  BY <1>2, Numbers DEF NextInst
<1>5. Place = gateMap /\ Place' = gateMap
  <2>1. \A q \in Atoms : Now(q) = gateMap[q]
    BY <1>1 DEF Now, To
  <2>2. \A q \in Atoms : Now(q)' = gateMap[q]
    BY <1>1 DEF Now, From, To
  <2>3. gateMap = [q \in Atoms |-> gateMap[q]]
    BY <1>2 DEF TypeInv, Placing
  <2> QED BY <2>1, <2>2, <2>3 DEF Place
<1>6. PlaceInv'
  BY <1>1, <1>2, <1>5 DEF PlaceInv, Apart
<1>7. JobInv'
  <2>1. ASSUME NEW k \in 1 .. Len(chunk') PROVE chunk'[k].kind = "aod" => LiftsFirst(chunk'[k].job)
    <3>1. k \in 1 .. Len(chunk) \/ k = Len(chunk) + 1 \/ (k = Len(chunk) + 2 /\ block # <<>>)
      BY <1>3, <1>4
    <3>2. CASE k \in 1 .. Len(chunk)
      BY <3>2, <1>2, <1>3 DEF JobInv
    <3>3. CASE k = Len(chunk) + 1
      BY <3>3, <1>h, <1>3
    <3>4. CASE k = Len(chunk) + 2 /\ block # <<>>
      BY <3>4, <1>h, <1>3
    <3> QED BY <3>1, <3>2, <3>3, <3>4
  <2>2. \A m \in journal : base <= m.id => At(m.id)' = At(m.id)
    <3> SUFFICES ASSUME NEW m \in journal, base <= m.id PROVE At(m.id)' = At(m.id)
      OBVIOUS
    <3>1. m.id \in Before(NextInst)
      BY <1>2 DEF TypeInv, HistoryType
    <3>2. (m.id - base) + 1 \in 1 .. Len(chunk) /\ base' = base /\ m' = m
      BY <3>1, <1>1, <1>4 DEF Before
    <3> QED BY <3>2, <1>3 DEF At
  <2> QED BY <2>1, <2>2, <1>1, <1>2 DEF JobInv
<1>8. LiftInv' /\ HandoverInv' /\ SavedSiteInv'
  BY <1>1, <1>2, <1>5, LiftKept, HandoverKept, SavedKept
<1>9. BookingInv'
  BY <1>1, NotBooking
<1> QED BY <1>6, <1>7, <1>8, <1>9 DEF SiteInv

SameJobs ==
  /\ Len(chunk') = Len(chunk)
  /\ \A k \in 1 .. Len(chunk) : /\ chunk'[k].kind = chunk[k].kind
                                /\ chunk'[k].job = chunk[k].job
                                /\ chunk'[k].sites = chunk[k].sites

LEMMA JobsTimed ==
  ASSUME TypeInv, JobInv, SameJobs, base' = base, journal' = journal
  PROVE  JobInv'
<1>1. \A m \in journal : base <= m.id => /\ At(m.id)'.kind = At(m.id).kind
                                         /\ At(m.id)'.sites = At(m.id).sites
  <2> SUFFICES ASSUME NEW m \in journal, base <= m.id
               PROVE  /\ At(m.id)'.kind = At(m.id).kind
                      /\ At(m.id)'.sites = At(m.id).sites
    OBVIOUS
  <2>1. m.id \in Before(NextInst) /\ base \in Nat
    BY DEF TypeInv, HistoryType
  <2>2. (m.id - base) + 1 \in 1 .. Len(chunk) /\ base' = base /\ m' = m
    BY <2>1 DEF Before, NextInst
  <2> QED BY <2>2 DEF At, SameJobs
<1> QED BY <1>1 DEF JobInv, SameJobs

LEMMA AssignTimesSites == IInv /\ IInv' /\ SiteInv /\ AssignTimes => SiteInv'
<1> SUFFICES ASSUME IInv, IInv', SiteInv, AssignTimes PROVE SiteInv'
  OBVIOUS
<1> USE DEF layerVars, crashVars, history, ledgerVars, depVars
<1>1. /\ TypeInv /\ ChunkInv /\ PlaceInv /\ JobInv /\ LiftInv /\ HandoverInv /\ SavedSiteInv
  BY DEF IInv, SiteInv
<1>2. /\ stage = "back" /\ pending = {} /\ stage' \in {"back", "replay", "failed"}
      /\ UNCHANGED <<boundary, gateMap, finalMap, pending, base, siteDep, saved, journal,
                     instructions, nextId, events, call>>
  BY DEF AssignTimes, Assigning, Fail, TimeJob, TimeGate, SetTimes
<1>3. timed + 1 \in 1 .. Len(chunk) /\ GoodInstruction(Untimed, UntimedId, exposures)
      /\ call = Ledger!Idle
  BY UntimedFacts DEF AssignTimes
<1>4. SameJobs
  <2>1. CASE chunk' = chunk
    BY <2>1 DEF SameJobs
  <2>2. CASE Known(Untimed) /\ TimeJob(Untimed)
    <3>1. PICK r \in Aods :
            chunk' = [chunk EXCEPT ![timed + 1].deps = @ \cup {aodDep[r]}, ![timed + 1].aod = r]
      BY <2>2 DEF TimeJob
    <3>2. PICK i : i = [Untimed EXCEPT !.deps = @ \cup {aodDep[r]}, !.aod = r]
      OBVIOUS
    <3>3. chunk' = [chunk EXCEPT ![timed + 1] = i]
      BY <3>1, <3>2 DEF Untimed
    <3>4. i.kind = Untimed.kind /\ i.job = Untimed.job /\ i.sites = Untimed.sites
      <4>1. PICK u : u = Untimed
        OBVIOUS
      <4>2. u = [kind |-> u.kind, atoms |-> u.atoms, job |-> u.job, deps |-> u.deps,
                 sites |-> u.sites, aod |-> u.aod]
        BY <4>1, <1>3 DEF GoodInstruction
      <4>3. i = [kind |-> u.kind, atoms |-> u.atoms, job |-> u.job,
                 deps |-> u.deps \cup {aodDep[r]}, sites |-> u.sites, aod |-> r]
        BY <4>1, <4>2, <3>2
      <4> QED BY <4>1, <4>3
    <3>5. PICK s : s = chunk /\ s \in Seq(ToSet(s) \cup {i})
      <4>1. chunk \in Seq(ToSet(chunk))
        BY <1>1 DEF ChunkInv, IsSeq
      <4> QED BY <4>1, SeqMonotonic
    <3>6. PICK t : t = [s EXCEPT ![timed + 1] = i]
      OBVIOUS
    <3>7. Len(t) = Len(s) /\ \A j \in 1 .. Len(s) : t[j] = IF j = timed + 1 THEN i ELSE s[j]
      BY <1>3, <3>5, <3>6, ExceptSeq
    <3>8. t = chunk'
      BY <3>3, <3>5, <3>6
    <3> QED BY <3>4, <3>5, <3>7, <3>8 DEF SameJobs, Untimed
  <2>3. chunk' = chunk \/ (Known(Untimed) /\ TimeJob(Untimed))
    BY DEF AssignTimes, Fail, TimeGate
  <2> QED BY <2>1, <2>2, <2>3
<1>5. JobInv'
  BY <1>1, <1>2, <1>4, JobsTimed
<1>6. PlaceInv' /\ Place' = Place
  BY <1>1, <1>2, PlaceKept DEF SitesKept
<1>7. LiftInv' /\ HandoverInv' /\ SavedSiteInv'
  BY <1>1, <1>2, <1>6, LiftKept, HandoverKept, SavedKept
<1>8. BookingInv'
  <2>1. call'.state # "booking"
    BY <1>2, <1>3 DEF Ledger!Idle
  <2> QED BY <2>1 DEF BookingInv
<1> QED BY <1>5, <1>6, <1>7, <1>8 DEF SiteInv

-----------------------------------------------------------------------------
(***************************************************************************)
(* The ledger's call for a job knows when it lifts and sets down.          *)
(***************************************************************************)

\* A failure leaves the sites to whoever has them.
LEMMA FailSites ==
  ASSUME SiteInv, Fail, stage # "out",
         UNCHANGED <<instructions, nextId, events>>, call'.state # "booking"
  PROVE  SiteInv'
<1> USE DEF Fail, layerVars, depVars, crashVars, history
<1>1. /\ PlaceInv /\ JobInv /\ LiftInv /\ HandoverInv /\ SavedSiteInv
  BY DEF SiteInv
<1>2. PlaceInv' /\ Place' = Place
  BY <1>1, PlaceKept DEF SitesKept
<1>3. LiftInv' /\ JobInv' /\ HandoverInv' /\ SavedSiteInv'
  BY <1>1, <1>2, LiftKept, JobKept, HandoverKept, SavedKept
<1> QED BY <1>2, <1>3 DEF SiteInv, BookingInv

\* A step of the ledger leaves the router's part alone.
LEMMA LedgerStepSites ==
  ASSUME SiteInv, UNCHANGED <<stage, routerVars>>
  PROVE  PlaceInv' /\ JobInv' /\ LiftInv' /\ SavedSiteInv'
<1> USE DEF routerVars, layerVars, depVars, crashVars, history
<1>1. /\ PlaceInv /\ JobInv /\ LiftInv /\ SavedSiteInv
  BY DEF SiteInv
<1>2. PlaceInv' /\ Place' = Place
  BY <1>1, PlaceStays DEF SitesKept
<1> QED BY <1>1, <1>2, LiftKept, JobKept, SavedKept

\* The offsets at which a job picks up and drops.
LEMMA JobOffsets ==
  ASSUME NEW job, GoodJob(job), LiftsFirst(job), DropOffset(job) \in Nat,
         NEW pickup \in Nat, Ledger!IsLatest(pickup, Ledger!Offsets(job, "load", "stop")),
         NEW drop \in Ledger!Offsets(job, "store", "start"),
         \A u \in Ledger!Offsets(job, "store", "start") : drop <= u
  PROVE  /\ pickup <= drop
         /\ \A k \in DOMAIN job : /\ job[k].kind = "load" => job[k].stop <= pickup
                                  /\ job[k].kind = "store" => drop <= job[k].start
         /\ \E k \in DOMAIN job : job[k].kind = "store"
<1>1. PICK k \in DOMAIN job : job[k].kind = "load" /\ job[k].stop = pickup
  BY DEF Ledger!IsLatest, Ledger!Offsets
<1>2. PICK j \in DOMAIN job : job[j].kind = "store" /\ job[j].start = drop
  BY DEF Ledger!Offsets
<1>3. pickup <= DropOffset(job) /\ DropOffset(job) <= drop /\ drop \in Nat
  BY <1>1, <1>2 DEF LiftsFirst, GoodJob
<1>4. pickup <= drop
  BY <1>3
<1>5. \A i \in DOMAIN job : job[i].kind = "load" => job[i].stop \in Ledger!Offsets(job, "load", "stop")
  BY DEF Ledger!Offsets
<1>6. \A i \in DOMAIN job : job[i].kind = "store" => job[i].start \in Ledger!Offsets(job, "store", "start")
  BY DEF Ledger!Offsets
<1> QED BY <1>2, <1>4, <1>5, <1>6 DEF Ledger!IsLatest

LEMMA BeginAodSites ==
  ASSUME IInv, SiteInv, Replaying, call = Ledger!Idle, KnownToLedger, Replayed.kind = "aod",
         NEW job, job = Replayed.job, Ledger!BeginAod(job, Replayed.deps, Replayed.sites),
         UNCHANGED <<stage, replayed, routerVars>>
  PROVE  BookingInv'
<1> DEFINE earliest(r, drop) == {aodEnd[r]} \cup Ledger!DependencyEnds(Replayed.deps)
                                  \cup Ledger!SiteBegins(Replayed.sites \ {nextId}, drop)
           entered(r, pickup, length, drop, begin) ==
             Ledger!Enter([kind |-> "aod", begin |-> begin, end |-> begin + length,
                           resource |-> r, pickup |-> begin + pickup, drop |-> drop],
                          [k \in 1 .. Len(job) |->
                             [type |-> job[k].kind, start |-> begin + job[k].start,
                              stop |-> begin + job[k].stop, atoms |-> job[k].atoms,
                              id |-> nextId, phase |-> k, resource |-> r]])
<1>1. \E r \in Aods, pickup \in Ledger!Offsets(job, "load", "stop"),
         drop \in Ledger!Offsets(job, "store", "start"), length \in {job[Len(job)].stop} :
        /\ Ledger!IsAsapAod(r)
        /\ Ledger!IsLatest(pickup, Ledger!Offsets(job, "load", "stop"))
        /\ \A u \in Ledger!Offsets(job, "store", "start") : drop <= u
        /\ nextId \in Replayed.sites => pickup <= drop
        /\ \E begin \in earliest(r, drop) :
             /\ Ledger!IsLatest(begin, earliest(r, drop))
             /\ entered(r, pickup, length, drop, begin)
  BY DEF Ledger!BeginAod
<1>2. PICK r \in Aods, pickup \in Ledger!Offsets(job, "load", "stop"),
           drop \in Ledger!Offsets(job, "store", "start"), length \in {job[Len(job)].stop} :
        /\ Ledger!IsLatest(pickup, Ledger!Offsets(job, "load", "stop"))
        /\ \A u \in Ledger!Offsets(job, "store", "start") : drop <= u
        /\ \E begin \in earliest(r, drop) :
             /\ Ledger!IsLatest(begin, earliest(r, drop))
             /\ entered(r, pickup, length, drop, begin)
  <2> HIDE DEF earliest, entered
  <2> QED BY <1>1
<1>3. PICK begin :
        /\ Ledger!IsLatest(begin, {aodEnd[r]} \cup Ledger!DependencyEnds(Replayed.deps)
                             \cup Ledger!SiteBegins(Replayed.sites \ {nextId}, drop))
        /\ call' = [state |-> "booking",
                    timing |-> [kind |-> "aod", begin |-> begin, end |-> begin + length,
                                resource |-> r, pickup |-> begin + pickup, drop |-> drop],
                    booking |-> [k \in 1 .. Len(job) |->
                                   [type |-> job[k].kind, start |-> begin + job[k].start,
                                    stop |-> begin + job[k].stop, atoms |-> job[k].atoms,
                                    id |-> nextId, phase |-> k, resource |-> r]],
                    done |-> 0]
  BY <1>2 DEF Ledger!Enter
<1>4. UNCHANGED <<instructions, nextId, events>>
  BY DEF Ledger!BeginAod
<1>5. /\ TypeInv /\ CallInv /\ JobInv /\ nextId \in Nat /\ GoodJob(job) /\ DropOffset(job) \in Nat
      /\ replayed + 1 \in 1 .. Len(chunk)
  <2>1. nextId \in Nat /\ GoodJob(job) /\ DropOffset(job) \in Nat /\ replayed \in Nat /\ Len(chunk) \in Nat
    BY ReplayedFacts DEF GoodInstruction
  <2>2. replayed < Len(chunk)
    BY DEF Replaying
  <2> QED BY <2>1, <2>2 DEF IInv, SiteInv
<1>6. LiftsFirst(job)
  BY <1>5 DEF JobInv, Replayed
<1>7. /\ Len(job) \in Nat /\ DOMAIN job = 1 .. Len(job)
  BY <1>5, LenProperties DEF GoodJob, IsSeq
<1>8. pickup \in Nat /\ drop \in Nat
  BY <1>2, <1>5 DEF Ledger!Offsets, GoodJob
<1>9. /\ pickup <= drop
      /\ \A k \in DOMAIN job : /\ job[k].kind = "load" => job[k].stop <= pickup
                               /\ job[k].kind = "store" => drop <= job[k].start
      /\ \E k \in DOMAIN job : job[k].kind = "store"
  BY <1>2, <1>5, <1>6, <1>8, JobOffsets
<1>10. begin \in Nat /\ \A d \in Replayed.sites \ {nextId} :
                          /\ d \in DOMAIN instructions
                          /\ instructions[d].kind = "aod" => instructions[d].pickup <= begin + drop
  <2>1. Replayed.deps \in SUBSET DOMAIN instructions /\ aodEnd[r] \in Nat
    BY <1>5 DEF KnownToLedger, TypeInv, LedgerType
  <2>2. Replayed.sites \ {nextId} \subseteq DOMAIN instructions
    BY DEF KnownToLedger
  <2>3. \A d \in Replayed.sites \ {nextId} : instructions[d].end \in Nat /\ instructions[d].pickup \in Nat
    BY <1>5, <2>2 DEF TypeInv, LedgerType, Interval
  <2>4. Ledger!SiteBegins(Replayed.sites \ {nextId}, drop) \in SUBSET Int
    BY <1>8, <2>3 DEF Ledger!SiteBegins
  <2>5. begin \in Nat
    BY <1>3, <1>5, <2>1, <2>4, LatestBegin
  <2>6. ASSUME NEW d \in Replayed.sites \ {nextId}, instructions[d].kind = "aod"
        PROVE  instructions[d].pickup <= begin + drop
    <3>1. instructions[d].pickup - drop \in Ledger!SiteBegins(Replayed.sites \ {nextId}, drop)
      BY <2>6 DEF Ledger!SiteBegins
    <3>2. instructions[d].pickup - drop <= begin
      BY <1>3, <3>1 DEF Ledger!IsLatest
    <3> QED BY <1>8, <2>3, <2>5, <3>2
  <2> QED BY <2>2, <2>5, <2>6
<1>11. PICK c : c = call'
  OBVIOUS
<1>12. PICK b : b = [k \in 1 .. Len(job) |->
                       [type |-> job[k].kind, start |-> begin + job[k].start,
                        stop |-> begin + job[k].stop, atoms |-> job[k].atoms,
                        id |-> nextId, phase |-> k, resource |-> r]]
  OBVIOUS
<1>13. /\ c.timing.kind = "aod" /\ c.timing.begin = begin /\ c.timing.pickup = begin + pickup
       /\ c.timing.drop = drop /\ c.booking = b /\ c.done = 0
  BY <1>3, <1>11, <1>12
<1>14. Len(b) = Len(job)
  <2>1. b \in [1 .. Len(job) -> ToSet(b)]
    BY <1>12 DEF ToSet
  <2>2. b \in Seq(ToSet(b)) /\ DOMAIN b = 1 .. Len(job)
    BY <1>7, <2>1, SeqDef
  <2> QED BY <1>7, <2>2, LenProperties
<1>15. \A k \in 1 .. Len(job) :
         /\ b[k].type = job[k].kind
         /\ b[k].start = begin + job[k].start /\ b[k].stop = begin + job[k].stop
         /\ b[k].start <= b[k].stop
  <2> TAKE k \in 1 .. Len(job)
  <2>1. job[k].start \in Nat /\ job[k].stop \in Nat /\ job[k].start <= job[k].stop
    BY <1>5, <1>7 DEF GoodJob
  <2>2. begin + job[k].start <= begin + job[k].stop
    BY <1>10, <2>1
  <2> QED BY <1>12, <2>2
<1>16. \A e \in events : e.id # nextId
  BY <1>5 DEF CallInv
<1>17. JobCall(c)'
  <2>1. c.timing.drop \in Nat /\ c.timing.begin <= c.timing.pickup
        /\ c.timing.pickup <= c.timing.begin + c.timing.drop
    BY <1>8, <1>9, <1>10, <1>13
  <2>2. ASSUME NEW k \in 1 .. Len(b)
        PROVE  /\ b[k].type = "load" => b[k].stop <= begin + pickup
               /\ b[k].type = "store" => begin + drop <= b[k].start
    <3>1. k \in DOMAIN job /\ job[k].start \in Nat /\ job[k].stop \in Nat
      BY <1>5, <1>7, <1>14, <2>2 DEF GoodJob
    <3>2. b[k].type = job[k].kind /\ b[k].start = begin + job[k].start /\ b[k].stop = begin + job[k].stop
      BY <1>14, <1>15, <2>2
    <3>3. job[k].kind = "load" => begin + job[k].stop <= begin + pickup
      BY <1>8, <1>9, <1>10, <3>1
    <3>4. job[k].kind = "store" => begin + drop <= begin + job[k].start
      BY <1>8, <1>9, <1>10, <3>1
    <3> QED BY <3>2, <3>3, <3>4
  <2>3. \E k \in 1 .. Len(b) : b[k].type = "store"
    BY <1>7, <1>9, <1>14, <1>15
  <2>4. Replayed' = Replayed /\ nextId' = nextId /\ instructions' = instructions /\ events' = events
    BY <1>4 DEF Replayed, routerVars
  <2>5. c' = c
    OBVIOUS
  <2> QED BY <2>1, <2>2, <2>3, <2>4, <2>5, <1>10, <1>13, <1>16 DEF JobCall
<1>18. \A k \in 1 .. Len(c.booking) :
         c.booking[k].type = "store" => c.booking[k].start <= c.booking[k].stop
  BY <1>13, <1>14, <1>15
<1>19. 1 .. c.done = {}
  BY <1>13
<1> QED BY <1>11, <1>17, <1>18, <1>19 DEF BookingInv, JobCall

\* What a dependency on the job itself leaves to show: an earlier lift from the
\* site is over before the call begins.
LEMMA LiftedBefore ==
  ASSUME IInv, SiteInv, call.state = "booking",
         NEW m \in journal, NEW l \in journal, l.from = m.from, l.id = nextId, m.id < nextId,
         NEW f \in events, f.id = m.id, f.type = "load"
  PROVE  f.stop <= call.timing.begin
<1>1. /\ TypeInv /\ CallInv /\ LiftInv /\ HandoverInv
  BY DEF IInv, SiteInv
<1>2. PICK n \in journal : n.to = m.from /\ n.atom = l.atom /\ m.id <= n.id /\ n.id < nextId
  BY <1>1 DEF LiftInv, Refilled
<1>3. PICK g \in events : g.id = n.id /\ g.type = "store"
  BY <1>1, <1>2 DEF HandoverInv, Stored
<1>4. f.stop <= g.start /\ g.start <= g.stop
  BY <1>1, <1>2, <1>3 DEF HandoverInv, HandedOver, Forward
<1>5. l.atom \in Atoms
  BY <1>1 DEF TypeInv, HistoryType
<1>6. nextId \in Touched(l.atom) /\ g.id \in Touched(l.atom)
  BY <1>2, <1>3 DEF Touched, Touches
<1>7. g.stop <= call.timing.begin
  BY <1>1, <1>2, <1>3, <1>5, <1>6 DEF CallInv
<1>8. f.stop \in Nat /\ g.start \in Nat /\ g.stop \in Nat /\ call.timing.begin \in Nat
  BY <1>1 DEF TypeInv, LedgerType, CallInv, Interval
<1> QED BY <1>4, <1>7, <1>8

\* A job in the journal that the ledger is at is being booked as a job.
LEMMA OwnJob ==
  ASSUME IInv, SiteInv, Replaying, NEW m \in journal, m.id = nextId
  PROVE  Replayed.kind = "aod"
<1>1. JobInv
  BY DEF SiteInv
<1>2. base <= nextId /\ Replayed = At(nextId)
  BY ReplayedFacts
<1> QED BY <1>1, <1>2 DEF JobInv

LEMMA ReplayBeginSites == IInv /\ IInv' /\ SiteInv /\ ReplayBegin => SiteInv'
<1> SUFFICES ASSUME IInv, IInv', SiteInv, ReplayBegin PROVE SiteInv'
  OBVIOUS
<1>1. Replaying /\ call = Ledger!Idle /\ stage = "replay"
  BY DEF ReplayBegin, Replaying
<1>2. CASE ~KnownToLedger
  <2>1. Fail /\ UNCHANGED ledgerVars
    BY <1>2 DEF ReplayBegin
  <2>2. call'.state # "booking" /\ UNCHANGED <<instructions, nextId, events>>
    BY <1>1, <2>1, CallStates DEF ledgerVars
  <2> QED BY <1>1, <2>1, <2>2, FailSites
<1>3. CASE KnownToLedger
  <2>1. Schedule(Replayed) /\ UNCHANGED <<stage, replayed, routerVars>>
    BY <1>3 DEF ReplayBegin
  <2>2. UNCHANGED <<instructions, nextId, events, journal>>
    BY <2>1 DEF Schedule, Ledger!BeginInit, Ledger!BeginOneQubit, Ledger!BeginCz, Ledger!BeginAod,
                routerVars, history
  <2>3. PlaceInv' /\ JobInv' /\ LiftInv' /\ SavedSiteInv'
    BY <2>1, LedgerStepSites
  <2>4. HandoverInv'
    BY <2>2, HandoverKept DEF SiteInv
  <2>5. PICK i : i = Replayed
    OBVIOUS
  <2>6. CASE i.kind = "aod"
    <3>1. PICK job : job = Replayed.job
      OBVIOUS
    <3>2. Ledger!BeginAod(job, Replayed.deps, Replayed.sites)
      BY <2>1, <2>5, <2>6, <3>1 DEF Schedule
    <3>3. BookingInv'
      BY <1>1, <1>3, <2>1, <2>5, <2>6, <3>1, <3>2, BeginAodSites
    <3> QED BY <2>3, <2>4, <3>3 DEF SiteInv
  <2>7. CASE i.kind # "aod"
    <3> DEFINE Enters(t, b) == /\ call' = [state |-> "booking", timing |-> t, booking |-> b, done |-> 0]
                               /\ \A k \in DOMAIN b : b[k].type # "store"
    <3>1. \E t, b : Enters(t, b)
      <4>1. CASE Ledger!BeginInit
        <5>1. PICK t : t = [kind |-> "init", begin |-> 0, end |-> 0, resource |-> 0,
                            pickup |-> 0, drop |-> 0]
          OBVIOUS
        <5>2. Enters(t, <<>>)
          BY <4>1, <5>1 DEF Ledger!BeginInit, Ledger!Enter
        <5> QED BY <5>2
      <4>2. CASE Ledger!BeginOneQubit(i.atoms, i.deps)
        <5>1. PICK n : n = Len(i.atoms)
          OBVIOUS
        <5>2. PICK beam : beam = i.atoms
          OBVIOUS
        <5>3. PICK begin :
                Ledger!Enter([kind |-> "one_qubit", begin |-> begin,
                              end |-> begin + n * OneQTime + OneQCommon,
                              resource |-> Ledger!Beam, pickup |-> 0, drop |-> 0],
                             [k \in 1 .. n |->
                                [type |-> "one_qubit_gate",
                                 start |-> begin + (k - 1) * OneQTime,
                                 stop |-> begin + k * OneQTime,
                                 atoms |-> <<beam[k]>>, id |-> nextId, phase |-> k,
                                 resource |-> Ledger!Beam]])
          BY <4>2, <5>1, <5>2 DEF Ledger!BeginOneQubit
        <5>4. PICK t : t = [kind |-> "one_qubit", begin |-> begin,
                            end |-> begin + n * OneQTime + OneQCommon,
                            resource |-> Ledger!Beam, pickup |-> 0, drop |-> 0]
          OBVIOUS
        <5>5. PICK b : b = [k \in 1 .. n |->
                              [type |-> "one_qubit_gate",
                               start |-> begin + (k - 1) * OneQTime,
                               stop |-> begin + k * OneQTime,
                               atoms |-> <<beam[k]>>, id |-> nextId, phase |-> k,
                               resource |-> Ledger!Beam]]
          OBVIOUS
        <5>6. call' = [state |-> "booking", timing |-> t, booking |-> b, done |-> 0]
          BY <5>3, <5>4, <5>5 DEF Ledger!Enter
        <5>7. \A k \in DOMAIN b : b[k].type # "store"
          BY <5>5
        <5> QED BY <5>6, <5>7
      <4>3. CASE Ledger!BeginCz(i.atoms, Zone, i.deps)
        <5>1. PICK begin :
                Ledger!Enter([kind |-> "cz", begin |-> begin, end |-> begin + RydTime,
                              resource |-> Zone, pickup |-> 0, drop |-> 0],
                             <<[type |-> "two_qubit_gate", start |-> begin,
                                stop |-> begin + RydTime, atoms |-> i.atoms, id |-> nextId,
                                phase |-> 1, resource |-> Zone]>>)
          BY <4>3 DEF Ledger!BeginCz
        <5>2. PICK t : t = [kind |-> "cz", begin |-> begin, end |-> begin + RydTime,
                            resource |-> Zone, pickup |-> 0, drop |-> 0]
          OBVIOUS
        <5>3. PICK e : e = [type |-> "two_qubit_gate", start |-> begin,
                            stop |-> begin + RydTime, atoms |-> i.atoms, id |-> nextId,
                            phase |-> 1, resource |-> Zone]
          OBVIOUS
        <5>4. call' = [state |-> "booking", timing |-> t, booking |-> <<e>>, done |-> 0]
          BY <5>1, <5>2, <5>3 DEF Ledger!Enter
        <5>5. e.type # "store"
          BY <5>3
        <5>6. PICK b : b = <<e>>
          OBVIOUS
        <5>7. \A k \in DOMAIN b : b[k] = e
          BY <5>6
        <5> QED BY <5>4, <5>5, <5>6, <5>7
      <4> HIDE DEF Enters
      <4> QED BY <2>1, <2>5, <2>7, <4>1, <4>2, <4>3 DEF Schedule
    <3>10. PICK t, b : Enters(t, b)
      BY <3>1
    <3>2. PICK c : c = call'
      OBVIOUS
    <3>3. c.state = "booking" /\ c.booking = b /\ c.done = 0
      BY <3>10, <3>2
    <3>4. IsSeq(b)
      <4>1. CallInv'
        BY DEF IInv
      <4> QED BY <4>1, <3>2, <3>3 DEF CallInv
    <3>5. \A k \in 1 .. Len(b) : b[k].type # "store"
      BY <3>10, <3>4, LenProperties DEF IsSeq
    <3>6. Replayed'.kind # "aod"
      BY <2>1, <2>5, <2>7 DEF Replayed, routerVars
    <3>7. BookingInv'
      BY <3>2, <3>3, <3>5, <3>6 DEF BookingInv
    <3> QED BY <2>3, <2>4, <3>7 DEF SiteInv
  <2> QED BY <2>6, <2>7
<1> QED BY <1>2, <1>3

LEMMA RecordSites ==
  ASSUME IInv, SiteInv, Replaying, Ledger!RecordEvent, UNCHANGED <<stage, replayed, routerVars>>
  PROVE  SiteInv'
<1>1. /\ TypeInv /\ CallInv /\ JobInv /\ LiftInv /\ HandoverInv /\ BookingInv
  BY DEF IInv, SiteInv
<1>2. PICK e : e = Ledger!NextEvent
  OBVIOUS
<1>3. /\ call.state = "booking" /\ call.done < Len(call.booking)
      /\ events' = events \cup {e} /\ call' = [call EXCEPT !.done = @ + 1]
      /\ UNCHANGED <<instructions, nextId, journal, base, chunk, replayed>>
  BY <1>2 DEF Ledger!RecordEvent, Ledger!Pending, Ledger!Booking, Ledger!clocks, routerVars, history
<1>4. PICK t : t = call.timing
  OBVIOUS
<1>5. PICK b : b = call.booking
  OBVIOUS
<1>6. PICK d : d = call.done
  OBVIOUS
<1>7. call = [state |-> "booking", timing |-> t, booking |-> b, done |-> d]
  BY <1>1, <1>3, <1>4, <1>5, <1>6 DEF CallInv
<1>8. call' = [state |-> "booking", timing |-> t, booking |-> b, done |-> d + 1]
  BY <1>3, <1>7
<1>9. /\ IsSeq(b) /\ Len(b) \in Nat /\ d \in Nat /\ d + 1 \in 1 .. Len(b) /\ e = b[d + 1]
      /\ d \in 0 .. Len(b)
  <2>1. IsSeq(b) /\ d \in 0 .. Len(b) /\ d < Len(b)
    BY <1>1, <1>3, <1>5, <1>6 DEF CallInv
  <2>2. Len(b) \in Nat
    BY <2>1, LenProperties DEF IsSeq
  <2>3. e = b[d + 1]
    BY <1>2, <1>5, <1>6 DEF Ledger!NextEvent
  <2> QED BY <2>1, <2>2, <2>3
<1>10. /\ nextId \in Nat /\ base \in Nat /\ base <= nextId /\ Replayed = At(nextId)
  BY ReplayedFacts
<1>11. /\ t.begin \in Nat /\ t.pickup \in Nat
       /\ \A f \in events : f.id <= nextId /\ f.id \in Nat /\ f.start \in Nat /\ f.stop \in Nat
  BY <1>1, <1>3, <1>4 DEF CallInv, Interval, TypeInv, LedgerType
<1>12. /\ e.id = nextId /\ e.start \in Nat /\ e.stop \in Nat
       /\ e.type = "store" => e.start <= e.stop
  <2>1. PICK k \in 1 .. Len(b) : k = d + 1 /\ e = b[k]
    BY <1>9
  <2>2. /\ b[k].id = nextId /\ b[k].start \in Nat /\ b[k].stop \in Nat
    BY <1>1, <1>3, <1>5, <2>1 DEF CallInv
  <2>3. b[k].type = "store" => b[k].start <= b[k].stop
    BY <1>1, <1>3, <1>5, <2>1 DEF BookingInv
  <2> QED BY <2>1, <2>2, <2>3
<1>13. ASSUME Replayed.kind = "aod"
       PROVE  /\ t.drop \in Nat /\ t.begin <= t.pickup /\ t.pickup <= t.begin + t.drop
              /\ e.type = "load" => e.stop <= t.pickup
              /\ e.type = "store" => t.begin + t.drop <= e.start
              /\ \A x \in Replayed.sites \ {nextId} :
                   /\ x \in DOMAIN instructions
                   /\ instructions[x].kind = "aod" => instructions[x].pickup <= t.begin + t.drop
              /\ \A f \in events : f.id = nextId =>
                   /\ f.type = "load" => f.stop <= t.pickup
                   /\ f.type = "store" => t.begin + t.drop <= f.start
  <2>1. JobCall(call)
    BY <1>1, <1>3, <1>13 DEF BookingInv
  <2>2. PICK k \in 1 .. Len(b) : e = b[k]
    BY <1>9
  <2>3. /\ b[k].type = "load" => b[k].stop <= t.pickup
        /\ b[k].type = "store" => t.begin + t.drop <= b[k].start
    BY <2>1, <1>4, <1>5 DEF JobCall
  <2> QED BY <2>1, <2>2, <2>3, <1>4 DEF JobCall
<1>14. \A m \in journal : m.id \in Nat
  BY <1>1 DEF TypeInv, HistoryType, Before
<1>15. PickedUp(journal, instructions, events')
  <2> SUFFICES ASSUME NEW l \in journal, NEW m \in journal, l.from = m.from, l.id <= m.id,
                      m.id \in DOMAIN instructions
               PROVE  /\ instructions[m.id].kind = "aod"
                      /\ \A f \in events' : f.id = l.id /\ f.type = "load"
                                               => f.stop <= instructions[m.id].pickup
    BY DEF PickedUp
  <2>1. l.id < nextId
    BY <1>1, <1>10, <1>14 DEF HandoverInv, Before
  <2>2. l.id # e.id
    BY <1>10, <1>12, <1>14, <2>1
  <2> QED BY <1>1, <1>3, <2>2 DEF HandoverInv, PickedUp
<1>16. HandedOver(journal, events')
  <2> SUFFICES ASSUME NEW m \in journal, NEW n \in journal, m.from = n.to, m.id <= n.id,
                      NEW f \in events', NEW g \in events',
                      f.id = m.id, f.type = "load", g.id = n.id, g.type = "store"
               PROVE  f.stop <= g.start
    BY DEF HandedOver
  <2>1. CASE f \in events /\ g \in events
    BY <1>1, <2>1 DEF HandoverInv, HandedOver
  <2>2. CASE g = e
    <3>1. n.id = nextId /\ Replayed.kind = "aod"
      BY <1>12, <2>2, OwnJob
    <3>2. /\ f \in events /\ f.stop \in Nat
      BY <1>3, <1>11, <2>2
    <3>3. /\ t.begin + t.drop <= e.start /\ t.drop \in Nat /\ t.pickup <= t.begin + t.drop
      BY <1>13, <2>2, <3>1
    <3>4. CASE m.id = nextId
      <4>1. f.stop <= t.pickup
        BY <1>13, <3>1, <3>2, <3>4
      <4> QED BY <1>11, <1>12, <2>2, <3>2, <3>3, <4>1
    <3>5. CASE m.id # nextId
      <4>1. m.id < nextId
        BY <1>10, <1>14, <3>1, <3>5
      <4>2. PICK l \in journal : l.from = n.to /\ m.id <= l.id /\ l.id \in At(nextId).sites
        BY <1>1, <1>10, <3>1, <4>1 DEF JobInv
      <4>3. CASE l.id = nextId
        <5>1. f.stop <= t.begin
          BY <1>3, <1>4, <3>2, <4>1, <4>2, <4>3, LiftedBefore
        <5> QED BY <1>11, <1>12, <2>2, <3>2, <3>3, <5>1
      <4>4. CASE l.id # nextId
        <5>1. PICK x : x = l.id
          OBVIOUS
        <5>2. /\ x \in DOMAIN instructions
              /\ instructions[x].kind = "aod" => instructions[x].pickup <= t.begin + t.drop
          BY <1>10, <1>13, <3>1, <4>2, <4>4, <5>1
        <5>3. instructions[x].kind = "aod" /\ f.stop <= instructions[x].pickup
          BY <1>1, <3>2, <4>2, <5>1, <5>2 DEF HandoverInv, PickedUp
        <5>4. instructions[x].pickup \in Nat
          BY <1>1, <5>2 DEF TypeInv, LedgerType, Interval
        <5> QED BY <1>11, <1>12, <2>2, <3>2, <3>3, <5>2, <5>3, <5>4
      <4> QED BY <4>3, <4>4
    <3> QED BY <3>4, <3>5
  <2>3. CASE f = e /\ g \in events
    <3>1. n.id = nextId /\ m.id = nextId
      BY <1>10, <1>11, <1>12, <1>14, <2>3
    <3>2. Replayed.kind = "aod"
      BY <3>1, OwnJob
    <3>3. /\ e.stop <= t.pickup /\ t.pickup <= t.begin + t.drop /\ t.begin + t.drop <= g.start
          /\ t.drop \in Nat /\ g.start \in Nat
      BY <1>11, <1>13, <2>3, <3>1, <3>2
    <3> QED BY <1>11, <1>12, <2>3, <3>3
  <2> QED BY <1>3, <2>1, <2>2, <2>3
<1>17. HandoverInv'
  <2>1. Stored(journal, events', nextId)
    BY <1>1, <1>3 DEF HandoverInv, Stored
  <2>2. Forward(events')
    BY <1>1, <1>3, <1>12 DEF HandoverInv, Forward
  <2> QED BY <1>1, <1>3, <1>15, <1>16, <2>1, <2>2 DEF HandoverInv
<1>18. BookingInv'
  <2>1. PICK c : c = call'
    OBVIOUS
  <2>2. c.state = "booking" /\ c.timing = t /\ c.booking = b /\ c.done = d + 1
    BY <1>8, <2>1
  <2>3. \A k \in 1 .. Len(b) : b[k].type = "store" => b[k].start <= b[k].stop
    BY <1>1, <1>3, <1>5 DEF BookingInv
  <2>4. \A k \in 1 .. d + 1 : b[k] \in events'
    <3> TAKE k \in 1 .. d + 1
    <3>1. k \in 1 .. d \/ k = d + 1
      BY <1>9
    <3>2. CASE k \in 1 .. d
      BY <1>1, <1>3, <1>5, <1>6, <3>2 DEF BookingInv
    <3>3. CASE k = d + 1
      BY <1>3, <1>9, <3>3
    <3> QED BY <3>1, <3>2, <3>3
  <2>5. Replayed' = Replayed
    BY <1>3 DEF Replayed
  <2>6. ASSUME Replayed.kind = "aod" PROVE JobCall(c)'
    <3>1. JobCall(call)
      BY <1>1, <1>3, <2>6 DEF BookingInv
    <3>2. \A f \in events' : f.id = nextId =>
            /\ f.type = "load" => f.stop <= t.pickup
            /\ f.type = "store" => t.begin + t.drop <= f.start
      BY <1>3, <1>13, <2>6
    <3>3. /\ t.kind = "aod" /\ t.drop \in Nat
          /\ t.begin <= t.pickup /\ t.pickup <= t.begin + t.drop
          /\ \A k \in 1 .. Len(b) :
               /\ b[k].type = "load" => b[k].stop <= t.pickup
               /\ b[k].type = "store" => t.begin + t.drop <= b[k].start
          /\ \E k \in 1 .. Len(b) : b[k].type = "store"
      BY <1>4, <1>5, <3>1 DEF JobCall
    <3>4. c' = c
      OBVIOUS
    <3> QED BY <1>3, <1>13, <2>2, <2>5, <2>6, <3>2, <3>3, <3>4 DEF JobCall
  <2> QED BY <2>1, <2>2, <2>3, <2>4, <2>5, <2>6 DEF BookingInv, JobCall
<1>19. PlaceInv' /\ JobInv' /\ LiftInv' /\ SavedSiteInv'
  BY LedgerStepSites
<1> QED BY <1>17, <1>18, <1>19 DEF SiteInv

LEMMA RaiseSites ==
  ASSUME IInv, SiteInv, Replaying, Ledger!RaiseOverlap, Fail
  PROVE  SiteInv'
<1>1. UNCHANGED <<instructions, nextId, events>> /\ call' = Ledger!Raised
  BY DEF Ledger!RaiseOverlap, Ledger!clocks
<1>2. stage # "out" /\ call'.state # "booking"
  BY <1>1, CallStates DEF Replaying
<1> QED BY <1>1, <1>2, FailSites

LEMMA ReplayEventSites == IInv /\ SiteInv /\ ReplayEvent => SiteInv'
BY RecordSites, RaiseSites DEF ReplayEvent

LEMMA CommitSites == IInv /\ SiteInv /\ ReplayCommit => SiteInv'
<1> SUFFICES ASSUME IInv, SiteInv, ReplayCommit PROVE SiteInv'
  OBVIOUS
<1> USE DEF routerVars, layerVars, depVars, crashVars, history
<1>1. /\ TypeInv /\ StageInv /\ CallInv
      /\ PlaceInv /\ JobInv /\ LiftInv /\ HandoverInv /\ BookingInv /\ SavedSiteInv
  BY DEF IInv, SiteInv
<1>2. PICK t : t = call.timing
  OBVIOUS
<1>3. /\ Replaying /\ call.state = "booking" /\ call.done = Len(call.booking)
      /\ instructions' = [id \in DOMAIN instructions \cup {nextId} |->
                            IF id = nextId THEN t ELSE instructions[id]]
      /\ nextId' = nextId + 1 /\ call' = Ledger!Idle /\ events' = events
      /\ stage' \in {stage, "failed"}
      /\ UNCHANGED <<boundary, gateMap, finalMap, pending, base, chunk, siteDep, saved, journal>>
  BY <1>2 DEF ReplayCommit, Ledger!Commit, Ledger!Booking
<1>4. /\ nextId \in Nat /\ base \in Nat /\ base <= nextId
      /\ stage = "replay"
  BY <1>3, ReplayedFacts
<1>5. PlaceInv' /\ Place' = Place
  <2>1. pending = {} /\ stage # "out"
    BY <1>1, <1>4 DEF PlaceInv
  <2>2. stage' # "out" /\ stage' # "boundary"
    BY <1>3, <1>4
  <2> QED BY <1>1, <1>3, <2>1, <2>2, PlaceKept DEF SitesKept
<1>6. JobInv' /\ LiftInv' /\ SavedSiteInv'
  BY <1>1, <1>3, <1>5, JobKept, LiftKept, SavedKept
<1>7. \A m \in journal : m.id \in Nat
  BY <1>1 DEF TypeInv, HistoryType, Before
<1>8. nextId \notin DOMAIN instructions /\ DOMAIN instructions' = DOMAIN instructions \cup {nextId}
      /\ instructions'[nextId] = t
      /\ \A id \in DOMAIN instructions : instructions'[id] = instructions[id]
  <2>1. nextId \notin DOMAIN instructions
    BY <1>1, <1>4 DEF HandoverInv, Before
  <2> QED BY <1>3, <2>1
<1>9. ASSUME NEW m \in journal, m.id = nextId PROVE JobCall(call)
  BY <1>1, <1>3, <1>9, OwnJob DEF BookingInv
<1>10. PickedUp(journal, instructions', events)
  <2> SUFFICES ASSUME NEW l \in journal, NEW m \in journal, l.from = m.from, l.id <= m.id,
                      m.id \in DOMAIN instructions'
               PROVE  /\ instructions'[m.id].kind = "aod"
                      /\ \A e \in events : e.id = l.id /\ e.type = "load"
                                              => e.stop <= instructions'[m.id].pickup
    BY DEF PickedUp
  <2>1. CASE m.id # nextId
    <3>1. m.id \in DOMAIN instructions /\ instructions'[m.id] = instructions[m.id]
      BY <1>8, <2>1
    <3> QED BY <1>1, <3>1 DEF HandoverInv, PickedUp
  <2>2. CASE m.id = nextId
    <3>1. /\ t.kind = "aod" /\ t.begin <= t.pickup
          /\ \A e \in events : e.id = nextId => (e.type = "load" => e.stop <= t.pickup)
      BY <1>2, <1>9, <2>2 DEF JobCall
    <3>2. t.begin \in Nat /\ t.pickup \in Nat
      BY <1>1, <1>2, <1>3 DEF CallInv, Interval
    <3>3. ASSUME NEW e \in events, e.id = l.id, e.type = "load" PROVE e.stop <= t.pickup
      <4>1. CASE l.id = nextId
        BY <3>1, <3>3, <4>1
      <4>2. CASE l.id # nextId
        <5>1. l.id < nextId
          BY <1>4, <1>7, <2>2, <4>2
        <5>2. e.stop <= t.begin
          BY <1>2, <1>3, <2>2, <3>3, <5>1, LiftedBefore
        <5>3. e.stop \in Nat
          BY <1>1 DEF TypeInv, LedgerType
        <5> QED BY <3>1, <3>2, <5>2, <5>3
      <4> QED BY <4>1, <4>2
    <3>4. instructions'[m.id] = t
      BY <1>8, <2>2
    <3> QED BY <3>1, <3>3, <3>4
  <2> QED BY <2>1, <2>2
<1>11. Stored(journal, events, nextId + 1)
  <2> SUFFICES ASSUME NEW n \in journal, n.id < nextId + 1
               PROVE  \E f \in events : f.id = n.id /\ f.type = "store"
    BY DEF Stored
  <2>1. CASE n.id = nextId
    <3>1. PICK k \in 1 .. Len(call.booking) : call.booking[k].type = "store"
      BY <1>9, <2>1 DEF JobCall
    <3>2. call.booking[k] \in events /\ call.booking[k].id = nextId
      BY <1>1, <1>3, <3>1 DEF BookingInv, CallInv
    <3> QED BY <2>1, <3>1, <3>2
  <2>2. CASE n.id # nextId
    <3>1. n.id < nextId
      BY <1>4, <1>7, <2>2
    <3> QED BY <1>1, <3>1 DEF HandoverInv, Stored
  <2> QED BY <2>1, <2>2
<1>12. DOMAIN instructions' \subseteq Before(nextId + 1)
  BY <1>1, <1>4, <1>8 DEF HandoverInv, Before
<1>13. HandoverInv'
  BY <1>1, <1>3, <1>10, <1>11, <1>12 DEF HandoverInv
<1>14. BookingInv'
  BY <1>3, CallStates DEF BookingInv
<1> QED BY <1>5, <1>6, <1>13, <1>14 DEF SiteInv

LEMMA PublishSites == IInv /\ SiteInv /\ Publish => SiteInv'
<1> SUFFICES ASSUME IInv, SiteInv, Publish PROVE SiteInv'
  OBVIOUS
<1> USE DEF layerVars, depVars, crashVars, history
<1>1. /\ TypeInv /\ StageInv /\ ChunkInv /\ CallInv
      /\ PlaceInv /\ JobInv /\ LiftInv /\ HandoverInv /\ BookingInv /\ SavedSiteInv
  BY DEF IInv, SiteInv
<1>2. /\ Len(chunk) \in Nat /\ base \in Nat /\ NextInst \in Nat /\ stage = "replay" /\ replayed = Len(chunk)
  BY <1>1, Numbers DEF Publish
<1>3. call \in {Ledger!Idle, Ledger!Raised} /\ call.state # "booking"
  <2>1. ~Replaying
    BY <1>2 DEF Replaying
  <2> QED BY <1>1, <2>1, CallStates DEF CallInv
<1>4. CASE ~(ActiveIds \subseteq DOMAIN window \cap DOMAIN instructions)
  <2>1. Fail /\ UNCHANGED ledgerVars
    BY <1>4 DEF Publish
  <2>2. UNCHANGED <<instructions, nextId, events>> /\ call' = call
    BY <2>1 DEF ledgerVars
  <2>3. call'.state # "booking"
    BY <1>3, <2>2
  <2> QED BY <1>2, <2>1, <2>2, <2>3, FailSites
<1>5. CASE ActiveIds \subseteq DOMAIN window \cap DOMAIN instructions
  <2>1. /\ call' = call /\ instructions' = [id \in ActiveIds |-> instructions[id]]
        /\ ActiveIds \subseteq DOMAIN instructions
        /\ boundary' = finalMap /\ base' = NextInst /\ chunk' = <<>> /\ stage' = "boundary"
        /\ UNCHANGED <<nextId, events, gateMap, finalMap, pending, siteDep, saved, journal>>
    BY <1>5 DEF Publish, Ledger!Prune, Ledger!clocks
  <2>2. Place' = Place
    BY <1>1, <1>2, <2>1 DEF PlaceInv, Place, Now, To
  <2>3. PlaceInv'
    BY <1>1, <1>2, <2>1, <2>2 DEF PlaceInv, Apart
  <2>4. LiftInv' /\ SavedSiteInv'
    BY <1>1, <2>1, <2>2, LiftKept, SavedKept
  <2>5. JobInv'
    <3>1. 1 .. Len(chunk') = {}
      BY <2>1, EmptySeq
    <3>2. \A m \in journal' : ~(base' <= m.id)
      BY <1>1, <1>2, <2>1 DEF TypeInv, HistoryType, Before
    <3> QED BY <3>1, <3>2 DEF JobInv
  <2>6. HandoverInv'
    <3>1. DOMAIN instructions' = ActiveIds /\ \A id \in ActiveIds : instructions'[id] = instructions[id]
      BY <2>1
    <3>2. DOMAIN instructions' \subseteq DOMAIN instructions
      BY <2>1, <3>1
    <3>3. PickedUp(journal, instructions', events)
      BY <1>1, <2>1, <3>1 DEF HandoverInv, PickedUp
    <3> QED BY <1>1, <2>1, <3>2, <3>3 DEF HandoverInv
  <2>7. BookingInv'
    BY <1>3, <2>1 DEF BookingInv
  <2> QED BY <2>3, <2>4, <2>5, <2>6, <2>7 DEF SiteInv
<1> QED BY <1>4, <1>5

LEMMA CheckpointSites == IInv /\ SiteInv /\ Checkpoint => SiteInv'
<1> SUFFICES ASSUME IInv, SiteInv, Checkpoint PROVE SiteInv'
  OBVIOUS
<1> USE DEF layerVars, depVars, history, ledgerVars
<1>1. /\ TypeInv /\ StageInv /\ ChunkInv
      /\ PlaceInv /\ JobInv /\ LiftInv /\ HandoverInv /\ BookingInv /\ SavedSiteInv
  BY DEF IInv, SiteInv
<1>2. /\ stage = "boundary" /\ saved' = State /\ stage' = stage
      /\ UNCHANGED <<boundary, gateMap, finalMap, pending, base, chunk, replayed, siteDep, journal,
                     instructions, nextId, events, call>>
  BY DEF Checkpoint
<1>3. nextId = base /\ call = Ledger!Idle
  <2>1. base \in Nat /\ nextId = base + replayed /\ replayed = 0 /\ call = Ledger!Idle
    BY <1>1, <1>2, Numbers DEF StageInv
  <2> QED BY <2>1
<1>4. Place = boundary
  <2>1. finalMap = [q \in Atoms |-> finalMap[q]]
    BY <1>1 DEF TypeInv, Placing
  <2> QED BY <1>1, <1>2, <2>1 DEF PlaceInv, Place, Now, To
<1>5. PlaceInv' /\ Place' = Place
  BY <1>1, <1>2, PlaceStays DEF SitesKept
<1>6. JobInv' /\ LiftInv' /\ HandoverInv'
  BY <1>1, <1>2, <1>5, JobKept, LiftKept, HandoverKept
<1>7. BookingInv'
  BY <1>2, <1>3, CallStates DEF BookingInv
<1>8. SavedSiteInv'
  <2>1. PICK s : s = State
    OBVIOUS
  <2>2. /\ s.boundary = boundary /\ s.base = base /\ s.siteDep = siteDep
        /\ s.instructions = instructions /\ s.journal = journal /\ s.events = events
    BY <2>1 DEF State
  <2>3. saved' = s
    BY <1>2, <2>1
  <2>4. Apart(boundary) /\ Arrived(journal, boundary)
    BY <1>1, <1>4 DEF PlaceInv, LiftInv
  <2> HIDE DEF State
  <2> QED BY <1>1, <1>3, <2>2, <2>3, <2>4 DEF SavedSiteInv, LiftInv, HandoverInv
<1> QED BY <1>5, <1>6, <1>7, <1>8 DEF SiteInv

LEMMA RestoreSites == IInv /\ SiteInv /\ Restore => SiteInv'
<1> SUFFICES ASSUME IInv, SiteInv, Restore PROVE SiteInv'
  OBVIOUS
<1>1. PICK s : s = saved
  OBVIOUS
<1>2. /\ Apart(s.boundary)
      /\ LiftsRemembered(s.journal, s.siteDep) /\ Refilled(s.journal)
      /\ Arrived(s.journal, s.boundary)
      /\ DOMAIN s.instructions \subseteq Before(s.base)
      /\ PickedUp(s.journal, s.instructions, s.events)
      /\ HandedOver(s.journal, s.events)
      /\ Stored(s.journal, s.events, s.base) /\ Forward(s.events)
  BY <1>1 DEF Restore, SiteInv, SavedSiteInv
<1>3. /\ s.base \in Nat /\ s.nextId = s.base /\ Placing(s.boundary)
      /\ HistoryType(s.base, s.journal, s.exposures)
  BY <1>1 DEF Restore, IInv, SavedInv
<1>4. /\ boundary' = s.boundary /\ base' = s.base /\ siteDep' = s.siteDep
      /\ instructions' = s.instructions /\ nextId' = s.nextId
      /\ journal' = s.journal /\ events' = s.events /\ call' = Ledger!Idle
      /\ gateMap' = s.boundary /\ finalMap' = s.boundary /\ pending' = {} /\ chunk' = <<>>
      /\ stage' \in {"boundary", "failed"} /\ saved' = saved
  BY <1>1 DEF Restore
<1>5. Place' = s.boundary
  <2>1. s.boundary = [q \in Atoms |-> s.boundary[q]]
    BY <1>3 DEF Placing
  <2> QED BY <1>4, <2>1 DEF Place, Now, To
<1>6. PlaceInv'
  BY <1>2, <1>4, <1>5 DEF PlaceInv, Apart
<1>7. LiftInv'
  BY <1>2, <1>4, <1>5 DEF LiftInv
<1>8. JobInv'
  <2>1. 1 .. Len(chunk') = {}
    BY <1>4, EmptySeq
  <2>2. \A m \in journal' : ~(base' <= m.id)
    BY <1>3, <1>4 DEF HistoryType, Before
  <2> QED BY <2>1, <2>2 DEF JobInv
<1>9. HandoverInv'
  BY <1>2, <1>3, <1>4 DEF HandoverInv
<1>10. BookingInv' /\ SavedSiteInv'
  BY <1>4, CallStates, SavedKept DEF BookingInv, SiteInv
<1> QED BY <1>6, <1>7, <1>8, <1>9, <1>10 DEF SiteInv

LEMMA StutterSites == SiteInv /\ UNCHANGED vars => SiteInv'
<1> SUFFICES ASSUME SiteInv, UNCHANGED vars PROVE SiteInv'
  OBVIOUS
<1> USE DEF vars, layerVars, depVars, crashVars, history, ledgerVars
<1>1. /\ PlaceInv /\ JobInv /\ LiftInv /\ HandoverInv /\ BookingInv /\ SavedSiteInv
  BY DEF SiteInv
<1>2. PlaceInv' /\ Place' = Place
  BY <1>1, PlaceStays DEF SitesKept
<1>3. JobInv' /\ LiftInv' /\ HandoverInv' /\ SavedSiteInv'
  BY <1>1, <1>2, JobKept, LiftKept, HandoverKept, SavedKept
<1>4. BookingInv'
  BY <1>1 DEF BookingInv, JobCall, Replayed
<1> QED BY <1>2, <1>3, <1>4 DEF SiteInv

LEMMA NextSites == IInv /\ IInv' /\ SiteInv /\ [Next]_vars => SiteInv'
<1> SUFFICES ASSUME IInv, IInv', SiteInv, [Next]_vars PROVE SiteInv'
  OBVIOUS
<1>1. CASE RouteLayer
  BY <1>1, RouteLayerSites
<1>2. ASSUME NEW atoms \in SUBSET pending, EmitJob(atoms) PROVE SiteInv'
  BY <1>2, EmitJobSites
<1>3. CASE EmitGates
  BY <1>3, EmitGatesSites
<1>4. CASE AssignTimes
  BY <1>4, AssignTimesSites
<1>5. CASE ReplayBegin
  BY <1>5, ReplayBeginSites
<1>6. CASE ReplayEvent
  BY <1>6, ReplayEventSites
<1>7. CASE ReplayCommit
  BY <1>7, CommitSites
<1>8. CASE Publish
  BY <1>8, PublishSites
<1>9. CASE Checkpoint
  BY <1>9, CheckpointSites
<1>10. CASE Restore
  BY <1>10, RestoreSites
<1>11. CASE UNCHANGED vars
  BY <1>11, StutterSites
<1> QED BY <1>1, <1>2, <1>3, <1>4, <1>5, <1>6, <1>7, <1>8, <1>9, <1>10, <1>11 DEF Next, Advance

-----------------------------------------------------------------------------
(***************************************************************************)
(* The invariant and the theorems.                                         *)
(***************************************************************************)

LEMMA NextIInv == IInv /\ [Next]_vars => IInv'
<1> SUFFICES ASSUME IInv, [Next]_vars PROVE IInv'
  OBVIOUS
<1>1. CASE RouteLayer
  BY <1>1, RouteLayerStep
<1>2. ASSUME NEW atoms \in SUBSET pending, EmitJob(atoms) PROVE IInv'
  BY <1>2, EmitJobStep
<1>3. CASE EmitGates
  BY <1>3, EmitGatesStep
<1>4. CASE AssignTimes
  BY <1>4, AssignTimesStep
<1>5. CASE ReplayBegin
  BY <1>5, ReplayBeginStep
<1>6. CASE ReplayEvent
  BY <1>6, ReplayEventStep
<1>7. CASE ReplayCommit
  BY <1>7, ReplayCommitStep
<1>8. CASE Publish
  BY <1>8, PublishStep
<1>9. CASE Checkpoint
  BY <1>9, CheckpointStep
<1>10. CASE Restore
  BY <1>10, RestoreStep
<1>11. CASE UNCHANGED vars
  BY <1>11, StutterStep
<1> QED BY <1>1, <1>2, <1>3, <1>4, <1>5, <1>6, <1>7, <1>8, <1>9, <1>10, <1>11 DEF Next, Advance

LEMMA Invariant == Spec => []IInv
<1>1. Init => IInv
  BY InitIInv
<1>2. IInv /\ [Next]_vars => IInv'
  BY NextIInv
<1> QED BY <1>1, <1>2, PTL DEF Spec

LEMMA SitesInvariant == Spec => []SiteInv
<1>1. Init => SiteInv
  BY InitSites
<1>2. IInv /\ IInv' /\ SiteInv /\ [Next]_vars => SiteInv'
  BY NextSites
<1> QED BY <1>1, <1>2, Invariant, PTL DEF Spec

\* The dependency ledgers of the router name instructions that have been written,
\* and an atom is always on a site, whatever the program, its placements and the
\* crashes (_DependencyStore and next_instruction_id of the driver, from_state).
THEOREM RouterStateTyped == Spec => []TypeOK
<1>1. IInv => TypeOK
  BY DEF IInv, TypeInv, StageInv, TypeOK, RouterType, HistoryType, Before, Placing, Ids
<1> QED BY <1>1, Invariant, PTL

\* An atom in the zone at a pulse has been set down before it and is not lifted
\* until it is over (_bind_resident_rydberg_dependencies), for any atoms, AODs,
\* durations, jobs and layers, across every checkpoint and restart.
THEOREM PulsesFindAtomsAtRest == Spec => []ExposedAtRest
<1>1. IInv => ExposedAtRest
  <2> SUFFICES ASSUME IInv, NEW p \in Pulses, NEW m \in journal,
                      m.atom \in exposures[p.id].atoms, NEW f \in events
               PROVE  /\ m.id < p.id /\ Stores(f, m) => f.stop <= p.start
                      /\ m.id > p.id /\ Loads(f, m) => p.stop <= f.start
    BY DEF ExposedAtRest
  <2>1. TypeInv /\ HistoryInv
    BY DEF IInv
  <2>2. p \in events /\ p.type = "two_qubit_gate"
    BY DEF Pulses
  <2>3. p.id \in DOMAIN exposures
    BY <2>1, <2>2 DEF HistoryInv, PulsesExposed
  <2>4. m.atom \in Atoms /\ m.id \in Nat /\ p.id \in Nat
    BY <2>1, <2>2 DEF TypeInv, HistoryType, LedgerType, Before
  <2>5. p.id \in Touches(journal, exposures, m.atom) /\ m.id \in Touches(journal, exposures, m.atom)
    BY <2>3 DEF Touches
  <2>6. ASSUME f.id = m.id, m.id < p.id PROVE f.stop <= p.start
    BY <2>1, <2>2, <2>4, <2>5, <2>6 DEF HistoryInv, Chained
  <2>7. ASSUME f.id = m.id, m.id > p.id PROVE p.stop <= f.start
    <3>1. p.id < m.id
      BY <2>4, <2>7
    <3> QED BY <2>1, <2>2, <2>4, <2>5, <2>7, <3>1 DEF HistoryInv, Chained
  <2> QED BY <2>6, <2>7 DEF Stores, Loads
<1> QED BY <1>1, Invariant, PTL

\* A site is handed over in order: the atom that leaves it has been lifted before
\* another is set down there, although the arriving job may begin while the leaving
\* one still runs (_site_dependency_begin, get_begin_time), for any atoms, AODs,
\* durations and jobs, in and between layers, across every checkpoint and restart.
THEOREM SitesHandedOver == Spec => []HandoverInOrder
<1>1. SiteInv => HandoverInOrder
  BY DEF SiteInv, HandoverInv, HandedOver, HandoverInOrder, Loads, Stores
<1> QED BY <1>1, SitesInvariant, PTL

-----------------------------------------------------------------------------
(***************************************************************************)
(* Nothing pruned is looked up again.  What the dependency ledgers name is *)
(* either of the chunk or was kept when the layers before were published,  *)
(* by the router and by the ledger alike, and so is what the instructions  *)
(* of the chunk wait for.                                                  *)
(***************************************************************************)

\* The instructions that the dependency ledgers name.
IdsOf(qd, sd, ad, rd, lq) ==
  {qd[q] : q \in Atoms} \cup {sd[s] : s \in DOMAIN sd} \cup {ad[r] : r \in Aods} \cup {rd}
    \cup (IF lq = None THEN {} ELSE {lq})

KeepOnly(w, ins, ids) == DOMAIN w = ids /\ DOMAIN ins = ids

Kept == DOMAIN window \cap DOMAIN instructions

\* What an instruction waits for.
Awaits(i) == i.deps \cup i.sites

ShapeOf(i, id) ==
  /\ ToSet(i.atoms) \subseteq Atoms
  /\ i.sites \subseteq 0 .. id
  /\ i.kind = "init" => id = 0
  /\ i.kind = "aod" => ShapedJob(i.job, ToSet(i.atoms))
  /\ i.kind # "aod" => i.sites = {}

ShapeInv ==
  /\ gates \in Seq(Atoms \X Atoms)
  /\ \A k \in 1 .. Len(chunk) : ShapeOf(chunk[k], base + k - 1)

IdInv ==
  /\ DOMAIN instructions \subseteq Before(nextId)
  /\ base .. UntimedId - 1 \subseteq DOMAIN window
  /\ \A d \in ActiveIds : d < base => d \in Kept
  /\ \A k \in 1 .. Len(chunk) : \A d \in Awaits(chunk[k]) : d < base => d \in Kept
  /\ stage = "boundary" => KeepOnly(window, instructions, ActiveIds)

SavedIdInv ==
  saved # NoCheckpoint =>
    KeepOnly(saved.window, saved.instructions,
             IdsOf(saved.qubitDep, saved.siteDep, saved.aodDep, saved.rydDep, saved.lastOneQ))

KeptInv == ShapeInv /\ IdInv /\ SavedIdInv

LEMMA ActiveIdsOf == ActiveIds = IdsOf(qubitDep, siteDep, aodDep, rydDep, lastOneQ)
BY DEF ActiveIds, IdsOf

\* The instruction with an id of the chunk.
LEMMA OfChunk ==
  ASSUME IInv, ShapeInv, NEW n \in base .. NextInst - 1
  PROVE  /\ (n - base) + 1 \in 1 .. Len(chunk) /\ At(n) = chunk[(n - base) + 1]
         /\ n \in Before(NextInst) /\ base <= n
         /\ ShapeOf(At(n), n) /\ GoodInstruction(At(n), n, exposures)
<1>1. TypeInv /\ StageInv /\ ChunkInv
  BY DEF IInv
<1>2. /\ base \in Nat /\ Len(chunk) \in Nat /\ NextInst = base + Len(chunk)
  BY <1>1, Numbers DEF NextInst
<1>3. /\ (n - base) + 1 \in 1 .. Len(chunk) /\ n \in Before(NextInst) /\ base <= n
      /\ base + ((n - base) + 1) - 1 = n
  BY <1>2 DEF Before
<1>4. At(n) = chunk[(n - base) + 1]
  BY DEF At
<1>5. PICK k \in 1 .. Len(chunk) : k = (n - base) + 1
  BY <1>3
<1>6. ShapeOf(chunk[k], base + k - 1)
  BY DEF ShapeInv
<1>7. GoodInstruction(At(n), n, exposures)
  BY <1>1, <1>3, DepsBefore
<1> QED BY <1>3, <1>4, <1>5, <1>6, <1>7

\* Steps that leave the ids alone.
named == <<window, qubitDep, siteDep, aodDep, rydDep, lastOneQ>>

LEMMA SameIds ==
  ASSUME KeptInv, UNCHANGED <<base, chunk, timed, gates, saved, named, instructions, nextId>>,
         stage' = "boundary" => stage = "boundary"
  PROVE  KeptInv'
<1> USE DEF named
<1>1. ActiveIds' = ActiveIds /\ Kept' = Kept /\ UntimedId' = UntimedId
  BY DEF ActiveIds, Kept, UntimedId
<1>2. ShapeInv' /\ SavedIdInv'
  BY DEF KeptInv, ShapeInv, SavedIdInv
<1>3. IdInv'
  BY <1>1 DEF KeptInv, IdInv
<1> QED BY <1>2, <1>3 DEF KeptInv

LEMMA InitKept == Init => KeptInv
<1> SUFFICES ASSUME Init PROVE KeptInv
  OBVIOUS
<1>1. /\ IsSeq(chunk) /\ Len(chunk) \in {1, 2}
      /\ chunk[1] = Instruction("init", <<>>, <<>>, {}, {})
      /\ Len(chunk) = IF block = <<>> THEN 1 ELSE 2
      /\ block # <<>> => chunk[2] = Instruction("one_qubit", block, <<>>, {0}, {})
  BY InitialChunk
<1>2. base = 0 /\ UntimedId = Len(chunk) /\ DOMAIN window = 0 .. Len(chunk) - 1
  BY <1>1 DEF Init, UntimedId
<1>3. instructions = [id \in {} |-> {}] /\ nextId = 0 /\ stage = "replay" /\ saved = NoCheckpoint
  BY DEF Init, Ledger!Init
<1>4. block \in Seq(Atoms) /\ ToSet(block) \subseteq Atoms /\ ToSet(<<>>) = {}
  <2>1. block \in Seq(Atoms)
    BY RouteAssumption DEF Init
  <2>2. ToSet(<<>>) = {}
    BY DEF ToSet
  <2> QED BY <2>1, <2>2, SeqNames
<1>5. \A k \in 1 .. Len(chunk) : k = 1 \/ (k = 2 /\ block # <<>>)
  BY <1>1
<1>6. ShapeInv
  <2>1. gates \in Seq(Atoms \X Atoms)
    BY EmptySeq DEF Init
  <2>2. ShapeOf(chunk[1], 0)
    BY <1>1, <1>4 DEF ShapeOf, Instruction
  <2>3. block # <<>> => ShapeOf(chunk[2], 1)
    BY <1>1, <1>4 DEF ShapeOf, Instruction
  <2> QED BY <1>2, <1>5, <2>1, <2>2, <2>3 DEF ShapeInv
<1>7. \A d \in ActiveIds : ~(d < base)
  <2>1. IInv
    BY InitIInv
  <2> QED BY <2>1, <1>2 DEF IInv, TypeInv, RouterType, ActiveIds, Before
<1>8. \A k \in 1 .. Len(chunk) : \A d \in Awaits(chunk[k]) : ~(d < base)
  <2>1. \A d \in Awaits(chunk[1]) : ~(d < base)
    BY <1>1, <1>2 DEF Awaits, Instruction
  <2>2. block # <<>> => \A d \in Awaits(chunk[2]) : ~(d < base)
    BY <1>1, <1>2 DEF Awaits, Instruction
  <2> QED BY <1>5, <2>1, <2>2
<1>9. IdInv
  BY <1>2, <1>3, <1>7, <1>8 DEF IdInv
<1> QED BY <1>3, <1>6, <1>9 DEF KeptInv, SavedIdInv

LEMMA RouteLayerKept == IInv /\ KeptInv /\ RouteLayer => KeptInv'
<1> SUFFICES ASSUME IInv, KeptInv, RouteLayer PROVE KeptInv'
  OBVIOUS
<1>1. PICK s \in Program[layer + 1] : \E g, f : AcceptLayer(s, g, f)
  BY DEF RouteLayer
<1>2. /\ UNCHANGED <<base, chunk, timed, saved, named, instructions, nextId>>
      /\ stage' = "out" /\ gates' = s.gates
  BY <1>1 DEF AcceptLayer, depVars, crashVars, ledgerVars, named
<1>3. s.gates \in Seq(Atoms \X Atoms)
  <2>1. layer + 1 \in 1 .. Len(Program)
    <3>1. Len(Program) \in Nat
      BY RouteAssumption, LenProperties
    <3> QED BY <3>1 DEF RouteLayer, IInv, TypeInv
  <2>2. Program[layer + 1] \in SUBSET [gates : Seq(Atoms \X Atoms), block : Seq(Atoms)]
    BY <2>1, RouteAssumption, ElementOfSeq
  <2> QED BY <2>2
<1> USE DEF named
<1>4. ActiveIds' = ActiveIds /\ Kept' = Kept /\ UntimedId' = UntimedId
  BY <1>2 DEF ActiveIds, Kept, UntimedId
<1>5. ShapeInv' /\ SavedIdInv'
  BY <1>2, <1>3 DEF KeptInv, ShapeInv, SavedIdInv
<1>6. IdInv'
  BY <1>2, <1>4 DEF KeptInv, IdInv
<1> QED BY <1>5, <1>6 DEF KeptInv

\* A failure, a call that begins and an event that is booked leave the ids alone.
LEMMA LedgerStepKept ==
  ASSUME KeptInv, Fail \/ UNCHANGED <<stage, replayed, routerVars>>,
         UNCHANGED <<instructions, nextId>>
  PROVE  KeptInv'
<1>1. /\ UNCHANGED <<base, chunk, timed, gates, saved, named, instructions, nextId>>
      /\ stage' = "boundary" => stage = "boundary"
  BY DEF Fail, routerVars, layerVars, depVars, crashVars, named
<1> QED BY <1>1, SameIds

-----------------------------------------------------------------------------
(***************************************************************************)
(* What the steps that write instructions append.                          *)
(***************************************************************************)

JobWritten(atoms, i) ==
  /\ i.kind = "aod" /\ ToSet(i.atoms) = atoms /\ ShapedJob(i.job, atoms)
  /\ i.deps = {qubitDep[q] : q \in atoms}
  /\ \A d \in i.sites : d = NextInst \/ \E s \in DOMAIN siteDep : d = siteDep[s]
  /\ IsSeq(chunk') /\ Len(chunk') = Len(chunk) + 1
  /\ \A k \in 1 .. Len(chunk) : chunk'[k] = chunk[k]
  /\ chunk'[Len(chunk) + 1] = i
  /\ \A q \in Atoms : qubitDep'[q] = IF q \in atoms THEN NextInst ELSE qubitDep[q]
  /\ \A s \in DOMAIN siteDep' :
       siteDep'[s] = NextInst \/ (s \in DOMAIN siteDep /\ siteDep'[s] = siteDep[s])

LEMMA JobFacts ==
  ASSUME IInv, NEW atoms \in SUBSET pending, EmitJob(atoms)
  PROVE  \E i : JobWritten(atoms, i)
<1>1. TypeInv /\ ChunkInv
  BY DEF IInv
<1>2. atoms \subseteq Atoms /\ atoms # {}
  BY <1>1 DEF TypeInv, EmitJob
<1>3. PICK rowOf : rowOf = [q \in atoms |-> RowOf[From[q]]]
  OBVIOUS
<1>4. PICK colOf : colOf = [q \in atoms |-> ColOf[From[q]]]
  OBVIOUS
<1>5. PICK order : order = VisitOrder(atoms)
  OBVIOUS
<1>6. PICK i : i = Instruction("aod", order, ExpandedJob(RowSeq(atoms, rowOf), colOf),
                               {qubitDep[q] : q \in atoms}, SiteDepsOf(order, NextInst))
  OBVIOUS
<1>7. /\ chunk' = Append(chunk, i)
      /\ qubitDep' = [q \in Atoms |-> IF q \in atoms THEN NextInst ELSE qubitDep[q]]
      /\ siteDep' = [s \in DOMAIN siteDep \cup {From[q] : q \in atoms} |->
                       IF s \in {From[q] : q \in atoms} THEN NextInst ELSE siteDep[s]]
  BY <1>3, <1>4, <1>5, <1>6 DEF EmitJob
<1>8. IsFiniteSet(atoms) /\ atoms \subseteq Int
  <2>1. IsFiniteSet(atoms)
    BY <1>2, RouteAssumption, FS_Subset
  <2>2. Atoms \subseteq Nat
    BY RouteAssumption
  <2> QED BY <1>2, <2>1, <2>2
<1>9. \A q \in atoms : rowOf[q] \in Int
  <2>1. \A q \in atoms : From[q] \in Sites
    BY <1>1, <1>2 DEF TypeInv, Placing, From
  <2> QED BY <1>3, <2>1, RouteAssumption
<1>10. ToSet(order) = atoms
  <2>1. order = FlattenSeq(RowSeq(atoms, rowOf))
    BY <1>3, <1>5 DEF VisitOrder
  <2>2. Visits(FlattenSeq(RowSeq(atoms, rowOf)), atoms)
    BY <1>8, <1>9, RowsHaveAll
  <2> QED BY <2>1, <2>2, VisitsAll
<1>11. ShapedJob(ExpandedJob(RowSeq(atoms, rowOf), colOf), atoms)
  BY <1>2, <1>8, <1>9, ExpandedShape
<1>12. /\ i.kind = "aod" /\ i.atoms = order /\ i.job = ExpandedJob(RowSeq(atoms, rowOf), colOf)
       /\ i.deps = {qubitDep[q] : q \in atoms} /\ i.sites = SiteDepsOf(order, NextInst)
  BY <1>6 DEF Instruction
<1>13. \A d \in SiteDepsOf(order, NextInst) :
         d = NextInst \/ \E s \in DOMAIN siteDep : d = siteDep[s]
  BY DEF SiteDepsOf
<1>14. /\ IsSeq(chunk') /\ Len(chunk') = Len(chunk) + 1
       /\ \A k \in 1 .. Len(chunk) : chunk'[k] = chunk[k]
       /\ chunk'[Len(chunk) + 1] = i
  BY <1>1, <1>7, AppendIsSeq DEF ChunkInv
<1>15. /\ \A q \in Atoms : qubitDep'[q] = IF q \in atoms THEN NextInst ELSE qubitDep[q]
       /\ \A s \in DOMAIN siteDep' :
            siteDep'[s] = NextInst \/ (s \in DOMAIN siteDep /\ siteDep'[s] = siteDep[s])
  BY <1>7
<1>16. JobWritten(atoms, i)
  BY <1>10, <1>11, <1>12, <1>13, <1>14, <1>15 DEF JobWritten
<1> QED BY <1>16

\* The pulse cz with its instruction a, and, when there is a block, b.
GatesWritten(cz, a, b) ==
  /\ a.kind = "cz" /\ ToSet(a.atoms) \subseteq Participants(gates) /\ a.sites = {}
  /\ a.deps \subseteq Before(cz) /\ rydDep \in a.deps
  /\ \A q \in InZone : qubitDep[q] \in a.deps
  /\ a.deps \subseteq {qubitDep[q] : q \in Atoms} \cup {rydDep}
  /\ block # <<>> =>
       /\ b.kind = "one_qubit" /\ b.atoms = block /\ b.sites = {}
       /\ cz \in b.deps /\ (lastOneQ # None => lastOneQ \in b.deps)
       /\ b.deps \subseteq {cz, lastOneQ}
       /\ chunk'[Len(chunk) + 2] = b
  /\ IsSeq(chunk') /\ Len(chunk') = (IF block # <<>> THEN Len(chunk) + 2 ELSE Len(chunk) + 1)
  /\ \A k \in 1 .. Len(chunk) : chunk'[k] = chunk[k]
  /\ chunk'[Len(chunk) + 1] = a
  /\ rydDep' = cz /\ lastOneQ' = (IF block # <<>> THEN cz + 1 ELSE lastOneQ)
  /\ Participants(gates) \subseteq InZone /\ InZone \subseteq Atoms
  /\ ToSet(block) \subseteq Participants(gates)
  /\ \A q \in InZone : qubitDep'[q] = cz \/ (block # <<>> /\ qubitDep'[q] = cz + 1)
  /\ \A q \in ToSet(block) : qubitDep'[q] = cz + 1
  /\ \A q \in Atoms \ InZone : qubitDep'[q] = qubitDep[q]

LEMMA GatesFacts ==
  ASSUME IInv, ShapeInv, EmitGates
  PROVE  \E a, b : GatesWritten(NextInst, a, b)
<1>1. TypeInv /\ StageInv /\ SeatInv /\ ChunkInv
  BY DEF IInv
<1>2. PICK cz : cz = NextInst
  OBVIOUS
<1>3. PICK dep1 : dep1 = [q \in Atoms |-> IF q \in Participants(gates) THEN cz ELSE qubitDep[q]]
  OBVIOUS
<1>4. PICK dep2 : dep2 = [q \in Atoms |-> IF q \in ToSet(block) THEN cz + 1 ELSE dep1[q]]
  OBVIOUS
<1>5. PICK czDeps : czDeps = {qubitDep[q] : q \in Participants(gates)} \cup {rydDep} \cup BoundDeps(dep2, cz)
  OBVIOUS
<1>6. PICK oneDeps : oneDeps = {dep1[q] : q \in ToSet(block)}
                               \cup (IF lastOneQ = None THEN {} ELSE {lastOneQ})
  OBVIOUS
<1> DEFINE two == block # <<>>
<1>8. PICK a : a = Instruction("cz", FlattenSeq(gates), <<>>, czDeps, {})
  OBVIOUS
<1>9. PICK b : b = Instruction("one_qubit", block, <<>>, oneDeps, {})
  OBVIOUS
<1>10. /\ stage = "out"
       /\ chunk' = chunk \o <<a>> \o (IF two THEN <<b>> ELSE <<>>)
       /\ qubitDep' = HoldReturning(BindExposed(dep2, cz), IF two THEN cz + 1 ELSE cz)
       /\ rydDep' = cz
       /\ lastOneQ' = (IF two THEN cz + 1 ELSE lastOneQ)
  BY <1>2, <1>3, <1>4, <1>5, <1>6, <1>8, <1>9 DEF EmitGates
<1>11. /\ Len(chunk) \in Nat /\ cz \in Nat /\ IsSeq(chunk)
  BY <1>1, <1>2, Numbers DEF NextInst, ChunkInv
<1>12. /\ IsSeq(chunk') /\ Len(chunk') = (IF two THEN Len(chunk) + 2 ELSE Len(chunk) + 1)
       /\ \A k \in 1 .. Len(chunk) : chunk'[k] = chunk[k]
       /\ chunk'[Len(chunk) + 1] = a /\ (two => chunk'[Len(chunk) + 2] = b)
  <2>1. PICK t : t = chunk'
    OBVIOUS
  <2>2. t = Extended(chunk, a, block, b)
    BY <2>1, <1>10 DEF Extended
  <2>3. Extends(t, chunk, a, block, b)
    BY <2>2, <1>11, OneOrTwoMore
  <2> QED BY <2>1, <2>3 DEF Extends
<1>13. /\ Participants(gates) \subseteq InZone /\ block \in Seq(Atoms)
       /\ ToSet(block) \subseteq Participants(gates) /\ InZone \subseteq Atoms
       /\ \A q \in Atoms : gateMap[q] # finalMap[q] => q \in InZone
  BY <1>1, <1>10 DEF SeatInv, InZone
<1>14. /\ qubitDep \in [Atoms -> Before(cz)] /\ rydDep \in Before(cz)
       /\ lastOneQ \in {None} \cup Before(cz)
  BY <1>1, <1>2 DEF TypeInv, RouterType
<1>15. \A q \in Atoms :
         /\ dep2[q] = (IF q \in ToSet(block) THEN cz + 1 ELSE dep1[q])
         /\ dep1[q] = (IF q \in Participants(gates) THEN cz ELSE qubitDep[q])
         /\ qubitDep[q] < cz
  BY <1>3, <1>4, <1>11, <1>14 DEF Before
<1>16. \A q \in ToSet(block) : two
  BY DEF ToSet
<1>17. \A q \in InZone : BindExposed(dep2, cz)[q] = IF q \in ToSet(block) THEN cz + 1 ELSE cz
  <2> TAKE q \in InZone
  <2>1. q \in Atoms
    BY <1>13
  <2>2. BindExposed(dep2, cz)[q] = IF dep2[q] < cz THEN cz ELSE dep2[q]
    BY <2>1 DEF BindExposed
  <2> QED BY <2>1, <2>2, <1>11, <1>13, <1>15
<1>18. \A q \in Atoms : qubitDep'[q] = IF gateMap[q] # finalMap[q] /\ q \notin Participants(gates)
                                      THEN (IF two THEN cz + 1 ELSE cz) ELSE BindExposed(dep2, cz)[q]
  BY <1>10 DEF HoldReturning
<1>19. \A q \in InZone : qubitDep'[q] = cz \/ (two /\ qubitDep'[q] = cz + 1)
  BY <1>13, <1>16, <1>17, <1>18
<1>20. \A q \in ToSet(block) : qubitDep'[q] = cz + 1
  BY <1>13, <1>17, <1>18
<1>21. \A q \in Atoms \ InZone : qubitDep'[q] = qubitDep[q]
  <2> TAKE q \in Atoms \ InZone
  <2>1. q \notin Participants(gates) /\ q \notin ToSet(block) /\ gateMap[q] = finalMap[q]
    BY <1>13
  <2>2. BindExposed(dep2, cz)[q] = dep2[q]
    BY DEF BindExposed
  <2> QED BY <2>1, <2>2, <1>15, <1>18
<1>22. \A d \in BoundDeps(dep2, cz) : \E q \in Atoms : d = qubitDep[q]
  <2> SUFFICES ASSUME NEW q \in InZone, dep2[q] < cz PROVE dep2[q] = qubitDep[q]
    BY <1>13 DEF BoundDeps
  <2> QED BY <1>11, <1>13, <1>15
<1>23. czDeps \subseteq {qubitDep[q] : q \in Atoms} \cup {rydDep}
  BY <1>5, <1>13, <1>22
<1>24. czDeps \subseteq Before(cz)
  BY <1>14, <1>23
<1>25. ASSUME NEW q \in InZone PROVE qubitDep[q] \in czDeps
  <2>1. CASE q \in Participants(gates)
    BY <2>1, <1>5
  <2>2. CASE q \notin Participants(gates)
    <3>1. dep2[q] = qubitDep[q] /\ dep2[q] < cz
      BY <2>2, <1>13, <1>15
    <3> QED BY <3>1, <1>5 DEF BoundDeps
  <2> QED BY <2>1, <2>2
<1>26. two => /\ cz \in oneDeps /\ (lastOneQ # None => lastOneQ \in oneDeps)
              /\ oneDeps \subseteq {cz, lastOneQ}
  <2> SUFFICES ASSUME two
               PROVE  /\ cz \in oneDeps /\ (lastOneQ # None => lastOneQ \in oneDeps)
                      /\ oneDeps \subseteq {cz, lastOneQ}
    OBVIOUS
  <2>1. \A q \in ToSet(block) : dep1[q] = cz
    BY <1>13, <1>15
  <2>2. ToSet(block) # {}
    <3>1. 1 \in DOMAIN block
      BY <1>13, EmptySeq, LenProperties
    <3> QED BY <3>1 DEF ToSet
  <2> QED BY <2>1, <2>2, <1>6
<1>27. ToSet(FlattenSeq(gates)) \subseteq Participants(gates)
  <2>1. gates \in Seq(Atoms \X Atoms)
    BY DEF ShapeInv
  <2>2. PICK n \in Nat : n = Len(gates) /\ DOMAIN gates = 1 .. n
                        /\ gates \in [1 .. n -> Atoms \X Atoms]
    BY <2>1, LenProperties
  <2>3. \A k \in 1 .. n : gates[k] \in Seq(Participants(gates))
    <3> TAKE k \in 1 .. n
    <3>1. gates[k][1] \in Participants(gates) /\ gates[k][2] \in Participants(gates)
      BY <2>2 DEF Participants
    <3>2. gates[k] \in Atoms \X Atoms
      BY <2>2
    <3>3. gates[k] = <<gates[k][1], gates[k][2]>>
      BY <3>2
    <3>4. \A S, x, y : x \in S /\ y \in S => <<x, y>> \in Seq(S)
      OBVIOUS
    <3> QED BY <3>1, <3>3, <3>4
  <2>4. gates \in Seq(Seq(Participants(gates)))
    BY <2>2, <2>3, SeqDef
  <2> QED BY <2>4, FlattenType, SeqNames
<1>28. /\ a.kind = "cz" /\ a.atoms = FlattenSeq(gates) /\ a.sites = {} /\ a.deps = czDeps
       /\ b.kind = "one_qubit" /\ b.atoms = block /\ b.sites = {} /\ b.deps = oneDeps
  BY <1>8, <1>9 DEF Instruction
<1>29. GatesWritten(cz, a, b)
  BY <1>5, <1>10, <1>12, <1>13, <1>19, <1>20, <1>21, <1>23, <1>24, <1>25, <1>26, <1>27, <1>28
    DEF GatesWritten
<1> QED BY <1>2, <1>29

\* What is written waits for what the dependency ledgers name, or for the chunk.
LEMMA WrittenKept ==
  ASSUME IInv, KeptInv, UNCHANGED <<base, timed, gates, saved, window, instructions, nextId>>,
         stage' # "boundary", Len(chunk') \in Nat, Len(chunk) <= Len(chunk'),
         \A k \in 1 .. Len(chunk) : chunk'[k] = chunk[k],
         \A k \in Len(chunk) + 1 .. Len(chunk') :
           /\ ShapeOf(chunk'[k], base + k - 1)
           /\ \A d \in Awaits(chunk'[k]) : d < base => d \in ActiveIds,
         \A d \in ActiveIds' : d < base => d \in ActiveIds
  PROVE  KeptInv'
<1>1. Len(chunk) \in Nat
  BY Numbers DEF IInv
<1>2. \A k \in 1 .. Len(chunk') : k \in 1 .. Len(chunk) \/ k \in Len(chunk) + 1 .. Len(chunk')
  BY <1>1
<1>3. Kept' = Kept /\ UntimedId' = UntimedId
  BY DEF Kept, UntimedId
<1>4. \A d \in ActiveIds : d < base => d \in Kept
  BY DEF KeptInv, IdInv
<1>5. ShapeInv'
  BY <1>2 DEF KeptInv, ShapeInv
<1>6. \A k \in 1 .. Len(chunk') : \A d \in Awaits(chunk'[k]) : d < base => d \in Kept
  BY <1>2, <1>4 DEF KeptInv, IdInv
<1>7. \A d \in ActiveIds' : d < base => d \in Kept
  BY <1>4
<1>8. IdInv'
  <2>1. DOMAIN instructions \subseteq Before(nextId) /\ base .. UntimedId - 1 \subseteq DOMAIN window
    BY DEF KeptInv, IdInv
  <2>2. \A k \in 1 .. Len(chunk') : \A d \in (Awaits(chunk[k]))' : d < base => d \in Kept
    BY <1>6 DEF Awaits
  <2> QED BY <1>3, <1>7, <2>1, <2>2 DEF IdInv
<1> QED BY <1>5, <1>8 DEF KeptInv, SavedIdInv

LEMMA EmitJobKept ==
  ASSUME IInv, KeptInv, NEW atoms \in SUBSET pending, EmitJob(atoms)
  PROVE  KeptInv'
<1>1. TypeInv /\ StageInv /\ ChunkInv
  BY DEF IInv
<1>2. PICK i : JobWritten(atoms, i)
  BY JobFacts
<1>3. PICK id : id = NextInst
  OBVIOUS
<1>4. /\ id \in Nat /\ base \in Nat /\ Len(chunk) \in Nat /\ id = base + Len(chunk)
  BY <1>1, <1>3, Numbers DEF NextInst
<1>5. /\ UNCHANGED <<base, timed, gates, saved, window, instructions, nextId>>
      /\ UNCHANGED <<aodDep, rydDep, lastOneQ>> /\ stage' # "boundary"
  BY DEF EmitJob, layerVars, crashVars, ledgerVars
<1>6. atoms \subseteq Atoms
  BY <1>1 DEF TypeInv
<1>7. Len(chunk') = Len(chunk) + 1 /\ \A k \in 1 .. Len(chunk) : chunk'[k] = chunk[k]
  BY <1>2 DEF JobWritten
<1>8. ShapeOf(i, id)
  <2>1. \A s \in DOMAIN siteDep : siteDep[s] \in Before(id)
    BY <1>1, <1>3 DEF TypeInv, RouterType
  <2>2. i.sites \subseteq 0 .. id
    BY <1>2, <1>3, <1>4, <2>1 DEF JobWritten, Before
  <2> QED BY <1>2, <1>6, <2>2 DEF JobWritten, ShapeOf
<1>9. \A d \in Awaits(i) : d < base => d \in ActiveIds
  <2>1. \A d \in i.deps : d \in ActiveIds
    BY <1>2, <1>6 DEF JobWritten, ActiveIds
  <2>2. \A d \in i.sites : d = id \/ d \in ActiveIds
    BY <1>2, <1>3 DEF JobWritten, ActiveIds
  <2> QED BY <2>1, <2>2, <1>4 DEF Awaits
<1>10. \A k \in Len(chunk) + 1 .. Len(chunk') :
         /\ ShapeOf(chunk'[k], base + k - 1)
         /\ \A d \in Awaits(chunk'[k]) : d < base => d \in ActiveIds
  <2> TAKE k \in Len(chunk) + 1 .. Len(chunk')
  <2>1. k = Len(chunk) + 1 /\ base + k - 1 = id
    BY <1>4, <1>7
  <2>2. chunk'[k] = i
    BY <1>2, <2>1 DEF JobWritten
  <2> QED BY <2>1, <2>2, <1>8, <1>9
<1>11. \A d \in ActiveIds' : d < base => d \in ActiveIds
  <2>1. \A q \in Atoms : qubitDep'[q] = id \/ qubitDep'[q] = qubitDep[q]
    BY <1>2, <1>3 DEF JobWritten
  <2>2. \A s \in DOMAIN siteDep' :
          siteDep'[s] = id \/ (s \in DOMAIN siteDep /\ siteDep'[s] = siteDep[s])
    BY <1>2, <1>3 DEF JobWritten
  <2>3. \A d \in ActiveIds' : d = id \/ d \in ActiveIds
    BY <1>5, <2>1, <2>2 DEF ActiveIds
  <2> QED BY <2>3, <1>4
<1>12. Len(chunk') \in Nat /\ Len(chunk) <= Len(chunk')
  BY <1>4, <1>7
<1> QED BY <1>5, <1>7, <1>10, <1>11, <1>12, WrittenKept

LEMMA EmitGatesKept == IInv /\ KeptInv /\ EmitGates => KeptInv'
<1> SUFFICES ASSUME IInv, KeptInv, EmitGates PROVE KeptInv'
  OBVIOUS
<1>1. TypeInv /\ StageInv /\ ChunkInv /\ ShapeInv
  BY DEF IInv, KeptInv
<1>2. PICK cz : cz = NextInst
  OBVIOUS
<1>3. PICK a, b : GatesWritten(cz, a, b)
  BY <1>1, <1>2, GatesFacts
<1>4. /\ cz \in Nat /\ base \in Nat /\ Len(chunk) \in Nat /\ cz = base + Len(chunk)
  BY <1>1, <1>2, Numbers DEF NextInst
<1>5. /\ UNCHANGED <<base, timed, gates, block, saved, window, instructions, nextId>>
      /\ UNCHANGED <<aodDep, siteDep>> /\ stage' # "boundary" /\ stage = "out"
  BY DEF EmitGates, layerVars, crashVars, ledgerVars
<1>6. /\ \A k \in 1 .. Len(chunk) : chunk'[k] = chunk[k]
      /\ Len(chunk') = (IF block # <<>> THEN Len(chunk) + 2 ELSE Len(chunk) + 1)
      /\ chunk'[Len(chunk) + 1] = a /\ (block # <<>> => chunk'[Len(chunk) + 2] = b)
  BY <1>3 DEF GatesWritten
<1>7. Len(chunk') \in Nat /\ Len(chunk) <= Len(chunk') /\ base > 0
  BY <1>1, <1>4, <1>5, <1>6 DEF StageInv
<1>8. ShapeOf(a, cz) /\ (block # <<>> => ShapeOf(b, cz + 1))
  <2>1. \A x \in Participants(gates) : x \in Atoms
    BY <1>3 DEF GatesWritten
  <2>2. ShapeOf(a, cz)
    BY <1>3, <2>1 DEF GatesWritten, ShapeOf
  <2>3. block # <<>> => ShapeOf(b, cz + 1)
    BY <1>3, <2>1 DEF GatesWritten, ShapeOf
  <2> QED BY <2>2, <2>3
<1>9. \A d \in Awaits(a) : d < base => d \in ActiveIds
  BY <1>3 DEF GatesWritten, Awaits, ActiveIds
<1>10. block # <<>> => \A d \in Awaits(b) : d < base => d \in ActiveIds
  <2> SUFFICES ASSUME block # <<>>, NEW d \in Awaits(b), d < base PROVE d \in ActiveIds
    OBVIOUS
  <2>1. d \in {cz, lastOneQ}
    BY <1>3 DEF GatesWritten, Awaits
  <2>2. d = lastOneQ
    BY <1>4, <2>1
  <2>3. lastOneQ # None
    <3>1. \A x \in Awaits(b) : x \in b.deps
      BY <1>3 DEF GatesWritten, Awaits
    <3>2. b.deps \subseteq Before(cz + 1)
      <4>1. IInv'
        BY EmitGatesStep
      <4>2. ChunkInv'
        BY <4>1 DEF IInv
      <4>3. PICK k \in 1 .. Len(chunk') : k = Len(chunk) + 2
        BY <1>4, <1>6
      <4>4. GoodInstruction(chunk'[k], base' + k - 1, exposures')
        BY <4>2 DEF ChunkInv
      <4>5. base' + k - 1 = cz + 1 /\ chunk'[k] = b
        BY <1>4, <1>5, <1>6, <4>3
      <4> QED BY <4>4, <4>5 DEF GoodInstruction
    <3> QED BY <3>1, <3>2, <2>2 DEF None, Before
  <2> QED BY <2>2, <2>3 DEF ActiveIds
<1>11. \A k \in Len(chunk) + 1 .. Len(chunk') :
         /\ ShapeOf(chunk'[k], base + k - 1)
         /\ \A d \in Awaits(chunk'[k]) : d < base => d \in ActiveIds
  <2> TAKE k \in Len(chunk) + 1 .. Len(chunk')
  <2>1. CASE k = Len(chunk) + 1
    <3>1. base + k - 1 = cz
      BY <1>4, <2>1
    <3> QED BY <2>1, <3>1, <1>6, <1>8, <1>9
  <2>2. CASE k # Len(chunk) + 1
    <3>1. block # <<>> /\ k = Len(chunk) + 2 /\ base + k - 1 = cz + 1
      BY <1>4, <1>6, <2>2
    <3> QED BY <3>1, <1>6, <1>8, <1>10
  <2> QED BY <2>1, <2>2
<1>12. \A d \in ActiveIds' : d < base => d \in ActiveIds
  <2>1. \A q \in Atoms : qubitDep'[q] \in {cz, cz + 1} \/ qubitDep'[q] = qubitDep[q]
    BY <1>3 DEF GatesWritten
  <2>2. rydDep' = cz /\ (lastOneQ' = cz + 1 \/ lastOneQ' = lastOneQ)
    BY <1>3 DEF GatesWritten
  <2>3. \A d \in ActiveIds' : d \in {cz, cz + 1} \/ d \in ActiveIds
    BY <1>5, <2>1, <2>2 DEF ActiveIds
  <2> QED BY <2>3, <1>4
<1> QED BY <1>5, <1>6, <1>7, <1>11, <1>12, WrittenKept

-----------------------------------------------------------------------------
(***************************************************************************)
(* What aod_assignment reads is known.                                     *)
(***************************************************************************)

LEMMA UntimedKnown ==
  ASSUME IInv, KeptInv, Assigning
  PROVE  /\ Known(Untimed) /\ ShapeOf(Untimed, UntimedId)
         /\ \A d \in Awaits(Untimed) : d < base => d \in Kept
<1>1. /\ timed + 1 \in 1 .. Len(chunk) /\ timed \in Nat /\ base \in Nat
      /\ UntimedId = base + timed /\ UntimedId \in Nat
      /\ GoodInstruction(Untimed, UntimedId, exposures)
  BY UntimedFacts
<1>2. PICK k \in 1 .. Len(chunk) : k = timed + 1
  BY <1>1
<1>3. ShapeOf(chunk[k], base + k - 1) /\ \A d \in Awaits(chunk[k]) : d < base => d \in Kept
  BY DEF KeptInv, ShapeInv, IdInv
<1>4. base + k - 1 = UntimedId /\ chunk[k] = Untimed
  BY <1>1, <1>2 DEF Untimed
<1>5. \A d \in Before(UntimedId) : d < base \/ d \in base .. UntimedId - 1
  BY <1>1 DEF Before
<1>6. base .. UntimedId - 1 \subseteq DOMAIN window
  BY DEF KeptInv, IdInv
<1>7. \A d \in Before(UntimedId) : d \in Awaits(Untimed) => d \in DOMAIN window
  BY <1>3, <1>4, <1>5, <1>6 DEF Kept
<1>8. Untimed.deps \subseteq DOMAIN window
  BY <1>1, <1>7 DEF GoodInstruction, Awaits
<1>9. Untimed.sites \ {UntimedId} \subseteq DOMAIN window
  <2>1. \A d \in 0 .. UntimedId : d = UntimedId \/ d \in Before(UntimedId)
    BY <1>1 DEF Before
  <2> QED BY <2>1, <1>3, <1>4, <1>7 DEF ShapeOf, Awaits
<1> QED BY <1>3, <1>4, <1>8, <1>9 DEF Known

\* The times of a job with the AOD r, from begin.
JobTimed(r, begin) ==
  /\ r \in Aods /\ FirstFree(r) /\ begin \in Nat
  /\ IsLatest(begin, DepEnds(Untimed) \cup SiteTimes(Untimed) \cup {aodFree[r]})
  /\ Untimed.kind = "aod"
  /\ chunk'[timed + 1].kind = "aod" /\ chunk'[timed + 1].atoms = Untimed.atoms
  /\ chunk'[timed + 1].job = Untimed.job /\ chunk'[timed + 1].sites = Untimed.sites
  /\ chunk'[timed + 1].deps = Untimed.deps \cup {aodDep[r]} /\ chunk'[timed + 1].aod = r
  /\ IsSeq(chunk') /\ Len(chunk') = Len(chunk)
  /\ \A k \in 1 .. Len(chunk) : k # timed + 1 => chunk'[k] = chunk[k]
  /\ \A u \in Aods : aodDep'[u] = IF u = r THEN UntimedId ELSE aodDep[u]
  /\ \A u \in Aods : aodFree'[u] = IF u = r THEN begin + Duration(Untimed.job) ELSE aodFree[u]
  /\ SetTimes(Summary("aod", begin, begin + Duration(Untimed.job),
                      begin + PickupOffset(Untimed.job)))

LEMMA TimeJobFacts ==
  ASSUME IInv, Assigning, Known(Untimed), TimeJob(Untimed)
  PROVE  \E r \in Aods, begin \in Nat : JobTimed(r, begin)
<1>1. PICK r \in Aods, begin \in DepEnds(Untimed) \cup SiteTimes(Untimed) \cup {aodFree[u] : u \in Aods} :
        /\ FirstFree(r)
        /\ IsLatest(begin, DepEnds(Untimed) \cup SiteTimes(Untimed) \cup {aodFree[r]})
        /\ chunk' = [chunk EXCEPT ![timed + 1].deps = @ \cup {aodDep[r]}, ![timed + 1].aod = r]
        /\ aodDep' = [aodDep EXCEPT ![r] = UntimedId]
        /\ aodFree' = [aodFree EXCEPT ![r] = begin + Duration(Untimed.job)]
        /\ SetTimes(Summary("aod", begin, begin + Duration(Untimed.job),
                            begin + PickupOffset(Untimed.job)))
  BY DEF TimeJob
<1>2. /\ timed + 1 \in 1 .. Len(chunk) /\ Len(chunk) \in Nat
      /\ GoodInstruction(Untimed, UntimedId, exposures) /\ Untimed.kind = "aod"
  BY UntimedFacts DEF TimeJob
<1>3. TypeInv /\ ChunkInv
  BY DEF IInv
<1>4. aodDep \in [Aods -> Before(UntimedId)] /\ aodFree \in [Aods -> Nat]
  BY <1>3 DEF TypeInv, RouterType
<1>5. begin \in Nat
  <2>1. DepEnds(Untimed) \subseteq Nat /\ SiteTimes(Untimed) \subseteq Int
    BY <1>2, <1>3, DepEndsType, SiteTimesType
  <2>2. begin \in Int /\ aodFree[r] <= begin
    BY <1>1, <1>4, <2>1 DEF IsLatest
  <2> QED BY <1>4, <2>2
<1>6. PICK u : u = Untimed
  OBVIOUS
<1>7. PICK i : i = [u EXCEPT !.deps = @ \cup {aodDep[r]}, !.aod = r]
  OBVIOUS
<1>8. chunk' = [chunk EXCEPT ![timed + 1] = i]
  BY <1>1, <1>6, <1>7 DEF Untimed
<1>9. /\ IsSeq(chunk') /\ Len(chunk') = Len(chunk) /\ chunk'[timed + 1] = i
      /\ \A k \in 1 .. Len(chunk) : k # timed + 1 => chunk'[k] = chunk[k]
  <2>1. PICK s : s = chunk /\ s \in Seq(ToSet(s) \cup {i})
    <3>1. chunk \in Seq(ToSet(chunk))
      BY <1>3 DEF ChunkInv, IsSeq
    <3> QED BY <3>1, SeqMonotonic
  <2>2. PICK t : t = [s EXCEPT ![timed + 1] = i]
    OBVIOUS
  <2>3. /\ t \in Seq(ToSet(s) \cup {i}) /\ Len(t) = Len(s)
        /\ \A j \in 1 .. Len(s) : t[j] = IF j = timed + 1 THEN i ELSE s[j]
    BY <1>2, <2>1, <2>2, ExceptSeq
  <2>4. t \in Seq(ToSet(t))
    <3>1. Len(t) \in Nat /\ DOMAIN t = 1 .. Len(t) /\ t \in [1 .. Len(t) -> ToSet(s) \cup {i}]
      BY <2>3, LenProperties
    <3>2. t \in [1 .. Len(t) -> ToSet(t)]
      BY <3>1 DEF ToSet
    <3> QED BY <3>1, <3>2, SeqDef
  <2> QED BY <2>1, <2>2, <2>3, <2>4, <1>2, <1>8 DEF IsSeq
<1>10. i = [kind |-> u.kind, atoms |-> u.atoms, job |-> u.job, deps |-> u.deps \cup {aodDep[r]},
            sites |-> u.sites, aod |-> r]
  <2>1. u = [kind |-> u.kind, atoms |-> u.atoms, job |-> u.job, deps |-> u.deps,
             sites |-> u.sites, aod |-> u.aod]
    BY <1>2, <1>6 DEF GoodInstruction
  <2> QED BY <2>1, <1>7
<1>11. /\ \A v \in Aods : aodDep'[v] = IF v = r THEN UntimedId ELSE aodDep[v]
       /\ \A v \in Aods : aodFree'[v] = IF v = r THEN begin + Duration(Untimed.job) ELSE aodFree[v]
  BY <1>1, <1>4
<1>12. JobTimed(r, begin)
  BY <1>1, <1>2, <1>5, <1>6, <1>9, <1>10, <1>11 DEF JobTimed
<1> QED BY <1>5, <1>12

\* The times that are set are in the window, and who is timed may wait for its AOD too.
LEMMA TimedKept ==
  ASSUME IInv, KeptInv, Assigning, NEW summary, SetTimes(summary),
         UNCHANGED <<base, gates, saved, instructions, nextId, qubitDep, siteDep, rydDep, lastOneQ>>,
         Len(chunk') = Len(chunk),
         \A k \in 1 .. Len(chunk) : k # timed + 1 => chunk'[k] = chunk[k],
         ShapeOf(chunk'[timed + 1], UntimedId),
         \A d \in Awaits(chunk'[timed + 1]) : d < base => d \in Kept,
         \A r \in Aods : aodDep'[r] \in {aodDep[r], UntimedId}
  PROVE  KeptInv'
<1>1. /\ timed \in Nat /\ base \in Nat /\ UntimedId = base + timed /\ UntimedId \in Nat
      /\ stage = "back"
  BY UntimedFacts DEF Assigning
<1>2. /\ DOMAIN window' = DOMAIN window \cup {UntimedId} /\ timed' = timed + 1 /\ stage' # "boundary"
  BY <1>1 DEF SetTimes
<1>3. UntimedId' = UntimedId + 1
  <2>1. base + (timed + 1) = (base + timed) + 1
    BY <1>1
  <2> QED BY <2>1, <1>1, <1>2 DEF UntimedId
<1>4. \A d : d \in Kept => d \in Kept'
  BY <1>2 DEF Kept
<1>5. \A k \in 1 .. Len(chunk) : k = timed + 1 \/ k # timed + 1
  OBVIOUS
<1>6. ShapeInv'
  <2>1. \A k \in 1 .. Len(chunk) : ShapeOf(chunk'[k], base + k - 1)
    <3> TAKE k \in 1 .. Len(chunk)
    <3>1. CASE k = timed + 1
      <4>1. base + k - 1 = UntimedId
        BY <3>1, <1>1
      <4> QED BY <3>1, <4>1
    <3>2. CASE k # timed + 1
      BY <3>2 DEF KeptInv, ShapeInv
    <3> QED BY <3>1, <3>2
  <2> QED BY <2>1 DEF KeptInv, ShapeInv
<1>7. \A k \in 1 .. Len(chunk) : \A d \in (Awaits(chunk[k]))' : d < base => d \in Kept'
  <2>1. \A k \in 1 .. Len(chunk) : \A d \in Awaits(chunk'[k]) : d < base => d \in Kept
    <3> TAKE k \in 1 .. Len(chunk)
    <3>1. CASE k = timed + 1
      BY <3>1
    <3>2. CASE k # timed + 1
      BY <3>2 DEF KeptInv, IdInv
    <3> QED BY <3>1, <3>2
  <2> QED BY <2>1, <1>4 DEF Awaits
<1>8. \A d \in ActiveIds' : d < base => d \in Kept'
  <2>1. \A d \in ActiveIds' : d = UntimedId \/ d \in ActiveIds
    BY DEF ActiveIds
  <2>2. \A d \in ActiveIds : d < base => d \in Kept
    BY DEF KeptInv, IdInv
  <2>3. ~(UntimedId < base)
    BY <1>1
  <2> QED BY <2>1, <2>2, <2>3, <1>4
<1>9. base .. UntimedId' - 1 \subseteq DOMAIN window'
  <2>1. base .. UntimedId - 1 \subseteq DOMAIN window
    BY DEF KeptInv, IdInv
  <2>2. \A d \in base .. UntimedId' - 1 : d = UntimedId \/ d \in base .. UntimedId - 1
    BY <1>1, <1>3
  <2> QED BY <2>1, <2>2, <1>2
<1>10. IdInv'
  <2>1. DOMAIN instructions' \subseteq Before(nextId')
    BY DEF KeptInv, IdInv
  <2> QED BY <2>1, <1>2, <1>7, <1>8, <1>9 DEF IdInv
<1> QED BY <1>6, <1>10 DEF KeptInv, SavedIdInv

LEMMA AssignTimesKept == IInv /\ KeptInv /\ AssignTimes => KeptInv'
<1> SUFFICES ASSUME IInv, KeptInv, AssignTimes PROVE KeptInv'
  OBVIOUS
<1>1. /\ Assigning /\ Known(Untimed) /\ ShapeOf(Untimed, UntimedId)
      /\ \A d \in Awaits(Untimed) : d < base => d \in Kept
  BY UntimedKnown DEF AssignTimes
<1>2. UNCHANGED <<base, gates, saved, instructions, nextId, qubitDep, siteDep, rydDep, lastOneQ>>
  BY <1>1 DEF AssignTimes, layerVars, crashVars, ledgerVars
<1>3. CASE TimeJob(Untimed)
  <2>1. PICK r \in Aods, begin \in Nat : JobTimed(r, begin)
    BY <1>1, <1>3, TimeJobFacts
  <2>2. ShapeOf(chunk'[timed + 1], UntimedId)
    BY <1>1, <2>1 DEF JobTimed, ShapeOf
  <2>3. \A d \in Awaits(chunk'[timed + 1]) : d < base => d \in Kept
    <3>1. aodDep[r] \in ActiveIds
      BY DEF ActiveIds
    <3>2. aodDep[r] < base => aodDep[r] \in Kept
      BY <3>1 DEF KeptInv, IdInv
    <3>3. \A d \in Awaits(chunk'[timed + 1]) : d \in Awaits(Untimed) \/ d = aodDep[r]
      BY <2>1 DEF JobTimed, Awaits
    <3> QED BY <1>1, <3>2, <3>3
  <2>4. /\ \A u \in Aods : aodDep'[u] \in {aodDep[u], UntimedId}
        /\ Len(chunk') = Len(chunk)
        /\ \A k \in 1 .. Len(chunk) : k # timed + 1 => chunk'[k] = chunk[k]
    BY <2>1 DEF JobTimed
  <2>5. PICK summary : SetTimes(summary)
    BY <2>1 DEF JobTimed
  <2> QED BY <1>1, <1>2, <2>2, <2>3, <2>4, <2>5, TimedKept
<1>4. CASE TimeGate(Untimed)
  <2>1. PICK summary : SetTimes(summary)
    BY <1>4 DEF TimeGate
  <2>2. chunk' = chunk /\ aodDep' = aodDep /\ chunk'[timed + 1] = Untimed
    BY <1>1, <1>4 DEF AssignTimes, TimeGate, Untimed
  <2> QED BY <1>1, <1>2, <2>1, <2>2, TimedKept
<1> QED BY <1>1, <1>3, <1>4 DEF AssignTimes

-----------------------------------------------------------------------------
(***************************************************************************)
(* What the ledger is asked for is known, and what is published is kept.   *)
(***************************************************************************)

LEMMA ReplayedKnown ==
  ASSUME IInv, KeptInv, Replaying
  PROVE  KnownToLedger /\ ShapeOf(Replayed, nextId)
<1>1. /\ base \in Nat /\ nextId \in Nat /\ base <= nextId
      /\ nextId \in Before(NextInst) /\ Replayed = At(nextId)
      /\ GoodInstruction(Replayed, nextId, exposures)
      /\ NextInst \in Nat
  BY ReplayedFacts
<1>2. nextId \in base .. NextInst - 1
  BY <1>1 DEF Before
<1>3. PICK k \in 1 .. Len(chunk) : chunk[k] = Replayed /\ ShapeOf(Replayed, nextId)
  BY <1>1, <1>2, OfChunk DEF KeptInv
<1>4. \A d \in Awaits(Replayed) : d < base => d \in Kept
  BY <1>3 DEF KeptInv, IdInv
<1>5. \A d \in Before(nextId) : d < base \/ d \in base .. nextId - 1
  BY <1>1 DEF Before
<1>6. \A d \in base .. nextId - 1 : d \in DOMAIN instructions
  BY DEF IInv, ReplayInv
<1>7. \A d \in Before(nextId) : d \in Awaits(Replayed) => d \in DOMAIN instructions
  BY <1>4, <1>5, <1>6 DEF Kept
<1>8. Replayed.deps \subseteq DOMAIN instructions
  BY <1>1, <1>7 DEF GoodInstruction, Awaits
<1>9. Replayed.sites \ {nextId} \subseteq DOMAIN instructions
  <2>1. \A d \in 0 .. nextId : d = nextId \/ d \in Before(nextId)
    BY <1>1 DEF Before
  <2> QED BY <2>1, <1>3, <1>7 DEF ShapeOf, Awaits
<1> QED BY <1>3, <1>8, <1>9 DEF KnownToLedger

LEMMA ReplayBeginKept == IInv /\ KeptInv /\ ReplayBegin => KeptInv'
<1> SUFFICES ASSUME IInv, KeptInv, ReplayBegin PROVE KeptInv'
  OBVIOUS
<1>1. KnownToLedger
  BY ReplayedKnown DEF ReplayBegin
<1>2. Schedule(Replayed) /\ UNCHANGED <<stage, replayed, routerVars>>
  BY <1>1 DEF ReplayBegin
<1>3. UNCHANGED <<instructions, nextId>>
  BY <1>2 DEF Schedule, Ledger!BeginInit, Ledger!BeginOneQubit, Ledger!BeginCz, Ledger!BeginAod
<1> QED BY <1>2, <1>3, LedgerStepKept

LEMMA ReplayEventKept == KeptInv /\ ReplayEvent => KeptInv'
<1> SUFFICES ASSUME KeptInv, ReplayEvent PROVE KeptInv'
  OBVIOUS
<1>1. UNCHANGED <<instructions, nextId>>
  BY DEF ReplayEvent, Ledger!RecordEvent, Ledger!RaiseOverlap
<1>2. Fail \/ UNCHANGED <<stage, replayed, routerVars>>
  BY DEF ReplayEvent
<1> QED BY <1>1, <1>2, LedgerStepKept

LEMMA ReplayCommitKept == IInv /\ KeptInv /\ ReplayCommit => KeptInv'
<1> SUFFICES ASSUME IInv, KeptInv, ReplayCommit PROVE KeptInv'
  OBVIOUS
<1>1. /\ DOMAIN instructions' = DOMAIN instructions \cup {nextId} /\ nextId' = nextId + 1
      /\ UNCHANGED <<base, chunk, timed, gates, saved, named>> /\ Replaying
      /\ stage' \in {stage, "failed"}
  BY DEF ReplayCommit, Ledger!Commit, routerVars, layerVars, depVars, crashVars, named
<1>2. nextId \in Nat /\ stage' # "boundary"
  BY <1>1, ReplayedFacts DEF Replaying
<1> USE DEF named
<1>3. ActiveIds' = ActiveIds /\ UntimedId' = UntimedId /\ \A d : d \in Kept => d \in Kept'
  BY <1>1 DEF ActiveIds, UntimedId, Kept
<1>4. ShapeInv' /\ SavedIdInv'
  BY <1>1 DEF KeptInv, ShapeInv, SavedIdInv
<1>5. DOMAIN instructions' \subseteq Before(nextId')
  BY <1>1, <1>2 DEF KeptInv, IdInv, Before
<1>6. IdInv'
  BY <1>1, <1>2, <1>3, <1>5 DEF KeptInv, IdInv
<1> QED BY <1>4, <1>6 DEF KeptInv

\* At the end of a layer, both know what the dependency ledgers name.
LEMMA PublishKnown ==
  ASSUME IInv, KeptInv, stage = "replay", replayed = Len(chunk)
  PROVE  ActiveIds \subseteq DOMAIN window \cap DOMAIN instructions
<1>1. TypeInv /\ StageInv /\ ChunkInv /\ ReplayInv
  BY DEF IInv
<1>2. /\ Len(chunk) \in Nat /\ base \in Nat /\ NextInst = base + Len(chunk)
      /\ nextId = base + replayed /\ timed = Len(chunk)
  BY <1>1, Numbers DEF NextInst, StageInv
<1>3. UntimedId = NextInst /\ nextId = NextInst /\ NextInst \in Nat
  BY <1>2 DEF UntimedId
<1>4. ActiveIds \subseteq Before(NextInst)
  BY <1>1 DEF TypeInv, RouterType, ActiveIds
<1>5. \A d \in Before(NextInst) : d < base \/ d \in base .. NextInst - 1
  BY <1>2, <1>3 DEF Before
<1>6. \A d \in base .. NextInst - 1 : d \in DOMAIN window /\ d \in DOMAIN instructions
  BY <1>1, <1>3 DEF KeptInv, IdInv, ReplayInv
<1>7. \A d \in ActiveIds : d < base => d \in DOMAIN window /\ d \in DOMAIN instructions
  BY DEF KeptInv, IdInv, Kept
<1> QED BY <1>4, <1>5, <1>6, <1>7

LEMMA PublishKept == IInv /\ KeptInv /\ Publish => KeptInv'
<1> SUFFICES ASSUME IInv, KeptInv, Publish PROVE KeptInv'
  OBVIOUS
<1>1. ActiveIds \subseteq DOMAIN window \cap DOMAIN instructions
  BY PublishKnown DEF Publish
<1>2. /\ window' = [id \in ActiveIds |-> window[id]]
      /\ instructions' = [id \in ActiveIds |-> instructions[id]] /\ nextId' = nextId
      /\ base' = NextInst /\ chunk' = <<>> /\ timed' = 0 /\ stage' = "boundary"
      /\ UNCHANGED <<gates, qubitDep, siteDep, aodDep, rydDep, lastOneQ, saved>>
  BY <1>1 DEF Publish, Ledger!Prune, depVars, crashVars
<1>3. NextInst \in Nat /\ Len(chunk') = 0
  BY <1>2, Numbers, EmptySeq DEF IInv
<1>4. 1 .. Len(chunk') = {} /\ UntimedId' = NextInst
  BY <1>2, <1>3 DEF UntimedId
<1>5. ActiveIds' = ActiveIds /\ DOMAIN window' = ActiveIds /\ DOMAIN instructions' = ActiveIds
  BY <1>2 DEF ActiveIds
<1>6. ShapeInv' /\ SavedIdInv'
  BY <1>2, <1>4 DEF KeptInv, ShapeInv, SavedIdInv
<1>7. base' .. UntimedId' - 1 = {}
  BY <1>2, <1>3, <1>4
<1>8. DOMAIN instructions' \subseteq Before(nextId')
  BY <1>1, <1>2, <1>5 DEF KeptInv, IdInv
<1>9. IdInv'
  BY <1>4, <1>5, <1>7, <1>8 DEF IdInv, Kept, KeepOnly
<1> QED BY <1>6, <1>9 DEF KeptInv

LEMMA CheckpointKept == IInv /\ KeptInv /\ Checkpoint => KeptInv'
<1> SUFFICES ASSUME IInv, KeptInv, Checkpoint PROVE KeptInv'
  OBVIOUS
<1>1. /\ stage = "boundary" /\ saved' = State /\ stage' = stage
      /\ UNCHANGED <<base, chunk, timed, gates, named, instructions, nextId>>
  BY DEF Checkpoint, layerVars, depVars, ledgerVars, named
<1>2. PICK s : s = State
  OBVIOUS
<1>3. /\ s.window = window /\ s.instructions = instructions
      /\ s.qubitDep = qubitDep /\ s.siteDep = siteDep /\ s.aodDep = aodDep
      /\ s.rydDep = rydDep /\ s.lastOneQ = lastOneQ
  BY <1>2 DEF State
<1>4. KeepOnly(window, instructions, IdsOf(qubitDep, siteDep, aodDep, rydDep, lastOneQ))
  BY <1>1, ActiveIdsOf DEF KeptInv, IdInv
<1>5. SavedIdInv'
  BY <1>1, <1>2, <1>3, <1>4 DEF SavedIdInv
<1> USE DEF named
<1>6. ShapeInv'
  BY <1>1 DEF KeptInv, ShapeInv
<1>7. IdInv'
  <2>1. ActiveIds' = ActiveIds /\ UntimedId' = UntimedId /\ Kept' = Kept
    BY <1>1 DEF ActiveIds, UntimedId, Kept
  <2> QED BY <1>1, <2>1 DEF KeptInv, IdInv
<1> QED BY <1>5, <1>6, <1>7 DEF KeptInv

\* What a new process takes from the checkpoint.
LEMMA RestoreKept == IInv /\ KeptInv /\ Restore => KeptInv' /\ stage' = "boundary"
<1> SUFFICES ASSUME IInv, KeptInv, Restore PROVE KeptInv' /\ stage' = "boundary"
  OBVIOUS
<1>1. PICK s : s = saved
  OBVIOUS
<1>2. /\ base' = s.base /\ window' = s.window /\ instructions' = s.instructions
      /\ qubitDep' = s.qubitDep /\ siteDep' = s.siteDep /\ aodDep' = s.aodDep
      /\ rydDep' = s.rydDep /\ lastOneQ' = s.lastOneQ
      /\ nextId' = s.nextId /\ gates' = <<>> /\ chunk' = <<>> /\ timed' = 0
      /\ stage' = (IF Consistent' THEN "boundary" ELSE "failed") /\ saved' = saved
      /\ saved # NoCheckpoint
  BY <1>1 DEF Restore
<1>3. KeepOnly(s.window, s.instructions,
               IdsOf(s.qubitDep, s.siteDep, s.aodDep, s.rydDep, s.lastOneQ))
  BY <1>1, <1>2 DEF KeptInv, SavedIdInv
<1>4. ActiveIds' = IdsOf(s.qubitDep, s.siteDep, s.aodDep, s.rydDep, s.lastOneQ)
  <2>1. ActiveIds' = IdsOf(qubitDep', siteDep', aodDep', rydDep', lastOneQ')
    BY DEF ActiveIds, IdsOf
  <2> QED BY <1>2, <2>1
<1>5. /\ s.base \in Nat /\ s.nextId = s.base
      /\ LedgerType(s.base, s.instructions, s.aodEnd, s.oneQEnd, s.rydEnd, s.events)
  BY <1>1, <1>2 DEF IInv, SavedInv
<1>6. DOMAIN window' = ActiveIds' /\ DOMAIN instructions' = ActiveIds'
  BY <1>2, <1>3, <1>4 DEF KeepOnly
<1>7. Consistent'
  BY <1>2, <1>5, <1>6 DEF Consistent
<1>8. Len(chunk') = 0 /\ 1 .. Len(chunk') = {} /\ UntimedId' = s.base
  <2>1. Len(chunk') = 0
    BY <1>2, EmptySeq
  <2> QED BY <1>2, <1>5, <2>1 DEF UntimedId
<1>9. ShapeInv'
  BY <1>2, <1>8, EmptySeq DEF ShapeInv
<1>10. IdInv'
  <2>1. base' .. UntimedId' - 1 = {}
    BY <1>2, <1>5, <1>8
  <2>2. DOMAIN instructions' \subseteq Before(nextId')
    BY <1>2, <1>5 DEF LedgerType
  <2> QED BY <1>6, <1>8, <2>1, <2>2 DEF IdInv, Kept, KeepOnly
<1>11. SavedIdInv'
  BY <1>2 DEF KeptInv, SavedIdInv
<1> QED BY <1>2, <1>7, <1>9, <1>10, <1>11 DEF KeptInv

LEMMA StutterKept == KeptInv /\ UNCHANGED vars => KeptInv'
<1> SUFFICES ASSUME KeptInv, UNCHANGED vars PROVE KeptInv'
  OBVIOUS
<1>1. /\ UNCHANGED <<base, chunk, timed, gates, saved, named, instructions, nextId>>
      /\ stage' = stage
  BY DEF vars, layerVars, depVars, crashVars, ledgerVars, named
<1> QED BY <1>1, SameIds

LEMMA NextKept == IInv /\ KeptInv /\ [Next]_vars => KeptInv'
<1> SUFFICES ASSUME IInv, KeptInv, [Next]_vars PROVE KeptInv'
  OBVIOUS
<1>1. CASE \E atoms \in SUBSET pending : EmitJob(atoms)
  BY <1>1, EmitJobKept
<1>2. CASE RouteLayer
  BY <1>2, RouteLayerKept
<1>3. CASE EmitGates
  BY <1>3, EmitGatesKept
<1>4. CASE AssignTimes
  BY <1>4, AssignTimesKept
<1>5. CASE ReplayBegin
  BY <1>5, ReplayBeginKept
<1>6. CASE ReplayEvent
  BY <1>6, ReplayEventKept
<1>7. CASE ReplayCommit
  BY <1>7, ReplayCommitKept
<1>8. CASE Publish
  BY <1>8, PublishKept
<1>9. CASE Checkpoint
  BY <1>9, CheckpointKept
<1>10. CASE Restore
  BY <1>10, RestoreKept
<1>11. CASE UNCHANGED vars
  BY <1>11, StutterKept
<1> QED BY <1>1, <1>2, <1>3, <1>4, <1>5, <1>6, <1>7, <1>8, <1>9, <1>10, <1>11 DEF Next, Advance

LEMMA KeptInvariant == Spec => []KeptInv
<1>1. Spec => []IInv
  BY Invariant
<1>2. IInv /\ KeptInv /\ [Next]_vars => KeptInv'
  BY NextKept
<1> QED BY <1>1, <1>2, InitKept, PTL DEF Spec

-----------------------------------------------------------------------------
(***************************************************************************)
(* No atom is in two active events at once.  Each atom, the beam and the   *)
(* Rydberg zone have an instruction they were last used by; as instruction *)
(* after instruction of the chunk is replayed this moves along a line from *)
(* what the layers before left to what the dependency ledgers name, and an *)
(* instruction that uses a thing waits for the one that used it last.      *)
(***************************************************************************)

OneQBeam == -1
RydZone  == -2
Things   == Atoms \cup {OneQBeam, RydZone}

LastUse(qd, rd, lq) ==
  [x \in Things |-> IF x = OneQBeam THEN lq ELSE IF x = RydZone THEN rd ELSE qd[x]]

BusyUntil(ae, oe, re) ==
  [x \in Things |-> IF x = OneQBeam THEN oe ELSE IF x = RydZone THEN re[Zone] ELSE ae[x]]

Uses(i) == ToSet(i.atoms) \cup (IF i.kind = "one_qubit" THEN {OneQBeam} ELSE {})
                          \cup (IF i.kind = "cz" THEN {RydZone} ELSE {})

\* Instruction i, with id n, takes the last uses from q to p.
Link(q, p, n, i) ==
  \A x \in Things :
    /\ x \in Uses(i) => p[x] = n
    /\ p[x] = q[x] \/ (p[x] = n /\ (q[x] = None \/ q[x] \in i.deps))

\* The first n instructions of a chunk take the last uses from line[0] to last.
Line(line, b, ch, n, last) ==
  line[n] = last /\ \A k \in 1 .. n : Link(line[k - 1], line[k], b + k - 1, ch[k])

\* What is not skipped is busy no longer than the instruction that used it last.
Fronted(p, busy, ins, skip) ==
  \A x \in Things \ skip : busy[x] = 0 \/ (p[x] \in DOMAIN ins /\ busy[x] <= ins[p[x]].end)

LastUsed  == LastUse(qubitDep, rydDep, lastOneQ)
Busy  == BusyUntil(atomEnd, oneQEnd, rydEnd)
InUse == IF Ledger!Booking THEN Uses(Replayed) ELSE {}

LineInv ==
  \E line : /\ Line(line, base, chunk, Len(chunk), LastUsed)
            /\ Fronted(line[replayed], Busy, instructions, InUse)

\* The bookings follow one another and none of the call's atoms is busy when
\* its next booking starts.
BookInv ==
  /\ atomEnd \in [Atoms -> Nat]
  /\ Ledger!Booking =>
       /\ call.timing.kind = Replayed.kind
       /\ \A x \in Things \cap Uses(Replayed) : Busy[x] <= call.timing.end
       /\ \A j, k \in 1 .. Len(call.booking) :
            j < k => call.booking[j].stop <= call.booking[k].start
       /\ \A k \in call.done + 1 .. Len(call.booking) :
            \A a \in Ledger!ActiveAtoms(call.booking[k]) :
              a \in ToSet(Replayed.atoms) /\ atomEnd[a] <= call.booking[k].start

SavedLineInv ==
  saved # NoCheckpoint =>
    /\ saved.atomEnd \in [Atoms -> Nat]
    /\ Fronted(LastUse(saved.qubitDep, saved.rydDep, saved.lastOneQ),
               BusyUntil(saved.atomEnd, saved.oneQEnd, saved.rydEnd), saved.instructions, {})

FreeInv == LineInv /\ BookInv /\ SavedLineInv

LEMMA ThingsApart ==
  /\ Atoms \subseteq Nat /\ OneQBeam \notin Atoms /\ RydZone \notin Atoms /\ OneQBeam # RydZone
  /\ \A x \in Things : x \in Atoms \/ x = OneQBeam \/ x = RydZone
<1>1. Atoms \subseteq Nat
  BY RouteAssumption
<1> QED BY <1>1 DEF OneQBeam, RydZone, Things

LEMMA LastUses ==
  ASSUME NEW qd, NEW rd, NEW lq
  PROVE  /\ \A q \in Atoms : LastUse(qd, rd, lq)[q] = qd[q]
         /\ LastUse(qd, rd, lq)[OneQBeam] = lq /\ LastUse(qd, rd, lq)[RydZone] = rd
<1>1. OneQBeam \in Things /\ RydZone \in Things /\ Atoms \subseteq Things
  BY DEF Things
<1> QED BY <1>1, ThingsApart DEF LastUse

LEMMA BusyTimes ==
  ASSUME NEW ae, NEW oe, NEW re
  PROVE  /\ \A q \in Atoms : BusyUntil(ae, oe, re)[q] = ae[q]
         /\ BusyUntil(ae, oe, re)[OneQBeam] = oe /\ BusyUntil(ae, oe, re)[RydZone] = re[Zone]
<1>1. OneQBeam \in Things /\ RydZone \in Things /\ Atoms \subseteq Things
  BY DEF Things
<1> QED BY <1>1, ThingsApart DEF BusyUntil

\* Times are numbers.
LEMMA BusyType ==
  ASSUME TypeInv, atomEnd \in [Atoms -> Nat]
  PROVE  \A x \in Things : Busy[x] \in Nat
<1>1. oneQEnd \in Nat /\ rydEnd[Zone] \in Nat
  BY DEF TypeInv, LedgerType
<1>2. /\ \A q \in Atoms : Busy[q] = atomEnd[q]
      /\ Busy[OneQBeam] = oneQEnd /\ Busy[RydZone] = rydEnd[Zone]
  BY BusyTimes DEF Busy
<1> QED BY <1>1, <1>2, ThingsApart

StartsLike(l, line) == l[0] = line[0]

Adds(c, a, b) == a \in Nat /\ b \in Nat /\ c = a + b

\* A line goes on with the next instruction.
LEMMA LineGrows ==
  ASSUME NEW line, NEW b, NEW ch, NEW n, NEW m, Adds(m, n, 1),
         NEW last, NEW p, Line(line, b, ch, n, last),
         NEW id, Adds(id, b, n), Link(last, p, id, ch[m])
  PROVE  \E l : Line(l, b, ch, m, p) /\ StartsLike(l, line)
<1> USE DEF Adds, StartsLike
<1>1. PICK l : l = [k \in 0 .. n + 1 |-> IF k = n + 1 THEN p ELSE line[k]]
  OBVIOUS
<1>2. /\ n + 1 \in 0 .. n + 1 /\ 0 \in 0 .. n + 1 /\ n \in 0 .. n + 1 /\ n # n + 1 /\ 0 # n + 1
      /\ (n + 1) - 1 = n /\ b + (n + 1) - 1 = b + ((n + 1) - 1)
  OBVIOUS
<1>3. l[n + 1] = p /\ l[0] = line[0] /\ l[n] = line[n]
  BY <1>1, <1>2
<1>4. \A k \in 1 .. n + 1 : Link(l[k - 1], l[k], b + k - 1, ch[k])
  <2> TAKE k \in 1 .. n + 1
  <2>1. CASE k = n + 1
    <3>1. k - 1 = n /\ line[n] = last
      BY <2>1 DEF Line
    <3>2. b + k - 1 = b + n
      BY <2>1
    <3> QED BY <2>1, <3>1, <3>2, <1>3
  <2>2. CASE k # n + 1
    <3>1. k \in 1 .. n /\ k - 1 \in 0 .. n + 1 /\ k \in 0 .. n + 1 /\ k - 1 # n + 1
      BY <2>2
    <3>2. l[k] = line[k] /\ l[k - 1] = line[k - 1]
      BY <1>1, <2>2, <3>1
    <3> QED BY <3>1, <3>2 DEF Line
  <2> QED BY <2>1, <2>2
<1> QED BY <1>3, <1>4 DEF Line

\* A line does not mind further dependencies.
LEMMA LineKept ==
  ASSUME NEW line, NEW b, NEW ch, NEW c, NEW n \in Nat, NEW last, Line(line, b, ch, n, last),
         \A k \in 1 .. n : Uses(c[k]) = Uses(ch[k]) /\ ch[k].deps \subseteq c[k].deps
  PROVE  Line(line, b, c, n, last)
<1>1. ASSUME NEW k \in 1 .. n PROVE Link(line[k - 1], line[k], b + k - 1, c[k])
  <2>1. Link(line[k - 1], line[k], b + k - 1, ch[k])
    BY DEF Line
  <2>2. Uses(c[k]) = Uses(ch[k]) /\ ch[k].deps \subseteq c[k].deps
    OBVIOUS
  <2> QED BY <2>1, <2>2 DEF Link
<1> QED BY <1>1 DEF Line

\* Steps that leave the last uses alone.
used == <<qubitDep, rydDep, lastOneQ, atomEnd, oneQEnd, rydEnd, instructions>>

LEMMA SameUses ==
  ASSUME UNCHANGED used
  PROVE  LastUsed' = LastUsed /\ Busy' = Busy
<1>1. LastUsed' = LastUse(qubitDep', rydDep', lastOneQ') /\ Busy' = BusyUntil(atomEnd', oneQEnd', rydEnd')
  BY DEF LastUsed, Busy, LastUse, BusyUntil
<1> QED BY <1>1 DEF LastUsed, Busy, used

LEMMA FreeSame ==
  ASSUME FreeInv, UNCHANGED <<base, chunk, replayed, call, saved, used>>
  PROVE  FreeInv'
<1>1. LastUsed' = LastUsed /\ Busy' = Busy
  BY SameUses
<1> USE DEF used
<1>2. InUse' = InUse /\ Replayed' = Replayed /\ (Ledger!Booking' <=> Ledger!Booking)
  BY DEF InUse, Replayed, Ledger!Booking, Uses
<1>3. PICK line : /\ Line(line, base, chunk, Len(chunk), LastUsed)
                  /\ Fronted(line[replayed], Busy, instructions, InUse)
  BY DEF FreeInv, LineInv
<1>4. /\ Line(line, base', chunk', Len(chunk'), LastUsed')
      /\ Fronted(line[replayed'], Busy', instructions', InUse')
  BY <1>1, <1>2, <1>3
<1>5. LineInv'
  BY <1>4 DEF LineInv, Line, Link, Fronted
<1>6. BookInv'
  BY <1>1, <1>2 DEF FreeInv, BookInv
<1>7. SavedLineInv'
  BY DEF FreeInv, SavedLineInv
<1> QED BY <1>5, <1>6, <1>7 DEF FreeInv

\* A line of one or two instructions.
LEMMA LineStarts ==
  ASSUME NEW ch, NEW none, NEW p, Link(none, p, 0, ch[1])
  PROVE  /\ \E l : Line(l, 0, ch, 1, p) /\ l[0] = none
         /\ \A q : Link(p, q, 1, ch[2]) => \E l : Line(l, 0, ch, 2, q) /\ l[0] = none
<1>1. \E l : Line(l, 0, ch, 1, p) /\ l[0] = none
  <2>1. PICK l : l = [k \in {0, 1} |-> IF k = 0 THEN none ELSE p]
    OBVIOUS
  <2>2. l[0] = none /\ l[1] = p
    BY <2>1
  <2>3. \A k \in 1 .. 1 : k = 1 /\ k - 1 = 0 /\ 0 + k - 1 = 0
    OBVIOUS
  <2>4. Line(l, 0, ch, 1, p)
    BY <2>2, <2>3 DEF Line
  <2> QED BY <2>2, <2>4
<1>2. ASSUME NEW q, Link(p, q, 1, ch[2]) PROVE \E l : Line(l, 0, ch, 2, q) /\ l[0] = none
  <2>1. PICK l : l = [k \in {0, 1, 2} |-> IF k = 0 THEN none ELSE IF k = 1 THEN p ELSE q]
    OBVIOUS
  <2>2. l[0] = none /\ l[1] = p /\ l[2] = q
    BY <2>1
  <2>3. \A k \in 1 .. 2 : (k = 1 /\ k - 1 = 0 /\ 0 + k - 1 = 0) \/ (k = 2 /\ k - 1 = 1 /\ 0 + k - 1 = 1)
    OBVIOUS
  <2>4. Line(l, 0, ch, 2, q)
    BY <1>2, <2>2, <2>3 DEF Line
  <2> QED BY <2>2, <2>4
<1> QED BY <1>1, <1>2

LEMMA InitFree == Init => FreeInv
<1> SUFFICES ASSUME Init PROVE FreeInv
  OBVIOUS
<1>1. /\ IsSeq(chunk) /\ Len(chunk) \in {1, 2}
      /\ chunk[1] = Instruction("init", <<>>, <<>>, {}, {})
      /\ Len(chunk) = IF block = <<>> THEN 1 ELSE 2
      /\ block # <<>> => chunk[2] = Instruction("one_qubit", block, <<>>, {0}, {})
  BY InitialChunk
<1>2. /\ base = 0 /\ replayed = 0 /\ rydDep = 0
      /\ qubitDep = [q \in Atoms |-> IF q \in ToSet(block) THEN 1 ELSE 0]
      /\ lastOneQ = (IF block = <<>> THEN None ELSE 1)
      /\ saved = NoCheckpoint /\ call = Ledger!Idle
      /\ atomEnd = [a \in Atoms |-> 0] /\ oneQEnd = 0 /\ rydEnd[Zone] = 0
  BY DEF Init, Ledger!Init
<1>3. ~Ledger!Booking /\ InUse = {}
  BY <1>2, CallStates DEF Ledger!Booking, InUse
<1>4. PICK none : none = [x \in Things |-> None]
  OBVIOUS
<1>5. PICK first : first = LastUse([q \in Atoms |-> 0], 0, None)
  OBVIOUS
<1>7. ToSet(<<>>) = {}
  BY DEF ToSet
<1>9. /\ \A q \in Atoms : first[q] = 0
      /\ first[OneQBeam] = None /\ first[RydZone] = 0
  BY <1>5, LastUses
<1>10. Link(none, first, 0, chunk[1])
  <2>1. /\ chunk[1].kind = "init" /\ chunk[1].atoms = <<>>
    BY <1>1 DEF Instruction
  <2>2. Uses(chunk[1]) = {}
    BY <2>1, <1>7 DEF Uses
  <2>3. \A x \in Things : none[x] = None /\ (first[x] = 0 \/ first[x] = None)
    BY <1>4, <1>9, ThingsApart
  <2> QED BY <2>2, <2>3 DEF Link
<1>11. /\ \E l : Line(l, 0, chunk, 1, first) /\ l[0] = none
       /\ \A q : Link(first, q, 1, chunk[2]) => \E l : Line(l, 0, chunk, 2, q) /\ l[0] = none
  <2>1. PICK c : c = chunk
    OBVIOUS
  <2>2. Link(none, first, 0, c[1])
    BY <2>1, <1>10
  <2> QED BY <2>1, <2>2, LineStarts
<1>12. /\ \A q \in Atoms : LastUsed[q] = qubitDep[q]
       /\ LastUsed[OneQBeam] = lastOneQ /\ LastUsed[RydZone] = rydDep
  BY LastUses DEF LastUsed
<1>13. \E line : Line(line, 0, chunk, Len(chunk), LastUsed) /\ line[0] = none
  <2>1. CASE block = <<>>
    <3>1. qubitDep = [q \in Atoms |-> 0]
      BY <1>2, <1>7, <2>1
    <3>2. LastUsed = first /\ Len(chunk) = 1
      BY <3>1, <2>1, <1>1, <1>2, <1>5 DEF LastUsed
    <3> QED BY <3>2, <1>11
  <2>2. CASE block # <<>>
    <3>1. /\ chunk[2].kind = "one_qubit" /\ chunk[2].atoms = block /\ chunk[2].deps = {0}
      BY <1>1, <2>2 DEF Instruction
    <3>2. Link(first, LastUsed, 1, chunk[2])
      <4> SUFFICES ASSUME NEW x \in Things
                   PROVE  /\ x \in Uses(chunk[2]) => LastUsed[x] = 1
                          /\ LastUsed[x] = first[x] \/ (LastUsed[x] = 1 /\ (first[x] = None \/ first[x] \in {0}))
        BY <3>1 DEF Link
      <4>1. x \in Uses(chunk[2]) <=> x \in ToSet(block) \/ x = OneQBeam
        BY <3>1 DEF Uses
      <4>2. CASE x \in Atoms
        BY <4>1, <4>2, <1>2, <1>9, <1>12, ThingsApart
      <4>3. CASE x = OneQBeam
        BY <4>1, <4>3, <2>2, <1>2, <1>9, <1>12
      <4>4. CASE x = RydZone
        <5>1. ToSet(block) \subseteq Atoms
          BY RouteAssumption, SeqNames DEF Init
        <5> QED BY <4>1, <4>4, <5>1, <1>2, <1>9, <1>12, ThingsApart
      <4> QED BY <4>2, <4>3, <4>4, ThingsApart
    <3>3. \E l : Line(l, 0, chunk, 2, LastUsed) /\ l[0] = none
      BY <3>2, <1>11
    <3>4. Len(chunk) = 2
      BY <1>1, <2>2
    <3> QED BY <3>3, <3>4
  <2> QED BY <2>1, <2>2
<1>14. \A x \in Things : Busy[x] = 0
  <2>1. /\ \A q \in Atoms : Busy[q] = atomEnd[q]
        /\ Busy[OneQBeam] = oneQEnd /\ Busy[RydZone] = rydEnd[Zone]
    BY BusyTimes DEF Busy
  <2> QED BY <2>1, <1>2, ThingsApart
<1>15. LineInv
  <2>1. \A p : Fronted(p, Busy, instructions, InUse)
    BY <1>14 DEF Fronted
  <2> QED BY <2>1, <1>2, <1>13 DEF LineInv
<1> QED BY <1>2, <1>3, <1>15 DEF FreeInv, BookInv, SavedLineInv

LEMMA RouteLayerFree == FreeInv /\ RouteLayer => FreeInv'
<1> SUFFICES ASSUME FreeInv, RouteLayer PROVE FreeInv'
  OBVIOUS
<1>1. UNCHANGED <<base, chunk, replayed, call, saved, used>>
  BY DEF RouteLayer, AcceptLayer, depVars, crashVars, ledgerVars, used
<1> QED BY <1>1, FreeSame

LEMMA StutterFree == FreeInv /\ UNCHANGED vars => FreeInv'
<1> SUFFICES ASSUME FreeInv, UNCHANGED vars PROVE FreeInv'
  OBVIOUS
<1>1. UNCHANGED <<base, chunk, replayed, call, saved, used>>
  BY DEF vars, depVars, crashVars, ledgerVars, used
<1> QED BY <1>1, FreeSame

-----------------------------------------------------------------------------
(***************************************************************************)
(* Writing and timing the instructions takes the line further.             *)
(***************************************************************************)

LEMMA WrittenFree ==
  ASSUME FreeInv, replayed = 0, call = Ledger!Idle,
         UNCHANGED <<base, replayed, call, saved, atomEnd, oneQEnd, rydEnd, instructions>>,
         \A line : Line(line, base, chunk, Len(chunk), LastUsed) =>
           \E l : Line(l, base, chunk', Len(chunk'), LastUsed') /\ StartsLike(l, line)
  PROVE  FreeInv'
<1>1. ~Ledger!Booking /\ ~Ledger!Booking'
  BY CallStates DEF Ledger!Booking
<1>2. InUse = {} /\ InUse' = {}
  BY <1>1 DEF InUse
<1>3. Busy' = Busy
  <2>1. Busy' = BusyUntil(atomEnd', oneQEnd', rydEnd')
    BY DEF Busy, BusyUntil
  <2> QED BY <2>1 DEF Busy
<1>4. PICK line : /\ Line(line, base, chunk, Len(chunk), LastUsed)
                  /\ Fronted(line[replayed], Busy, instructions, InUse)
  BY DEF FreeInv, LineInv
<1>5. PICK l : Line(l, base, chunk', Len(chunk'), LastUsed') /\ StartsLike(l, line)
  BY <1>4
<1>6. Line(l, base', chunk', Len(chunk'), LastUsed') /\ Fronted(l[replayed'], Busy', instructions', InUse')
  BY <1>2, <1>3, <1>4, <1>5 DEF StartsLike
<1>7. LineInv'
  BY <1>6 DEF LineInv, Line, Link, Fronted
<1>8. BookInv'
  BY <1>1 DEF FreeInv, BookInv
<1>9. SavedLineInv'
  BY DEF FreeInv, SavedLineInv
<1> QED BY <1>7, <1>8, <1>9 DEF FreeInv

LEMMA EmitJobFree ==
  ASSUME IInv, FreeInv, NEW atoms \in SUBSET pending, EmitJob(atoms)
  PROVE  FreeInv'
<1>1. TypeInv /\ StageInv /\ ChunkInv
  BY DEF IInv
<1>2. PICK i : JobWritten(atoms, i)
  BY JobFacts
<1>3. PICK id : id = NextInst
  OBVIOUS
<1>4. /\ id \in Nat /\ base \in Nat /\ Len(chunk) \in Nat /\ id = base + Len(chunk)
  BY <1>1, <1>3, Numbers DEF NextInst
<1>5. /\ UNCHANGED <<base, replayed, call, saved, atomEnd, oneQEnd, rydEnd, instructions>>
      /\ UNCHANGED <<rydDep, lastOneQ>> /\ replayed = 0 /\ call = Ledger!Idle
  BY <1>1 DEF EmitJob, crashVars, ledgerVars, StageInv
<1>6. atoms \subseteq Atoms
  BY <1>1 DEF TypeInv
<1>7. PICK c : c = chunk'
  OBVIOUS
<1>8. /\ Len(c) = Len(chunk) + 1 /\ c[Len(chunk) + 1] = i
      /\ \A k \in 1 .. Len(chunk) : c[k] = chunk[k]
      /\ i.kind = "aod" /\ ToSet(i.atoms) = atoms /\ i.deps = {qubitDep[q] : q \in atoms}
      /\ \A q \in Atoms : qubitDep'[q] = IF q \in atoms THEN id ELSE qubitDep[q]
  BY <1>2, <1>3, <1>7 DEF JobWritten
<1>9. PICK p : p = LastUse(qubitDep', rydDep', lastOneQ')
  OBVIOUS
<1>10. /\ \A q \in Atoms : LastUsed[q] = qubitDep[q] /\ p[q] = qubitDep'[q]
       /\ LastUsed[OneQBeam] = lastOneQ /\ p[OneQBeam] = lastOneQ
       /\ LastUsed[RydZone] = rydDep /\ p[RydZone] = rydDep
  BY <1>5, <1>9, LastUses DEF LastUsed
<1>11. Link(LastUsed, p, id, i)
  <2>1. Uses(i) = atoms
    BY <1>8 DEF Uses
  <2>2. ASSUME NEW x \in Things
        PROVE  /\ x \in atoms => p[x] = id
               /\ p[x] = LastUsed[x] \/ (p[x] = id /\ LastUsed[x] \in i.deps)
    <3>1. CASE x \in Atoms
      BY <3>1, <1>8, <1>10
    <3>2. CASE x \notin Atoms
      BY <3>2, <1>6, <1>10, ThingsApart
    <3> QED BY <3>1, <3>2
  <2> QED BY <2>1, <2>2 DEF Link
<1>12. LastUsed' = p
  BY <1>9 DEF LastUsed, LastUse
<1>13. \A line : Line(line, base, chunk, Len(chunk), LastUsed) =>
         \E l : Line(l, base, c, Len(c), p) /\ StartsLike(l, line)
  <2> TAKE line
  <2> HAVE Line(line, base, chunk, Len(chunk), LastUsed)
  <2>1. PICK n : n = Len(chunk)
    OBVIOUS
  <2>2. PICK q : q = LastUsed
    OBVIOUS
  <2>3. Line(line, base, c, n, q)
    <3>1. \A k \in 1 .. n : Uses(c[k]) = Uses(chunk[k]) /\ chunk[k].deps \subseteq c[k].deps
      BY <1>8, <2>1
    <3> QED BY <3>1, <2>1, <2>2, <1>4, LineKept
  <2>4. PICK b : b = base
    OBVIOUS
  <2>7. PICK m : m = n + 1
    OBVIOUS
  <2>5. Link(q, p, id, c[m])
    BY <1>8, <1>11, <2>1, <2>2, <2>7
  <2>6. n \in Nat /\ b \in Nat /\ Adds(id, b, n) /\ Adds(m, n, 1) /\ Line(line, b, c, n, q)
    BY <1>4, <2>1, <2>3, <2>4, <2>7 DEF Adds
  <2>8. \E l : Line(l, b, c, m, p) /\ StartsLike(l, line)
    BY <2>5, <2>6, LineGrows
  <2> QED BY <2>1, <2>4, <2>7, <2>8, <1>8
<1> QED BY <1>5, <1>7, <1>12, <1>13, WrittenFree

LEMMA EmitGatesFree == IInv /\ KeptInv /\ FreeInv /\ EmitGates => FreeInv'
<1> SUFFICES ASSUME IInv, KeptInv, FreeInv, EmitGates PROVE FreeInv'
  OBVIOUS
<1>1. TypeInv /\ StageInv /\ ChunkInv /\ ShapeInv
  BY DEF IInv, KeptInv
<1>2. PICK cz : cz = NextInst
  OBVIOUS
<1>3. PICK a, e : GatesWritten(cz, a, e)
  BY <1>1, <1>2, GatesFacts
<1>4. /\ cz \in Nat /\ base \in Nat /\ Len(chunk) \in Nat /\ cz = base + Len(chunk)
  BY <1>1, <1>2, Numbers DEF NextInst
<1>5. /\ UNCHANGED <<base, replayed, call, saved, atomEnd, oneQEnd, rydEnd, instructions>>
      /\ replayed = 0 /\ call = Ledger!Idle
  BY <1>1 DEF EmitGates, crashVars, ledgerVars, StageInv
<1>6. PICK c : c = chunk'
  OBVIOUS
<1>7. /\ \A k \in 1 .. Len(chunk) : c[k] = chunk[k]
      /\ Len(c) = (IF block # <<>> THEN Len(chunk) + 2 ELSE Len(chunk) + 1)
      /\ c[Len(chunk) + 1] = a /\ (block # <<>> => c[Len(chunk) + 2] = e)
  BY <1>3, <1>6 DEF GatesWritten
<1>8. /\ a.kind = "cz" /\ ToSet(a.atoms) \subseteq InZone /\ rydDep \in a.deps
      /\ \A q \in InZone : q \in Atoms /\ qubitDep[q] \in a.deps
      /\ rydDep' = cz
      /\ \A q \in Atoms \ InZone : qubitDep'[q] = qubitDep[q]
  BY <1>3 DEF GatesWritten
<1>9. block # <<>> =>
        /\ e.kind = "one_qubit" /\ e.atoms = block /\ cz \in e.deps
        /\ lastOneQ # None => lastOneQ \in e.deps
        /\ ToSet(block) \subseteq InZone
        /\ lastOneQ' = cz + 1
        /\ \A q \in InZone : qubitDep'[q] = cz \/ qubitDep'[q] = cz + 1
        /\ \A q \in ToSet(block) : qubitDep'[q] = cz + 1
  BY <1>3 DEF GatesWritten
<1>10. block = <<>> => lastOneQ' = lastOneQ /\ \A q \in InZone : qubitDep'[q] = cz
  BY <1>3 DEF GatesWritten
<1>11. PICK mid : mid = LastUse([q \in Atoms |-> IF q \in InZone THEN cz ELSE qubitDep[q]], cz, lastOneQ)
  OBVIOUS
<1>12. PICK p : p = LastUse(qubitDep', rydDep', lastOneQ')
  OBVIOUS
<1>13. /\ \A q \in Atoms : LastUsed[q] = qubitDep[q] /\ p[q] = qubitDep'[q]
                           /\ mid[q] = IF q \in InZone THEN cz ELSE qubitDep[q]
       /\ LastUsed[OneQBeam] = lastOneQ /\ p[OneQBeam] = lastOneQ' /\ mid[OneQBeam] = lastOneQ
       /\ LastUsed[RydZone] = rydDep /\ p[RydZone] = cz /\ mid[RydZone] = cz
  BY <1>8, <1>11, <1>12, LastUses DEF LastUsed
<1>14. \A x : x \in Uses(a) <=> x \in ToSet(a.atoms) \/ x = RydZone
  BY <1>8 DEF Uses
<1>15. Link(LastUsed, mid, cz, a)
  <2>1. ASSUME NEW x \in Things
        PROVE  /\ x \in Uses(a) => mid[x] = cz
               /\ mid[x] = LastUsed[x] \/ (mid[x] = cz /\ LastUsed[x] \in a.deps)
    <3>1. CASE x \in Atoms
      BY <3>1, <1>8, <1>13, <1>14, ThingsApart
    <3>2. CASE x = OneQBeam
      BY <3>2, <1>8, <1>13, <1>14, ThingsApart
    <3>3. CASE x = RydZone
      BY <3>3, <1>8, <1>13
    <3> QED BY <3>1, <3>2, <3>3, ThingsApart
  <2> QED BY <2>1 DEF Link
<1>16. block = <<>> => Link(LastUsed, p, cz, a)
  <2> SUFFICES ASSUME block = <<>> PROVE Link(LastUsed, p, cz, a)
    OBVIOUS
  <2>1. ASSUME NEW x \in Things
        PROVE  /\ x \in Uses(a) => p[x] = cz
               /\ p[x] = LastUsed[x] \/ (p[x] = cz /\ LastUsed[x] \in a.deps)
    <3>1. CASE x \in Atoms
      BY <3>1, <1>8, <1>10, <1>13, <1>14, ThingsApart
    <3>2. CASE x = OneQBeam
      BY <3>2, <1>8, <1>10, <1>13, <1>14, ThingsApart
    <3>3. CASE x = RydZone
      BY <3>3, <1>8, <1>13
    <3> QED BY <3>1, <3>2, <3>3, ThingsApart
  <2> QED BY <2>1 DEF Link
<1>17. PICK one : one = cz + 1
  OBVIOUS
<1>18. block # <<>> => Link(mid, p, one, e)
  <2> SUFFICES ASSUME block # <<>> PROVE Link(mid, p, one, e)
    OBVIOUS
  <2>1. \A x : x \in Uses(e) <=> x \in ToSet(block) \/ x = OneQBeam
    BY <1>9 DEF Uses
  <2>2. ASSUME NEW x \in Things
        PROVE  /\ x \in Uses(e) => p[x] = one
               /\ p[x] = mid[x] \/ (p[x] = one /\ (mid[x] = None \/ mid[x] \in e.deps))
    <3>1. CASE x \in Atoms
      BY <3>1, <2>1, <1>8, <1>9, <1>13, <1>17, ThingsApart
    <3>2. CASE x = OneQBeam
      BY <3>2, <1>9, <1>13, <1>17
    <3>3. CASE x = RydZone
      BY <3>3, <2>1, <1>8, <1>9, <1>13, ThingsApart
    <3> QED BY <3>1, <3>2, <3>3, ThingsApart
  <2> QED BY <2>2 DEF Link
<1>19. LastUsed' = p
  BY <1>12 DEF LastUsed, LastUse
<1>20. \A line : Line(line, base, chunk, Len(chunk), LastUsed) =>
         \E l : Line(l, base, c, Len(c), p) /\ StartsLike(l, line)
  <2> TAKE line
  <2> HAVE Line(line, base, chunk, Len(chunk), LastUsed)
  <2>1. PICK n : n = Len(chunk)
    OBVIOUS
  <2>2. PICK q : q = LastUsed
    OBVIOUS
  <2>3. Line(line, base, c, n, q)
    <3>1. \A k \in 1 .. n : Uses(c[k]) = Uses(chunk[k]) /\ chunk[k].deps \subseteq c[k].deps
      BY <1>7, <2>1
    <3> QED BY <3>1, <2>1, <2>2, <1>4, LineKept
  <2>4. PICK b : b = base
    OBVIOUS
  <2>5. PICK m : m = n + 1
    OBVIOUS
  <2>6. n \in Nat /\ b \in Nat /\ Adds(cz, b, n) /\ Adds(m, n, 1) /\ Line(line, b, c, n, q)
    BY <1>4, <2>1, <2>3, <2>4, <2>5 DEF Adds
  <2>7. CASE block = <<>>
    <3>1. Link(q, p, cz, c[m])
      BY <2>1, <2>2, <2>5, <2>7, <1>7, <1>16
    <3>2. \E l : Line(l, b, c, m, p) /\ StartsLike(l, line)
      BY <3>1, <2>6, LineGrows
    <3> QED BY <3>2, <2>1, <2>4, <2>5, <2>7, <1>7
  <2>8. CASE block # <<>>
    <3>1. Link(q, mid, cz, c[m])
      BY <2>1, <2>2, <2>5, <1>7, <1>15
    <3>2. PICK l : Line(l, b, c, m, mid) /\ StartsLike(l, line)
      BY <3>1, <2>6, LineGrows
    <3>3. PICK o : o = m + 1
      OBVIOUS
    <3>4. m \in Nat /\ Adds(one, b, m) /\ Adds(o, m, 1) /\ o = n + 2
      BY <3>3, <2>1, <2>4, <2>5, <2>6, <1>4, <1>17 DEF Adds
    <3>5. Link(mid, p, one, c[o])
      BY <3>4, <2>1, <2>8, <1>7, <1>18
    <3>6. \E k : Line(k, b, c, o, p) /\ StartsLike(k, l)
      BY <3>2, <3>4, <3>5, <2>6, LineGrows
    <3> QED BY <3>2, <3>4, <3>6, <2>1, <2>4, <2>8, <1>7 DEF StartsLike
  <2> QED BY <2>7, <2>8
<1> QED BY <1>5, <1>6, <1>19, <1>20, WrittenFree

LEMMA AssignTimesFree == IInv /\ KeptInv /\ FreeInv /\ AssignTimes => FreeInv'
<1> SUFFICES ASSUME IInv, KeptInv, FreeInv, AssignTimes PROVE FreeInv'
  OBVIOUS
<1>1. Assigning /\ Known(Untimed)
  BY UntimedKnown DEF AssignTimes
<1>2. /\ UNCHANGED <<base, replayed, call, saved, used>> /\ replayed = 0 /\ call = Ledger!Idle
  BY <1>1 DEF AssignTimes, layerVars, crashVars, ledgerVars, used, IInv, StageInv, Assigning
<1>3. CASE TimeJob(Untimed)
  <2>1. PICK r \in Aods, begin \in Nat : JobTimed(r, begin)
    BY <1>1, <1>3, TimeJobFacts
  <2>2. PICK c : c = chunk'
    OBVIOUS
  <2>3. Len(c) = Len(chunk)
    BY <2>1, <2>2 DEF JobTimed
  <2>4. Len(chunk) \in Nat
    BY Numbers DEF IInv
  <2>5. \A k \in 1 .. Len(chunk) : Uses(c[k]) = Uses(chunk[k]) /\ chunk[k].deps \subseteq c[k].deps
    <3> TAKE k \in 1 .. Len(chunk)
    <3>1. CASE k = timed + 1
      BY <3>1, <2>1, <2>2 DEF JobTimed, Untimed, Uses
    <3>2. CASE k # timed + 1
      BY <3>2, <2>1, <2>2 DEF JobTimed
    <3> QED BY <3>1, <3>2
  <2>6. LastUsed' = LastUsed
    BY <1>2, SameUses
  <2>7. \A line : Line(line, base, chunk, Len(chunk), LastUsed) =>
          \E l : Line(l, base, c, Len(c), LastUsed) /\ StartsLike(l, line)
    BY <2>3, <2>4, <2>5, LineKept DEF StartsLike
  <2> QED BY <1>2, <2>2, <2>6, <2>7, WrittenFree DEF used
<1>4. CASE TimeGate(Untimed)
  <2>1. chunk' = chunk
    BY <1>4 DEF TimeGate
  <2> QED BY <1>2, <2>1, FreeSame
<1> QED BY <1>1, <1>3, <1>4 DEF AssignTimes

-----------------------------------------------------------------------------
(***************************************************************************)
(* The ledger goes along the line.                                         *)
(***************************************************************************)

\* The instruction the ledger is at and the last uses it takes over.
LEMMA AtLine ==
  ASSUME IInv, Replaying, NEW line, Line(line, base, chunk, Len(chunk), LastUsed)
  PROVE  /\ Link(line[replayed], line[replayed + 1], nextId, Replayed)
<1>1. /\ replayed \in Nat /\ Len(chunk) \in Nat /\ nextId = base + replayed /\ base \in Nat
  BY ReplayedFacts
<1>2. PICK k \in 1 .. Len(chunk) : k = replayed + 1
  BY <1>1 DEF Replaying
<1>3. k - 1 = replayed /\ base + k - 1 = nextId /\ chunk[k] = Replayed
  BY <1>1, <1>2 DEF Replayed
<1> QED BY <1>2, <1>3 DEF Line

\* Whoever used a thing before is waited for.
LEMMA UsedBefore ==
  ASSUME IInv, KeptInv, FreeInv, Replaying, call = Ledger!Idle, NEW x \in Things, x \in Uses(Replayed)
  PROVE  Busy[x] = 0 \/ \E d \in Replayed.deps : d \in DOMAIN instructions /\ Busy[x] <= instructions[d].end
<1>1. InUse = {}
  BY CallStates DEF InUse, Ledger!Booking
<1>2. PICK line : /\ Line(line, base, chunk, Len(chunk), LastUsed)
                  /\ Fronted(line[replayed], Busy, instructions, InUse)
  BY DEF FreeInv, LineInv
<1>3. PICK p : p = line[replayed]
  OBVIOUS
<1>4. PICK q : q = line[replayed + 1]
  OBVIOUS
<1>5. Link(p, q, nextId, Replayed)
  BY <1>2, <1>3, <1>4, AtLine
<1>6. Busy[x] = 0 \/ (p[x] \in DOMAIN instructions /\ Busy[x] <= instructions[p[x]].end)
  BY <1>1, <1>2, <1>3 DEF Fronted
<1>7. p[x] \in DOMAIN instructions => p[x] # nextId /\ p[x] # None
  <2>1. nextId \in Nat
    BY ReplayedFacts
  <2>2. DOMAIN instructions \subseteq Before(nextId)
    BY DEF KeptInv, IdInv
  <2> QED BY <2>1, <2>2 DEF Before, None
<1>8. q[x] = nextId /\ (q[x] = p[x] \/ p[x] = None \/ p[x] \in Replayed.deps)
  BY <1>5 DEF Link
<1> QED BY <1>6, <1>7, <1>8

LEMMA ReplayBeginFree == IInv /\ KeptInv /\ FreeInv /\ ReplayBegin => FreeInv'
<1> SUFFICES ASSUME IInv, KeptInv, FreeInv, ReplayBegin PROVE FreeInv'
  OBVIOUS
<1>1. /\ KnownToLedger /\ ShapeOf(Replayed, nextId) /\ Replaying /\ call = Ledger!Idle
      /\ Schedule(Replayed) /\ UNCHANGED <<stage, replayed, routerVars>>
  BY ReplayedKnown DEF ReplayBegin
<1>2. PICK t, b : Begun(t, b)
  BY <1>1, ScheduleFacts
<1>3. InTurn(b)
  BY <1>1, <1>2 DEF Begun, ShapeOf
<1>4. /\ UNCHANGED <<base, chunk, replayed, saved, used>>
      /\ call' = [state |-> "booking", timing |-> t, booking |-> b, done |-> 0]
  BY <1>2 DEF Begun, Entered, routerVars, depVars, crashVars, used
<1>5. LastUsed' = LastUsed /\ Busy' = Busy
  BY <1>4, SameUses
<1>6. Replayed' = Replayed /\ Ledger!Booking' /\ Uses(Replayed)' = Uses(Replayed)
  BY <1>4 DEF Replayed, Ledger!Booking, Uses
<1>7. LineInv'
  <2>1. PICK line : /\ Line(line, base, chunk, Len(chunk), LastUsed)
                    /\ Fronted(line[replayed], Busy, instructions, InUse)
    BY DEF FreeInv, LineInv
  <2>2. InUse = {}
    BY <1>1, CallStates DEF InUse, Ledger!Booking
  <2>3. /\ Line(line, base', chunk', Len(chunk'), LastUsed')
        /\ Fronted(line[replayed'], Busy', instructions', InUse')
    BY <1>4, <1>5, <2>1, <2>2 DEF Fronted, used
  <2> QED BY <2>3 DEF LineInv, Line, Link, Fronted
<1>8. TypeInv /\ atomEnd \in [Atoms -> Nat]
  BY DEF IInv, FreeInv, BookInv
<1>9. ASSUME NEW x \in Things, x \in Uses(Replayed) PROVE Busy[x] <= t.begin
  <2>1. t.begin \in Nat
    BY <1>2 DEF Begun, Interval
  <2>2. CASE Busy[x] = 0
    BY <2>1, <2>2
  <2>3. CASE \E d \in Replayed.deps : d \in DOMAIN instructions /\ Busy[x] <= instructions[d].end
    <3>1. PICK d \in Replayed.deps : d \in DOMAIN instructions /\ Busy[x] <= instructions[d].end
      BY <2>3
    <3>2. instructions[d].end <= t.begin
      BY <1>2 DEF Begun
    <3>3. instructions[d].end \in Nat /\ Busy[x] \in Nat
      BY <1>8, <3>1, BusyType DEF TypeInv, LedgerType, Interval
    <3> QED BY <2>1, <3>1, <3>2, <3>3
  <2> QED BY <1>1, <1>9, <2>2, <2>3, UsedBefore
<1>10. \A x \in Things \cap Uses(Replayed) : Busy[x] <= t.end
  <2>1. t.begin \in Nat /\ t.end \in Nat /\ t.begin <= t.end /\ \A x \in Things : Busy[x] \in Nat
    BY <1>2, <1>8, BusyType DEF Begun, Interval
  <2> QED BY <2>1, <1>9
<1>11. \A k \in 1 .. Len(b) : \A a \in Ledger!ActiveAtoms(b[k]) :
         a \in ToSet(Replayed.atoms) /\ atomEnd[a] <= b[k].start
  <2> TAKE k \in 1 .. Len(b)
  <2> TAKE a \in Ledger!ActiveAtoms(b[k])
  <2>1. a \in ToSet(Replayed.atoms) /\ a \in Atoms
    BY <1>1, <1>3 DEF InTurn, ShapeOf
  <2>2. Busy[a] = atomEnd[a]
    BY <2>1, BusyTimes DEF Busy
  <2>3. atomEnd[a] <= t.begin
    BY <1>9, <2>1, <2>2 DEF Things, Uses
  <2>4. t.begin <= b[k].start /\ b[k].start \in Nat /\ t.begin \in Nat
    BY <1>2 DEF Begun, Booked, Interval
  <2> QED BY <1>8, <2>1, <2>3, <2>4
<1>12. \A j, k \in 1 .. Len(b) : j < k => b[j].stop <= b[k].start
  BY <1>3 DEF InTurn
<1>13. PICK c : c = call'
  OBVIOUS
<1>14. /\ c.timing = t /\ c.booking = b /\ c.done + 1 = 1 /\ t.kind = Replayed.kind
       /\ atomEnd' = atomEnd
  BY <1>2, <1>4, <1>13 DEF Begun, used
<1>15. BookInv'
  <2>1. \A e : Ledger!ActiveAtoms(e)' = Ledger!ActiveAtoms(e)
    BY DEF Ledger!ActiveAtoms, Ledger!AtomsOf
  <2>2. BookInv' <=>
          /\ atomEnd' \in [Atoms -> Nat]
          /\ Ledger!Booking' =>
               /\ c.timing.kind = Replayed'.kind
               /\ \A x \in Things \cap Uses(Replayed)' : Busy'[x] <= c.timing.end
               /\ \A j, k \in 1 .. Len(c.booking) : j < k => c.booking[j].stop <= c.booking[k].start
               /\ \A k \in c.done + 1 .. Len(c.booking) : \A a \in Ledger!ActiveAtoms(c.booking[k]) :
                    a \in ToSet(Replayed'.atoms) /\ atomEnd'[a] <= c.booking[k].start
    BY <1>13 DEF BookInv, Ledger!ActiveAtoms, Ledger!AtomsOf, ToSet
  <2> QED BY <2>2, <1>5, <1>6, <1>8, <1>10, <1>11, <1>12, <1>14
<1>16. SavedLineInv'
  BY <1>4 DEF FreeInv, SavedLineInv
<1> QED BY <1>7, <1>15, <1>16 DEF FreeInv

\* What is booked next, and the atoms that are free for it.
LEMMA NextBooking ==
  ASSUME IInv, FreeInv, Ledger!Pending
  PROVE  /\ call.done \in Nat /\ call.done + 1 \in 1 .. Len(call.booking)
         /\ Ledger!NextEvent = call.booking[call.done + 1]
         /\ Ledger!NextEvent.start \in Nat /\ Ledger!NextEvent.stop \in Nat
         /\ Ledger!NextEvent.stop <= call.timing.end
         /\ \A a \in Ledger!ActiveAtoms(Ledger!NextEvent) :
              a \in ToSet(Replayed.atoms) /\ atomEnd[a] <= Ledger!NextEvent.start
<1>1. CallInv /\ call.state = "booking" /\ call.done < Len(call.booking)
  BY DEF IInv, Ledger!Pending, Ledger!Booking
<1>2. call.done \in 0 .. Len(call.booking) /\ Len(call.booking) \in Nat
  BY <1>1, LenProperties DEF CallInv, IsSeq
<1>3. PICK k \in 1 .. Len(call.booking) : k = call.done + 1
  BY <1>1, <1>2
<1>4. PICK e : e = Ledger!NextEvent
  OBVIOUS
<1>5. e = call.booking[k]
  BY <1>3, <1>4 DEF Ledger!NextEvent
<1>6. e.start \in Nat /\ e.stop \in Nat /\ e.stop <= call.timing.end
  BY <1>1, <1>5 DEF CallInv
<1>7. k \in call.done + 1 .. Len(call.booking)
  BY <1>2, <1>3
<1>8. \A a \in Ledger!ActiveAtoms(e) : a \in ToSet(Replayed.atoms) /\ atomEnd[a] <= e.start
  BY <1>1, <1>5, <1>7 DEF FreeInv, BookInv, Ledger!Booking
<1> QED BY <1>2, <1>3, <1>4, <1>5, <1>6, <1>8

\* The ledger never refuses a booking.
LEMMA NoOverlap ==
  ASSUME IInv, KeptInv, FreeInv, Replaying, Ledger!RaiseOverlap
  PROVE  FALSE
<1>1. PICK e : e = Ledger!NextEvent
  OBVIOUS
<1>2. /\ Ledger!Pending /\ e.type \in Ledger!ActiveTypes
      /\ \E f \in DOMAIN e.atoms : e.start < atomEnd[e.atoms[f]]
  BY <1>1 DEF Ledger!RaiseOverlap
<1>3. PICK f \in DOMAIN e.atoms : e.start < atomEnd[e.atoms[f]]
  BY <1>2
<1>4. e.atoms[f] \in Ledger!ActiveAtoms(e)
  BY <1>2 DEF Ledger!ActiveAtoms, Ledger!AtomsOf
<1>5. /\ e.start \in Nat /\ e.atoms[f] \in ToSet(Replayed.atoms)
      /\ atomEnd[e.atoms[f]] <= e.start
  BY <1>1, <1>2, <1>4, NextBooking
<1>6. atomEnd[e.atoms[f]] \in Nat
  <2>1. ToSet(Replayed.atoms) \subseteq Atoms
    BY ReplayedKnown DEF ShapeOf
  <2> QED BY <1>5, <2>1 DEF FreeInv, BookInv
<1> QED BY <1>3, <1>5, <1>6

LEMMA RecordFree ==
  ASSUME IInv, KeptInv, FreeInv, Replaying, Ledger!RecordEvent,
         UNCHANGED <<stage, replayed, routerVars>>
  PROVE  FreeInv'
<1>1. PICK e : e = Ledger!NextEvent
  OBVIOUS
<1>2. /\ Ledger!Pending /\ Ledger!Booking
      /\ atomEnd' = [a \in Atoms |-> IF a \in Ledger!ActiveAtoms(e) THEN Ledger!Later(atomEnd[a], e.stop)
                                                                  ELSE atomEnd[a]]
      /\ call' = [call EXCEPT !.done = @ + 1]
      /\ UNCHANGED <<instructions, nextId, oneQEnd, rydEnd>>
      /\ UNCHANGED <<base, chunk, replayed, saved, qubitDep, rydDep, lastOneQ>>
  BY <1>1 DEF Ledger!RecordEvent, Ledger!Pending, Ledger!clocks, Ledger!Engage, routerVars,
              depVars, crashVars
<1>3. /\ call = [state |-> "booking", timing |-> call.timing, booking |-> call.booking,
                 done |-> call.done]
      /\ IsSeq(call.booking) /\ call.timing.end \in Nat
      /\ \A k \in 1 .. Len(call.booking) : call.booking[k].start \in Nat
  BY <1>2 DEF IInv, CallInv, Interval, Ledger!Booking
<1>4. PICK c : c = call'
  OBVIOUS
<1>5. c = [state |-> "booking", timing |-> call.timing, booking |-> call.booking,
           done |-> call.done + 1]
  BY <1>2, <1>3, <1>4
<1>6. /\ call.done \in Nat /\ call.done + 1 \in 1 .. Len(call.booking)
      /\ e = call.booking[call.done + 1] /\ e.start \in Nat /\ e.stop \in Nat
      /\ e.stop <= call.timing.end
      /\ \A a \in Ledger!ActiveAtoms(e) : a \in ToSet(Replayed.atoms)
  BY <1>1, <1>2, NextBooking
<1>7. ToSet(Replayed.atoms) \subseteq Atoms /\ atomEnd \in [Atoms -> Nat]
  BY ReplayedKnown DEF ShapeOf, FreeInv, BookInv
<1>8. \A a \in Atoms : /\ a \notin Ledger!ActiveAtoms(e) => atomEnd'[a] = atomEnd[a]
                       /\ a \in Ledger!ActiveAtoms(e) =>
                            atomEnd'[a] = IF atomEnd[a] >= e.stop THEN atomEnd[a] ELSE e.stop
  BY <1>2 DEF Ledger!Later
<1>9. atomEnd' \in [Atoms -> Nat]
  BY <1>2, <1>6, <1>7, <1>8
<1>10. LastUsed' = LastUsed
  BY <1>2 DEF LastUsed, LastUse
<1>11. Replayed' = Replayed /\ Uses(Replayed)' = Uses(Replayed) /\ Ledger!Booking'
  BY <1>2, <1>4, <1>5 DEF Replayed, Uses, Ledger!Booking
<1>12. InUse = Uses(Replayed) /\ InUse' = Uses(Replayed)
  BY <1>2, <1>11 DEF InUse
<1>13. /\ \A a \in Atoms : Busy[a] = atomEnd[a] /\ Busy'[a] = atomEnd'[a]
       /\ Busy[OneQBeam] = oneQEnd /\ Busy'[OneQBeam] = oneQEnd
       /\ Busy[RydZone] = rydEnd[Zone] /\ Busy'[RydZone] = rydEnd[Zone]
  <2>1. Busy' = BusyUntil(atomEnd', oneQEnd', rydEnd')
    BY DEF Busy, BusyUntil
  <2> QED BY <2>1, <1>2, BusyTimes DEF Busy
<1>14. \A x \in Things : x \notin Uses(Replayed) => Busy'[x] = Busy[x]
  <2> TAKE x \in Things
  <2>1. CASE x \in Atoms
    BY <2>1, <1>6, <1>8, <1>13 DEF Uses
  <2>2. CASE x \notin Atoms
    BY <2>2, <1>13, ThingsApart
  <2> QED BY <2>1, <2>2
<1>15. LineInv'
  <2>1. PICK line : /\ Line(line, base, chunk, Len(chunk), LastUsed)
                    /\ Fronted(line[replayed], Busy, instructions, InUse)
    BY DEF FreeInv, LineInv
  <2>2. /\ Line(line, base', chunk', Len(chunk'), LastUsed')
        /\ Fronted(line[replayed'], Busy', instructions', InUse')
    BY <1>2, <1>10, <1>12, <1>14, <2>1 DEF Fronted
  <2> QED BY <2>2 DEF LineInv, Line, Link, Fronted
<1>16. /\ call.timing.kind = Replayed.kind
       /\ \A x \in Things \cap Uses(Replayed) : Busy[x] <= call.timing.end
       /\ \A j, k \in 1 .. Len(call.booking) :
            j < k => call.booking[j].stop <= call.booking[k].start
       /\ \A k \in call.done + 1 .. Len(call.booking) :
            \A a \in Ledger!ActiveAtoms(call.booking[k]) :
              a \in ToSet(Replayed.atoms) /\ atomEnd[a] <= call.booking[k].start
  BY <1>2 DEF FreeInv, BookInv
<1>17. \A x \in Things \cap Uses(Replayed) : Busy'[x] <= call.timing.end
  <2> TAKE x \in Things \cap Uses(Replayed)
  <2>1. CASE x \in Atoms
    BY <2>1, <1>6, <1>8, <1>13, <1>16
  <2>2. CASE x \notin Atoms
    BY <2>2, <1>13, <1>16, ThingsApart
  <2> QED BY <2>1, <2>2
<1>18. \A k \in (call.done + 1) + 1 .. Len(call.booking) :
         \A a \in Ledger!ActiveAtoms(call.booking[k]) :
           a \in ToSet(Replayed.atoms) /\ atomEnd'[a] <= call.booking[k].start
  <2> TAKE k \in (call.done + 1) + 1 .. Len(call.booking)
  <2> TAKE a \in Ledger!ActiveAtoms(call.booking[k])
  <2>1. Len(call.booking) \in Nat
    BY <1>3, LenProperties DEF IsSeq
  <2>2. /\ k \in call.done + 1 .. Len(call.booking) /\ k \in 1 .. Len(call.booking)
        /\ call.done + 1 < k
    BY <2>1, <1>6
  <2>3. e.stop <= call.booking[k].start
    BY <2>2, <1>6, <1>16
  <2>4. a \in ToSet(Replayed.atoms) /\ atomEnd[a] <= call.booking[k].start
    BY <2>2, <1>16
  <2> QED BY <2>3, <2>4, <1>7, <1>8
<1>19. BookInv'
  <2>1. BookInv' <=>
          /\ atomEnd' \in [Atoms -> Nat]
          /\ Ledger!Booking' =>
               /\ c.timing.kind = Replayed'.kind
               /\ \A x \in Things \cap Uses(Replayed)' : Busy'[x] <= c.timing.end
               /\ \A j, k \in 1 .. Len(c.booking) : j < k => c.booking[j].stop <= c.booking[k].start
               /\ \A k \in c.done + 1 .. Len(c.booking) : \A a \in Ledger!ActiveAtoms(c.booking[k]) :
                    a \in ToSet(Replayed'.atoms) /\ atomEnd'[a] <= c.booking[k].start
    BY <1>4 DEF BookInv, Ledger!ActiveAtoms, Ledger!AtomsOf, ToSet
  <2>2. c.timing = call.timing /\ c.booking = call.booking /\ c.done = call.done + 1
    BY <1>5
  <2> QED BY <2>1, <2>2, <1>9, <1>11, <1>16, <1>17, <1>18
<1>20. SavedLineInv'
  BY <1>2 DEF FreeInv, SavedLineInv
<1> QED BY <1>15, <1>19, <1>20 DEF FreeInv

LEMMA ReplayEventFree == IInv /\ KeptInv /\ FreeInv /\ ReplayEvent => FreeInv'
BY RecordFree, NoOverlap DEF ReplayEvent

LEMMA ReplayCommitFree == IInv /\ KeptInv /\ FreeInv /\ ReplayCommit => FreeInv'
<1> SUFFICES ASSUME IInv, KeptInv, FreeInv, ReplayCommit PROVE FreeInv'
  OBVIOUS
<1>1. PICK t : t = call.timing
  OBVIOUS
<1>2. /\ Replaying /\ Ledger!Booking
      /\ instructions' = [id \in DOMAIN instructions \cup {nextId} |->
                            IF id = nextId THEN t ELSE instructions[id]]
      /\ call' = Ledger!Idle /\ replayed' = replayed + 1
      /\ oneQEnd' = IF t.kind = "one_qubit" THEN t.end ELSE oneQEnd
      /\ rydEnd'  = [z \in {Zone} |-> IF t.kind = "cz" /\ z = t.resource THEN t.end ELSE rydEnd[z]]
      /\ UNCHANGED <<base, chunk, saved, qubitDep, rydDep, lastOneQ, atomEnd>>
  BY <1>1 DEF ReplayCommit, Ledger!Commit, Ledger!AdvanceClock, routerVars, depVars, crashVars
<1>3. /\ t.kind = Replayed.kind /\ atomEnd \in [Atoms -> Nat]
      /\ \A x \in Things \cap Uses(Replayed) : Busy[x] <= t.end
  BY <1>1, <1>2 DEF FreeInv, BookInv
<1>4. /\ t.begin \in Nat /\ t.end \in Nat /\ t.begin <= t.end
      /\ \A d \in Replayed.deps : d \in DOMAIN instructions /\ instructions[d].end <= t.begin
  BY <1>1, <1>2 DEF IInv, CallInv, Interval, Ledger!Booking
<1>5. /\ nextId \in Nat /\ nextId \notin DOMAIN instructions /\ None \notin DOMAIN instructions
  <2>1. nextId \in Nat
    BY <1>2, ReplayedFacts
  <2>2. DOMAIN instructions \subseteq Before(nextId)
    BY DEF KeptInv, IdInv
  <2> QED BY <2>1, <2>2 DEF Before, None
<1>6. /\ nextId \in DOMAIN instructions' /\ instructions'[nextId] = t
      /\ \A d \in DOMAIN instructions : d \in DOMAIN instructions' /\ instructions'[d] = instructions[d]
  BY <1>2, <1>5
<1>7. /\ \A a \in Atoms : Busy[a] = atomEnd[a] /\ Busy'[a] = atomEnd[a]
      /\ Busy[OneQBeam] = oneQEnd /\ Busy'[OneQBeam] = oneQEnd'
      /\ Busy[RydZone] = rydEnd[Zone] /\ Busy'[RydZone] = rydEnd'[Zone]
  <2>1. Busy' = BusyUntil(atomEnd', oneQEnd', rydEnd')
    BY DEF Busy, BusyUntil
  <2> QED BY <2>1, <1>2, BusyTimes DEF Busy
<1>8. \A x \in Things : Busy[x] \in Nat
  BY <1>3, BusyType DEF IInv
<1>9. rydEnd'[Zone] = IF t.kind = "cz" /\ Zone = t.resource THEN t.end ELSE rydEnd[Zone]
  BY <1>2
<1>10. ASSUME NEW x \in Things
       PROVE  /\ x \in Uses(Replayed) => Busy'[x] <= t.end
              /\ x \notin Uses(Replayed) => Busy'[x] = Busy[x]
  <2>1. CASE x \in Atoms
    BY <2>1, <1>3, <1>7
  <2>2. CASE x = OneQBeam
    <3>1. x \in Uses(Replayed) <=> t.kind = "one_qubit"
      <4>1. ToSet(Replayed.atoms) \subseteq Atoms
        BY <1>2, ReplayedKnown DEF ShapeOf
      <4> QED BY <2>2, <4>1, <1>3, ThingsApart DEF Uses
    <3> QED BY <2>2, <3>1, <1>2, <1>4, <1>7
  <2>3. CASE x = RydZone
    <3>1. t.kind = "cz" => x \in Uses(Replayed)
      BY <2>3, <1>3 DEF Uses
    <3>2. Busy'[x] = t.end \/ Busy'[x] = Busy[x]
      BY <2>3, <1>7, <1>9
    <3> QED BY <2>3, <3>1, <3>2, <1>3, <1>4, <1>7, <1>9
  <2> QED BY <2>1, <2>2, <2>3, ThingsApart
<1>11. LastUsed' = LastUsed
  BY <1>2 DEF LastUsed, LastUse
<1>12. ~Ledger!Booking' /\ InUse' = {}
  BY <1>2, CallStates DEF Ledger!Booking, InUse
<1>13. InUse = Uses(Replayed)
  BY <1>2 DEF InUse
<1>14. PICK line : /\ Line(line, base, chunk, Len(chunk), LastUsed)
                   /\ Fronted(line[replayed], Busy, instructions, InUse)
  BY DEF FreeInv, LineInv
<1>15. PICK p : p = line[replayed]
  OBVIOUS
<1>16. PICK q : q = line[replayed + 1]
  OBVIOUS
<1>17. Link(p, q, nextId, Replayed)
  BY <1>2, <1>14, <1>15, <1>16, AtLine
<1>18. Fronted(q, Busy', instructions', {})
  <2> SUFFICES ASSUME NEW x \in Things
               PROVE  Busy'[x] = 0 \/ (q[x] \in DOMAIN instructions' /\ Busy'[x] <= instructions'[q[x]].end)
    BY DEF Fronted
  <2>1. CASE x \in Uses(Replayed)
    BY <2>1, <1>6, <1>10, <1>17 DEF Link
  <2>2. CASE x \notin Uses(Replayed)
    <3>1. Busy'[x] = Busy[x]
      BY <2>2, <1>10
    <3>2. Busy[x] = 0 \/ (p[x] \in DOMAIN instructions /\ Busy[x] <= instructions[p[x]].end)
      BY <2>2, <1>13, <1>14, <1>15 DEF Fronted
    <3>3. CASE q[x] = p[x]
      BY <3>1, <3>2, <3>3, <1>6
    <3>4. CASE q[x] = nextId /\ p[x] = None
      BY <3>1, <3>2, <3>4, <1>5
    <3>5. CASE q[x] = nextId /\ p[x] \in Replayed.deps
      <4>1. Busy[x] = 0 \/ Busy[x] <= t.end
        <5>1. instructions[p[x]].end <= t.begin /\ p[x] \in DOMAIN instructions
          BY <3>5, <1>4
        <5>2. instructions[p[x]].end \in Nat
          BY <5>1 DEF IInv, TypeInv, LedgerType, Interval
        <5> QED BY <5>1, <5>2, <3>2, <1>4, <1>8
      <4> QED BY <3>1, <3>5, <4>1, <1>6
    <3> QED BY <3>3, <3>4, <3>5, <1>17 DEF Link
  <2> QED BY <2>1, <2>2
<1>19. LineInv'
  <2>1. /\ Line(line, base', chunk', Len(chunk'), LastUsed')
        /\ Fronted(line[replayed'], Busy', instructions', InUse')
    BY <1>2, <1>11, <1>12, <1>14, <1>16, <1>18
  <2> QED BY <2>1 DEF LineInv, Line, Link, Fronted
<1>20. BookInv'
  BY <1>2, <1>3, <1>12 DEF BookInv
<1>21. SavedLineInv'
  BY <1>2 DEF FreeInv, SavedLineInv
<1> QED BY <1>19, <1>20, <1>21 DEF FreeInv

\* Between layers the line is only its end.
LEMMA LineEnds ==
  ASSUME FreeInv, ~Ledger!Booking, replayed = Len(chunk)
  PROVE  Fronted(LastUsed, Busy, instructions, {})
<1>1. PICK line : /\ Line(line, base, chunk, Len(chunk), LastUsed)
                  /\ Fronted(line[replayed], Busy, instructions, InUse)
  BY DEF FreeInv, LineInv
<1>2. line[replayed] = LastUsed
  BY <1>1 DEF Line
<1> QED BY <1>1, <1>2 DEF InUse

LEMMA LineOfNone ==
  ASSUME NEW p, NEW busy, NEW ins, NEW b, NEW c, Fronted(p, busy, ins, {})
  PROVE  \E line : Line(line, b, c, 0, p) /\ Fronted(line[0], busy, ins, {})
<1>1. PICK line : line = [k \in {0} |-> p]
  OBVIOUS
<1>2. line[0] = p /\ 1 .. 0 = {}
  BY <1>1
<1>3. Line(line, b, c, 0, p)
  BY <1>2 DEF Line
<1> QED BY <1>2, <1>3

LEMMA PublishFree == IInv /\ KeptInv /\ FreeInv /\ Publish => FreeInv'
<1> SUFFICES ASSUME IInv, KeptInv, FreeInv, Publish PROVE FreeInv'
  OBVIOUS
<1>1. ActiveIds \subseteq DOMAIN window \cap DOMAIN instructions
  BY PublishKnown DEF Publish
<1>2. /\ instructions' = [id \in ActiveIds |-> instructions[id]]
      /\ base' = NextInst /\ chunk' = <<>> /\ replayed' = 0 /\ replayed = Len(chunk)
      /\ UNCHANGED <<qubitDep, rydDep, lastOneQ, saved, atomEnd, oneQEnd, rydEnd, call>>
      /\ call = Ledger!Idle
  BY <1>1 DEF Publish, Ledger!Prune, Ledger!clocks, depVars, crashVars
<1>3. ~Ledger!Booking /\ ~Ledger!Booking' /\ InUse' = {}
  BY <1>2, CallStates DEF Ledger!Booking, InUse
<1>4. Fronted(LastUsed, Busy, instructions, {})
  BY <1>2, <1>3, LineEnds
<1>5. LastUsed' = LastUsed /\ Busy' = Busy
  <2>1. LastUsed' = LastUse(qubitDep', rydDep', lastOneQ') /\ Busy' = BusyUntil(atomEnd', oneQEnd', rydEnd')
    BY DEF LastUsed, Busy, LastUse, BusyUntil
  <2> QED BY <2>1, <1>2 DEF LastUsed, Busy
<1>6. \A x \in Things : LastUsed[x] \in DOMAIN instructions => LastUsed[x] \in ActiveIds
  <2>1. None \notin DOMAIN instructions
    BY DEF KeptInv, IdInv, Before, None
  <2>2. /\ \A q \in Atoms : LastUsed[q] = qubitDep[q]
        /\ LastUsed[OneQBeam] = lastOneQ /\ LastUsed[RydZone] = rydDep
    BY LastUses DEF LastUsed
  <2> QED BY <2>1, <2>2, ThingsApart DEF ActiveIds
<1>7. Fronted(LastUsed, Busy, instructions', {})
  BY <1>2, <1>4, <1>6 DEF Fronted
<1>8. LineInv'
  <2>1. PICK p : p = LastUsed
    OBVIOUS
  <2>2. PICK busy : busy = Busy
    OBVIOUS
  <2>3. PICK ins : ins = instructions'
    OBVIOUS
  <2>4. PICK line : Line(line, base', chunk', 0, p) /\ Fronted(line[0], busy, ins, {})
    BY <1>7, <2>1, <2>2, <2>3, LineOfNone
  <2>5. Len(chunk') = 0
    BY <1>2, EmptySeq
  <2>6. /\ Line(line, base', chunk', Len(chunk'), LastUsed')
        /\ Fronted(line[replayed'], Busy', instructions', InUse')
    BY <1>2, <1>3, <1>5, <2>1, <2>2, <2>3, <2>4, <2>5
  <2> QED BY <2>6 DEF LineInv, Line, Link, Fronted
<1>9. BookInv'
  BY <1>2, <1>3 DEF FreeInv, BookInv
<1>10. SavedLineInv'
  BY <1>2 DEF FreeInv, SavedLineInv
<1> QED BY <1>8, <1>9, <1>10 DEF FreeInv

LEMMA CheckpointFree == IInv /\ KeptInv /\ FreeInv /\ Checkpoint => FreeInv'
<1> SUFFICES ASSUME IInv, KeptInv, FreeInv, Checkpoint PROVE FreeInv'
  OBVIOUS
<1>1. /\ stage = "boundary" /\ saved' = State
      /\ UNCHANGED <<base, chunk, replayed, call, used>>
  BY DEF Checkpoint, depVars, ledgerVars, used
<1>2. chunk = <<>> /\ replayed = 0 /\ call = Ledger!Idle
  BY <1>1 DEF IInv, StageInv
<1>3. ~Ledger!Booking /\ Len(chunk) = 0
  BY <1>2, CallStates, EmptySeq DEF Ledger!Booking
<1>4. PICK s : s = State
  OBVIOUS
<1>5. /\ s.qubitDep = qubitDep /\ s.rydDep = rydDep /\ s.lastOneQ = lastOneQ
      /\ s.atomEnd = atomEnd /\ s.oneQEnd = oneQEnd /\ s.rydEnd = rydEnd
      /\ s.instructions = instructions
  BY <1>4 DEF State
<1>6. Fronted(LastUsed, Busy, instructions, {})
  BY <1>2, <1>3, LineEnds
<1>7. LastUsed' = LastUsed /\ Busy' = Busy
  BY <1>1, SameUses
<1>8. InUse' = InUse /\ Replayed' = Replayed /\ (Ledger!Booking' <=> Ledger!Booking)
  BY <1>1 DEF InUse, Replayed, Ledger!Booking, Uses
<1>9. LineInv'
  <2>1. PICK line : /\ Line(line, base, chunk, Len(chunk), LastUsed)
                    /\ Fronted(line[replayed], Busy, instructions, InUse)
    BY DEF FreeInv, LineInv
  <2>2. /\ Line(line, base', chunk', Len(chunk'), LastUsed')
        /\ Fronted(line[replayed'], Busy', instructions', InUse')
    BY <1>1, <1>7, <1>8, <2>1 DEF used
  <2> QED BY <2>2 DEF LineInv, Line, Link, Fronted
<1>10. BookInv'
  BY <1>1, <1>3, <1>8 DEF FreeInv, BookInv, used
<1>11. SavedLineInv'
  <2>1. saved' = s /\ atomEnd \in [Atoms -> Nat]
    BY <1>1, <1>4 DEF FreeInv, BookInv
  <2>2. Fronted(LastUse(s.qubitDep, s.rydDep, s.lastOneQ),
                BusyUntil(s.atomEnd, s.oneQEnd, s.rydEnd), s.instructions, {})
    BY <1>5, <1>6 DEF LastUsed, Busy
  <2> QED BY <2>1, <2>2, <1>5 DEF SavedLineInv
<1> QED BY <1>9, <1>10, <1>11 DEF FreeInv

LEMMA RestoreFree == IInv /\ KeptInv /\ FreeInv /\ Restore => FreeInv'
<1> SUFFICES ASSUME IInv, KeptInv, FreeInv, Restore PROVE FreeInv'
  OBVIOUS
<1>1. PICK s : s = saved
  OBVIOUS
<1>2. /\ base' = s.base /\ instructions' = s.instructions
      /\ qubitDep' = s.qubitDep /\ rydDep' = s.rydDep /\ lastOneQ' = s.lastOneQ
      /\ atomEnd' = s.atomEnd /\ oneQEnd' = s.oneQEnd /\ rydEnd' = s.rydEnd
      /\ chunk' = <<>> /\ replayed' = 0 /\ call' = Ledger!Idle
      /\ saved' = saved /\ saved # NoCheckpoint
  BY <1>1 DEF Restore
<1>3. /\ s.atomEnd \in [Atoms -> Nat]
      /\ Fronted(LastUse(s.qubitDep, s.rydDep, s.lastOneQ),
                 BusyUntil(s.atomEnd, s.oneQEnd, s.rydEnd), s.instructions, {})
  BY <1>1, <1>2 DEF FreeInv, SavedLineInv
<1>4. ~Ledger!Booking' /\ InUse' = {} /\ Len(chunk') = 0
  BY <1>2, CallStates, EmptySeq DEF Ledger!Booking, InUse
<1>5. PICK p : p = LastUse(s.qubitDep, s.rydDep, s.lastOneQ)
  OBVIOUS
<1>6. PICK busy : busy = BusyUntil(s.atomEnd, s.oneQEnd, s.rydEnd)
  OBVIOUS
<1>7. LastUsed' = p /\ Busy' = busy
  <2>1. LastUsed' = LastUse(qubitDep', rydDep', lastOneQ') /\ Busy' = BusyUntil(atomEnd', oneQEnd', rydEnd')
    BY DEF LastUsed, Busy, LastUse, BusyUntil
  <2> QED BY <2>1, <1>2, <1>5, <1>6
<1>8. LineInv'
  <2>1. PICK ins : ins = s.instructions
    OBVIOUS
  <2>2. PICK line : Line(line, base', chunk', 0, p) /\ Fronted(line[0], busy, ins, {})
    BY <1>3, <1>5, <1>6, <2>1, LineOfNone
  <2>3. /\ Line(line, base', chunk', Len(chunk'), LastUsed')
        /\ Fronted(line[replayed'], Busy', instructions', InUse')
    BY <1>2, <1>4, <1>7, <2>1, <2>2
  <2> QED BY <2>3 DEF LineInv, Line, Link, Fronted
<1>9. BookInv'
  BY <1>2, <1>3, <1>4 DEF BookInv
<1>10. SavedLineInv'
  BY <1>2 DEF FreeInv, SavedLineInv
<1> QED BY <1>8, <1>9, <1>10 DEF FreeInv

LEMMA NextFree == IInv /\ KeptInv /\ FreeInv /\ [Next]_vars => FreeInv'
<1> SUFFICES ASSUME IInv, KeptInv, FreeInv, [Next]_vars PROVE FreeInv'
  OBVIOUS
<1>1. CASE \E atoms \in SUBSET pending : EmitJob(atoms)
  BY <1>1, EmitJobFree
<1>2. CASE RouteLayer
  BY <1>2, RouteLayerFree
<1>3. CASE EmitGates
  BY <1>3, EmitGatesFree
<1>4. CASE AssignTimes
  BY <1>4, AssignTimesFree
<1>5. CASE ReplayBegin
  BY <1>5, ReplayBeginFree
<1>6. CASE ReplayEvent
  BY <1>6, ReplayEventFree
<1>7. CASE ReplayCommit
  BY <1>7, ReplayCommitFree
<1>8. CASE Publish
  BY <1>8, PublishFree
<1>9. CASE Checkpoint
  BY <1>9, CheckpointFree
<1>10. CASE Restore
  BY <1>10, RestoreFree
<1>11. CASE UNCHANGED vars
  BY <1>11, StutterFree
<1> QED BY <1>1, <1>2, <1>3, <1>4, <1>5, <1>6, <1>7, <1>8, <1>9, <1>10, <1>11 DEF Next, Advance

LEMMA FreeInvariant == Spec => []FreeInv
<1>1. Spec => []IInv
  BY Invariant
<1>2. Spec => []KeptInv
  BY KeptInvariant
<1>3. IInv /\ KeptInv /\ FreeInv /\ [Next]_vars => FreeInv'
  BY NextFree
<1> QED BY <1>1, <1>2, <1>3, InitFree, PTL DEF Spec

-----------------------------------------------------------------------------
(***************************************************************************)
(* The ledger arrives at the router's times.  What both know they have     *)
(* timed alike; the AODs are free at the times the ledger finds them free  *)
(* once it has caught up; and an instruction of the chunk begins at the    *)
(* latest of times that the ledger also reads, or that are no later than   *)
(* one it reads.                                                           *)
(***************************************************************************)

SameTiming(s, t) ==
  /\ s.begin = t.begin /\ s.end = t.end
  /\ s.kind = "aod" <=> t.kind = "aod"
  /\ s.kind = "aod" => s.pickup = t.pickup

AgreeOn(w, ins) == \A d \in DOMAIN w \cap DOMAIN ins : SameTiming(w[d], ins[d])

\* An AOD is not free before the job it carried last is over.
FreeAfter(w, ad, af) == \A r \in Aods : w[ad[r]].end <= af[r]

EndsIn(i, w) == {0} \cup {w[d].end : d \in i.deps}

SitesIn(i, n, w) ==
  {IF d = n THEN PickupOffset(i.job) - DropOffset(i.job)
   ELSE IF w[d].kind = "aod" THEN w[d].pickup - DropOffset(i.job)
   ELSE w[d].end : d \in i.sites}

FirstIn(r, free) == \A u \in Aods : free[r] < free[u] \/ (free[r] = free[u] /\ r <= u)

\* The times the router has given instruction i, with id n, when the AODs were
\* free at the given times.
RouterTimed(i, n, free, w) ==
  /\ w[n].kind = i.kind
  /\ i.kind = "init" => w[n].begin = 0 /\ w[n].end = 0
  /\ i.kind = "one_qubit" =>
       /\ IsLatest(w[n].begin, EndsIn(i, w))
       /\ w[n].end = w[n].begin + Len(i.atoms) * OneQTime + OneQCommon
  /\ i.kind = "cz" =>
       /\ IsLatest(w[n].begin, EndsIn(i, w))
       /\ w[n].end = w[n].begin + RydTime
  /\ i.kind = "aod" =>
       /\ i.aod \in Aods /\ FirstIn(i.aod, free)
       /\ IsLatest(w[n].begin, EndsIn(i, w) \cup SitesIn(i, n, w) \cup {free[i.aod]})
       /\ w[n].end = w[n].begin + Duration(i.job)
       /\ w[n].pickup = w[n].begin + PickupOffset(i.job)

FreeThen(free, i, e) == [u \in Aods |-> IF i.kind = "aod" /\ u = i.aod THEN e ELSE free[u]]

Follows(p, free, i, s) == p = FreeThen(free, i, s.end)

\* The AODs' times, instruction after instruction of the chunk.
FreeLine(free, b, ch, n, w, last) ==
  /\ free[n] = last
  /\ \A k \in 1 .. n : /\ RouterTimed(ch[k], b + k - 1, free[k - 1], w)
                       /\ free[k] = FreeThen(free[k - 1], ch[k], w[b + k - 1].end)

ClockInv ==
  \E free : FreeLine(free, base, chunk, timed, window, aodFree) /\ free[replayed] = aodEnd

CallAgrees ==
  Ledger!Booking => /\ SameTiming(window[nextId], call.timing)
                    /\ Replayed.kind = "aod" => call.timing.resource = Replayed.aod

SavedTimeInv ==
  saved # NoCheckpoint =>
    /\ AgreeOn(saved.window, saved.instructions)
    /\ FreeAfter(saved.window, saved.aodDep, saved.aodFree)
    /\ saved.aodFree = saved.aodEnd

TimeInv ==
  /\ AgreeOn(window, instructions) /\ FreeAfter(window, aodDep, aodFree)
  /\ ClockInv /\ CallAgrees /\ SavedTimeInv

-----------------------------------------------------------------------------
\* The latest of two sets of times that bound each other.
LEMMA SameLatest ==
  ASSUME NEW S \in SUBSET Int, NEW T \in SUBSET Int, NEW s, NEW t,
         s \in S, \A x \in S : x <= s, t \in T, \A y \in T : y <= t,
         \A x \in S : \E y \in T : x <= y, \A y \in T : \E x \in S : y <= x
  PROVE  s = t
<1>1. PICK y \in T : s <= y
  OBVIOUS
<1>2. PICK x \in S : t <= x
  OBVIOUS
<1>3. y <= t /\ x <= s /\ s \in Int /\ t \in Int /\ x \in Int /\ y \in Int
  OBVIOUS
<1> QED BY <1>1, <1>2, <1>3

\* What is timed does not mind times it does not wait for.
LEMMA RouterTimedKept ==
  ASSUME NEW i, NEW n, NEW free, NEW w, NEW v, RouterTimed(i, n, free, w),
         v[n] = w[n], \A d \in Awaits(i) : v[d] = w[d]
  PROVE  RouterTimed(i, n, free, v)
<1>1. EndsIn(i, v) = EndsIn(i, w)
  BY DEF EndsIn, Awaits
<1>2. SitesIn(i, n, v) = SitesIn(i, n, w)
  <2>1. \A d \in i.sites : v[d] = w[d]
    BY DEF Awaits
  <2> QED BY <2>1 DEF SitesIn
<1> QED BY <1>1, <1>2 DEF RouterTimed

\* The first n instructions of the chunk are not timed anew.
Unmoved(c, ch, b, n, v, w) ==
  \A k \in 1 .. n : /\ c[k] = ch[k] /\ v[b + k - 1] = w[b + k - 1]
                     /\ \A d \in Awaits(ch[k]) : v[d] = w[d]

\* The next instruction is timed.
LEMMA FreeLineGrows ==
  ASSUME NEW free, NEW b, NEW ch, NEW c, NEW n, NEW m, Adds(m, n, 1), NEW w, NEW v,
         NEW last, FreeLine(free, b, ch, n, w, last),
         Unmoved(c, ch, b, n, v, w),
         NEW id, Adds(id, b, n), RouterTimed(c[m], id, last, v),
         NEW p, Follows(p, last, c[m], v[id])
  PROVE  \E l : FreeLine(l, b, c, m, v, p) /\ StartsLike(l, free)
<1> USE DEF Adds, StartsLike, Follows
<1>1. PICK l : l = [k \in 0 .. n + 1 |-> IF k = n + 1 THEN p ELSE free[k]]
  OBVIOUS
<1>2. /\ n + 1 \in 0 .. n + 1 /\ 0 \in 0 .. n + 1 /\ n \in 0 .. n + 1 /\ n # n + 1 /\ 0 # n + 1
      /\ (n + 1) - 1 = n /\ m = n + 1
  OBVIOUS
<1>3. l[n + 1] = p /\ l[0] = free[0] /\ l[n] = free[n]
  BY <1>1, <1>2
<1>4. \A k \in 1 .. n + 1 : /\ RouterTimed(c[k], b + k - 1, l[k - 1], v)
                            /\ l[k] = FreeThen(l[k - 1], c[k], v[b + k - 1].end)
  <2> TAKE k \in 1 .. n + 1
  <2>1. CASE k = n + 1
    <3>1. k - 1 = n /\ free[n] = last
      BY <2>1 DEF FreeLine
    <3>2. b + k - 1 = id
      BY <2>1
    <3> QED BY <2>1, <3>1, <3>2, <1>2, <1>3
  <2>2. CASE k # n + 1
    <3>1. k \in 1 .. n /\ k - 1 \in 0 .. n + 1 /\ k \in 0 .. n + 1 /\ k - 1 # n + 1
      BY <2>2
    <3>2. l[k] = free[k] /\ l[k - 1] = free[k - 1]
      BY <1>1, <2>2, <3>1
    <3>3. /\ RouterTimed(ch[k], b + k - 1, free[k - 1], w)
          /\ free[k] = FreeThen(free[k - 1], ch[k], w[b + k - 1].end)
      BY <3>1 DEF FreeLine
    <3>4. c[k] = ch[k] /\ v[b + k - 1] = w[b + k - 1] /\ \A d \in Awaits(ch[k]) : v[d] = w[d]
      BY <3>1 DEF Unmoved
    <3>5. RouterTimed(ch[k], b + k - 1, free[k - 1], v)
      <4>1. PICK i : i = ch[k]
        OBVIOUS
      <4>2. PICK x : x = b + k - 1
        OBVIOUS
      <4>3. PICK f : f = free[k - 1]
        OBVIOUS
      <4>4. RouterTimed(i, x, f, w) /\ v[x] = w[x] /\ \A d \in Awaits(i) : v[d] = w[d]
        BY <3>3, <3>4, <4>1, <4>2, <4>3
      <4>5. RouterTimed(i, x, f, v)
        BY <4>4, RouterTimedKept
      <4> QED BY <4>1, <4>2, <4>3, <4>5
    <3> QED BY <3>2, <3>3, <3>4, <3>5
  <2> QED BY <2>1, <2>2
<1> QED BY <1>2, <1>3, <1>4 DEF FreeLine

LEMMA FreeLineOfNone ==
  ASSUME NEW b, NEW c, NEW w, NEW p
  PROVE  \E free : FreeLine(free, b, c, 0, w, p) /\ free[0] = p
<1>1. PICK free : free = [k \in {0} |-> p]
  OBVIOUS
<1>2. free[0] = p /\ 1 .. 0 = {}
  BY <1>1
<1>3. FreeLine(free, b, c, 0, w, p)
  BY <1>2 DEF FreeLine
<1> QED BY <1>2, <1>3

\* Steps that leave the times alone.
timings == <<window, aodDep, aodFree, aodEnd, instructions>>

LEMMA TimeSame ==
  ASSUME TimeInv, UNCHANGED <<timings, base, chunk, timed, replayed>>
  PROVE  /\ AgreeOn(window, instructions)' /\ FreeAfter(window, aodDep, aodFree)' /\ ClockInv'
<1>1. PICK free : FreeLine(free, base, chunk, timed, window, aodFree) /\ free[replayed] = aodEnd
  BY DEF TimeInv, ClockInv
<1>2. FreeLine(free, base', chunk', timed', window', aodFree') /\ free[replayed'] = aodEnd'
  BY <1>1 DEF timings
<1>3. ClockInv'
  BY <1>2 DEF ClockInv, FreeLine, RouterTimed, EndsIn, SitesIn, FirstIn, FreeThen, IsLatest
<1>4. AgreeOn(window, instructions)'
  BY DEF TimeInv, AgreeOn, timings, SameTiming
<1>5. FreeAfter(window, aodDep, aodFree)'
  BY DEF TimeInv, FreeAfter, timings
<1> QED BY <1>3, <1>4, <1>5

\* What is written has no times yet.
LEMMA TimeWritten ==
  ASSUME TimeInv, timed = 0, replayed = 0, call = Ledger!Idle,
         UNCHANGED <<timings, base, timed, replayed, call, saved>>
  PROVE  TimeInv'
<1>1. PICK free : FreeLine(free, base, chunk, timed, window, aodFree) /\ free[replayed] = aodEnd
  BY DEF TimeInv, ClockInv
<1>2. aodFree = aodEnd
  BY <1>1 DEF FreeLine
<1>3. ClockInv'
  <2>1. PICK f : FreeLine(f, base', chunk', 0, window', aodFree') /\ f[0] = aodFree'
    BY FreeLineOfNone
  <2>2. FreeLine(f, base', chunk', timed', window', aodFree') /\ f[replayed'] = aodEnd'
    BY <2>1, <1>2 DEF timings
  <2> QED BY <2>2 DEF ClockInv, FreeLine, RouterTimed, EndsIn, SitesIn, FirstIn, FreeThen, IsLatest
<1>4. AgreeOn(window, instructions)' /\ FreeAfter(window, aodDep, aodFree)'
  BY DEF TimeInv, FreeAfter, AgreeOn, timings, SameTiming
<1>5. CallAgrees'
  BY CallStates DEF CallAgrees, Ledger!Booking
<1>6. SavedTimeInv'
  BY DEF TimeInv, SavedTimeInv
<1> QED BY <1>3, <1>4, <1>5, <1>6 DEF TimeInv

\* The rest, when the times stay.
LEMMA TimeStays ==
  ASSUME TimeInv, UNCHANGED <<timings, base, chunk, timed, replayed, saved>>,
         Ledger!Booking' => Ledger!Booking /\ nextId' = nextId /\ call'.timing = call.timing
  PROVE  TimeInv'
<1>1. AgreeOn(window, instructions)' /\ FreeAfter(window, aodDep, aodFree)' /\ ClockInv'
  BY TimeSame
<1>2. SavedTimeInv'
  BY DEF TimeInv, SavedTimeInv
<1>3. CallAgrees'
  <2> SUFFICES ASSUME Ledger!Booking' PROVE CallAgrees'
    BY DEF CallAgrees
  <2>1. /\ SameTiming(window[nextId], call.timing)
        /\ Replayed.kind = "aod" => call.timing.resource = Replayed.aod
    BY DEF TimeInv, CallAgrees
  <2>2. Replayed' = Replayed /\ window' = window /\ nextId' = nextId /\ call'.timing = call.timing
    BY DEF Replayed, timings
  <2> QED BY <2>1, <2>2 DEF CallAgrees, SameTiming
<1> QED BY <1>1, <1>2, <1>3 DEF TimeInv

LEMMA RouteLayerTime == TimeInv /\ RouteLayer => TimeInv' /\ stage' = "out"
<1> SUFFICES ASSUME TimeInv, RouteLayer PROVE TimeInv' /\ stage' = "out"
  OBVIOUS
<1>1. stage' = "out" /\ UNCHANGED <<base, chunk, timed, replayed, window, depVars, crashVars, ledgerVars>>
  BY DEF RouteLayer, AcceptLayer
<1>2. UNCHANGED <<timings, base, chunk, timed, replayed, saved, nextId, call>>
  BY <1>1 DEF timings, depVars, crashVars, ledgerVars
<1> QED BY <1>1, <1>2, TimeStays DEF Ledger!Booking

LEMMA EmitJobTime ==
  ASSUME IInv, TimeInv, NEW atoms \in SUBSET pending, EmitJob(atoms)
  PROVE  TimeInv' /\ stage' = stage
<1>1. /\ stage \in {"out", "back"} /\ timed = 0 /\ stage' = stage
      /\ UNCHANGED <<base, timed, replayed, window, aodDep, aodFree, crashVars, ledgerVars>>
  BY DEF EmitJob
<1>2. replayed = 0 /\ call = Ledger!Idle
  BY <1>1 DEF IInv, StageInv
<1>3. UNCHANGED <<timings, base, timed, replayed, call, saved>>
  BY <1>1 DEF timings, crashVars, ledgerVars
<1> QED BY <1>1, <1>2, <1>3, TimeWritten

LEMMA EmitGatesTime == IInv /\ TimeInv /\ EmitGates => TimeInv' /\ stage' = "back"
<1> SUFFICES ASSUME IInv, TimeInv, EmitGates PROVE TimeInv' /\ stage' = "back"
  OBVIOUS
<1>1. /\ stage = "out" /\ stage' = "back"
      /\ UNCHANGED <<base, timed, replayed, window, aodDep, aodFree, crashVars, ledgerVars>>
  BY DEF EmitGates
<1>2. timed = 0 /\ replayed = 0 /\ call = Ledger!Idle
  BY <1>1 DEF IInv, StageInv
<1>3. UNCHANGED <<timings, base, timed, replayed, call, saved>>
  BY <1>1 DEF timings, crashVars, ledgerVars
<1> QED BY <1>1, <1>2, <1>3, TimeWritten

LEMMA StutterTime == TimeInv /\ UNCHANGED vars => TimeInv'
<1> SUFFICES ASSUME TimeInv, UNCHANGED vars PROVE TimeInv'
  OBVIOUS
<1>1. UNCHANGED <<timings, base, chunk, timed, replayed, saved, nextId, call>>
  BY DEF vars, timings, depVars, crashVars, ledgerVars
<1> QED BY <1>1, TimeStays DEF Ledger!Booking

LEMMA CheckpointTime == IInv /\ TimeInv /\ Checkpoint => TimeInv'
<1> SUFFICES ASSUME IInv, TimeInv, Checkpoint PROVE TimeInv'
  OBVIOUS
<1>1. /\ stage = "boundary" /\ saved' = State
      /\ UNCHANGED <<base, chunk, timed, replayed, window, depVars, ledgerVars>>
  BY DEF Checkpoint
<1>2. UNCHANGED <<timings, base, chunk, timed, replayed, nextId, call>>
  BY <1>1 DEF timings, depVars, ledgerVars
<1>3. AgreeOn(window, instructions)' /\ FreeAfter(window, aodDep, aodFree)' /\ ClockInv'
  BY <1>2, TimeSame
<1>4. call = Ledger!Idle /\ timed = 0 /\ replayed = 0
  <2>1. chunk = <<>> /\ timed \in 0 .. Len(chunk) /\ replayed = 0 /\ call = Ledger!Idle
    BY <1>1 DEF IInv, StageInv
  <2>2. Len(chunk) = 0
    BY <2>1, EmptySeq
  <2> QED BY <2>1, <2>2
<1>5. CallAgrees'
  BY <1>2, <1>4, CallStates DEF CallAgrees, Ledger!Booking
<1>6. aodFree = aodEnd
  <2>1. PICK free : FreeLine(free, base, chunk, timed, window, aodFree) /\ free[replayed] = aodEnd
    BY DEF TimeInv, ClockInv
  <2> QED BY <2>1, <1>4 DEF FreeLine
<1>7. SavedTimeInv'
  <2>1. PICK s : s = State
    OBVIOUS
  <2>2. /\ s.window = window /\ s.instructions = instructions /\ s.aodDep = aodDep
        /\ s.aodFree = aodFree /\ s.aodEnd = aodEnd
    BY <2>1 DEF State
  <2>3. AgreeOn(s.window, s.instructions) /\ FreeAfter(s.window, s.aodDep, s.aodFree) /\ s.aodFree = s.aodEnd
    BY <2>2, <1>6 DEF TimeInv
  <2>4. AgreeOn(saved'.window, saved'.instructions) /\ FreeAfter(saved'.window, saved'.aodDep, saved'.aodFree)
        /\ saved'.aodFree = saved'.aodEnd
    BY <2>1, <2>3, <1>1
  <2> QED BY <2>4 DEF SavedTimeInv, AgreeOn, FreeAfter, SameTiming
<1> QED BY <1>3, <1>5, <1>7 DEF TimeInv

LEMMA RestoreTime == TimeInv /\ Restore => TimeInv'
<1> SUFFICES ASSUME TimeInv, Restore PROVE TimeInv'
  OBVIOUS
<1>1. PICK s : s = saved
  OBVIOUS
<1>2. /\ window' = s.window /\ instructions' = s.instructions /\ aodDep' = s.aodDep
      /\ aodFree' = s.aodFree /\ aodEnd' = s.aodEnd
      /\ timed' = 0 /\ replayed' = 0 /\ call' = Ledger!Idle
      /\ saved' = saved /\ saved # NoCheckpoint
  BY <1>1 DEF Restore
<1>3. /\ AgreeOn(s.window, s.instructions) /\ FreeAfter(s.window, s.aodDep, s.aodFree)
      /\ s.aodFree = s.aodEnd
  BY <1>1, <1>2 DEF TimeInv, SavedTimeInv
<1>4. AgreeOn(window', instructions') /\ FreeAfter(window', aodDep', aodFree')
  BY <1>2, <1>3
<1>5. AgreeOn(window, instructions)' /\ FreeAfter(window, aodDep, aodFree)'
  BY <1>4 DEF AgreeOn, FreeAfter, SameTiming
<1>6. ClockInv'
  <2>1. PICK f : FreeLine(f, base', chunk', 0, window', aodFree') /\ f[0] = aodFree'
    BY FreeLineOfNone
  <2>2. FreeLine(f, base', chunk', timed', window', aodFree') /\ f[replayed'] = aodEnd'
    BY <2>1, <1>2, <1>3
  <2> QED BY <2>2 DEF ClockInv, FreeLine, RouterTimed, EndsIn, SitesIn, FirstIn, FreeThen, IsLatest
<1>7. CallAgrees'
  BY <1>2, CallStates DEF CallAgrees, Ledger!Booking
<1>8. SavedTimeInv'
  BY <1>2 DEF TimeInv, SavedTimeInv
<1> QED BY <1>5, <1>6, <1>7, <1>8 DEF TimeInv

-----------------------------------------------------------------------------
(***************************************************************************)
(* aod_assignment times the next instruction.                              *)
(***************************************************************************)

LEMMA WindowNow ==
  ASSUME NEW summary, SetTimes(summary)
  PROVE  /\ window'[UntimedId] = summary /\ timed' = timed + 1
         /\ DOMAIN window' = DOMAIN window \cup {UntimedId}
         /\ \A d \in DOMAIN window : d # UntimedId => window'[d] = window[d]
BY DEF SetTimes

\* The last job of an AOD has its times.
LEMMA AodKnown ==
  ASSUME IInv, KeptInv, NEW r \in Aods
  PROVE  /\ aodDep[r] \in DOMAIN window /\ aodDep[r] # UntimedId
         /\ aodDep[r] \in ActiveIds
<1>1. aodDep[r] \in Before(UntimedId) /\ base \in Nat /\ UntimedId = base + timed /\ timed \in Nat
  <2>1. timed \in 0 .. Len(chunk) /\ Len(chunk) \in Nat
    BY Numbers DEF IInv, StageInv
  <2>2. timed \in Nat
    BY <2>1
  <2> QED BY <2>2 DEF IInv, TypeInv, UntimedId
<1>2. aodDep[r] \in ActiveIds
  BY DEF ActiveIds
<1>3. aodDep[r] \in 0 .. UntimedId - 1
  BY <1>1 DEF Before
<1>4. aodDep[r] < base => aodDep[r] \in DOMAIN window
  BY <1>2 DEF KeptInv, IdInv, Kept
<1>5. ~(aodDep[r] < base) => aodDep[r] \in DOMAIN window
  <2>1. base .. UntimedId - 1 \subseteq DOMAIN window
    BY DEF KeptInv, IdInv
  <2> QED BY <2>1, <1>1, <1>3
<1> QED BY <1>1, <1>2, <1>3, <1>4, <1>5

\* What an instruction of the chunk that has its times waits for has its times.
LEMMA TimedAwaits ==
  ASSUME IInv, KeptInv, NEW k \in 1 .. timed
  PROVE  /\ base + k - 1 \in DOMAIN window /\ base + k - 1 # UntimedId
         /\ \A d \in Awaits(chunk[k]) : d \in DOMAIN window /\ d # UntimedId
<1>1. /\ base \in Nat /\ UntimedId = base + timed /\ timed \in Nat /\ k \in 1 .. Len(chunk)
      /\ Len(chunk) \in Nat
  <2>1. timed \in 0 .. Len(chunk) /\ Len(chunk) \in Nat /\ base \in Nat
    BY Numbers DEF IInv, StageInv
  <2>2. timed \in Nat /\ k \in 1 .. Len(chunk)
    BY <2>1
  <2> QED BY <2>1, <2>2 DEF UntimedId
<1>2. PICK n : n = base + k - 1
  OBVIOUS
<1>3. n \in Nat /\ n \in base .. UntimedId - 1
  BY <1>1, <1>2
<1>4. base .. UntimedId - 1 \subseteq DOMAIN window
  BY DEF KeptInv, IdInv
<1>5. \A d \in Awaits(chunk[k]) : d \in 0 .. n
  <2>1. ShapeOf(chunk[k], base + k - 1) /\ GoodInstruction(chunk[k], base + k - 1, exposures)
    BY <1>1 DEF KeptInv, ShapeInv, IInv, ChunkInv
  <2>2. chunk[k].sites \subseteq 0 .. n /\ chunk[k].deps \subseteq 0 .. n - 1
    BY <2>1, <1>2 DEF ShapeOf, GoodInstruction, Before
  <2> QED BY <2>2, <1>3 DEF Awaits
<1>6. \A d \in Awaits(chunk[k]) : d < base => d \in DOMAIN window
  BY <1>1 DEF KeptInv, IdInv, Kept
<1>7. \A d \in Awaits(chunk[k]) : d \in Nat /\ (d < base \/ d \in base .. UntimedId - 1)
  BY <1>1, <1>3, <1>5
<1>8. UntimedId \in Nat /\ \A d \in Awaits(chunk[k]) : d # UntimedId
  BY <1>1, <1>3, <1>7
<1> QED BY <1>2, <1>3, <1>4, <1>6, <1>7, <1>8

LEMMA TimedGrows ==
  ASSUME IInv, KeptInv, TimeInv, Assigning, NEW summary, SetTimes(summary),
         UNCHANGED <<base, replayed, aodEnd, instructions, nextId, call, saved>>,
         NEW i, i = chunk'[timed + 1],
         \A k \in 1 .. Len(chunk) : k # timed + 1 => chunk'[k] = chunk[k],
         NEW v, v = window', RouterTimed(i, UntimedId, aodFree, v),
         NEW p, p = FreeThen(aodFree, i, v[UntimedId].end), aodFree' = p,
         FreeAfter(v, aodDep', aodFree')
  PROVE  TimeInv'
<1>1. /\ timed \in Nat /\ Len(chunk) \in Nat /\ timed < Len(chunk) /\ base \in Nat
      /\ UntimedId = base + timed /\ replayed = 0 /\ call = Ledger!Idle /\ nextId = base
  BY UntimedFacts
<1>2. /\ timed' = timed + 1 /\ DOMAIN v = DOMAIN window \cup {UntimedId}
      /\ \A d \in DOMAIN window : d # UntimedId => v[d] = window[d]
  BY WindowNow
<1>3. PICK free : FreeLine(free, base, chunk, timed, window, aodFree) /\ free[replayed] = aodEnd
  BY DEF TimeInv, ClockInv
<1>4. \E l : FreeLine(l, base, chunk', timed + 1, v, p) /\ StartsLike(l, free)
  <2>1. /\ \A k \in 1 .. timed : v[base + k - 1] = window[base + k - 1]
        /\ \A k \in 1 .. timed : \A d \in Awaits(chunk[k]) : v[d] = window[d]
    BY <1>2, TimedAwaits
  <2>2. \A k \in 1 .. timed : chunk'[k] = chunk[k]
    BY <1>1
  <2>3. PICK m : m = timed + 1
    OBVIOUS
  <2>4. PICK c : c = chunk'
    OBVIOUS
  <2>5. PICK id : id = UntimedId
    OBVIOUS
  <2>6. PICK last : last = aodFree
    OBVIOUS
  <2>7. Adds(m, timed, 1) /\ Adds(id, base, timed)
    BY <1>1, <2>3, <2>5 DEF Adds
  <2>8. /\ FreeLine(free, base, chunk, timed, window, last) /\ RouterTimed(c[m], id, last, v)
        /\ Follows(p, last, c[m], v[id])
    BY <1>3, <2>3, <2>4, <2>5, <2>6 DEF Follows
  <2>10. Unmoved(c, chunk, base, timed, v, window)
    BY <2>1, <2>2, <2>4 DEF Unmoved
  <2>9. \E l : FreeLine(l, base, c, m, v, p) /\ StartsLike(l, free)
    BY <2>7, <2>8, <2>10, FreeLineGrows
  <2> QED BY <2>3, <2>4, <2>9
<1>5. ClockInv'
  <2>1. PICK l : FreeLine(l, base, chunk', timed + 1, v, p) /\ StartsLike(l, free)
    BY <1>4
  <2>2. l[0] = aodEnd
    BY <2>1, <1>1, <1>3 DEF StartsLike
  <2>3. FreeLine(l, base', chunk', timed', window', aodFree') /\ l[replayed'] = aodEnd'
    BY <2>1, <2>2, <1>1, <1>2
  <2> QED BY <2>3 DEF ClockInv, FreeLine, RouterTimed, EndsIn, SitesIn, FirstIn, FreeThen, IsLatest
<1>6. AgreeOn(window, instructions)'
  <2>1. UntimedId \notin DOMAIN instructions
    <3>1. DOMAIN instructions \subseteq Before(nextId)
      BY DEF KeptInv, IdInv
    <3> QED BY <3>1, <1>1 DEF Before
  <2>2. AgreeOn(v, instructions)
    BY <2>1, <1>2 DEF TimeInv, AgreeOn
  <2> QED BY <2>2 DEF AgreeOn, SameTiming
<1>7. FreeAfter(window, aodDep, aodFree)'
  BY DEF FreeAfter
<1>8. CallAgrees'
  BY <1>1, CallStates DEF CallAgrees, Ledger!Booking
<1>9. SavedTimeInv'
  BY DEF TimeInv, SavedTimeInv
<1> QED BY <1>5, <1>6, <1>7, <1>8, <1>9 DEF TimeInv

\* What the router reads of an instruction does not change with its own times.
LEMMA EndsRead ==
  ASSUME IInv, KeptInv, Assigning, NEW summary, SetTimes(summary)
  PROVE  /\ \A d \in Untimed.deps : d \in DOMAIN window /\ window'[d] = window[d]
         /\ \A d \in Untimed.sites : d # UntimedId => d \in DOMAIN window /\ window'[d] = window[d]
<1>1. Known(Untimed)
  BY UntimedKnown
<1>2. Untimed.deps \subseteq Before(UntimedId) /\ UntimedId \in Nat
  BY UntimedFacts DEF GoodInstruction
<1>3. UntimedId \notin Untimed.deps
  BY <1>2 DEF Before
<1>4. \A d \in DOMAIN window : d # UntimedId => window'[d] = window[d]
  BY WindowNow
<1> QED BY <1>1, <1>3, <1>4 DEF Known

LEMMA JobTime ==
  ASSUME IInv, KeptInv, TimeInv, Assigning, NEW r \in Aods, NEW begin \in Nat, JobTimed(r, begin),
         UNCHANGED <<base, replayed, aodEnd, instructions, nextId, call, saved>>,
         aodFree' \in [Aods -> Nat]
  PROVE  TimeInv'
<1>1. PICK summary : summary = Summary("aod", begin, begin + Duration(Untimed.job),
                                       begin + PickupOffset(Untimed.job))
  OBVIOUS
<1>2. SetTimes(summary)
  BY <1>1 DEF JobTimed
<1>3. /\ summary.kind = "aod" /\ summary.begin = begin
      /\ summary.end = begin + Duration(Untimed.job)
      /\ summary.pickup = begin + PickupOffset(Untimed.job)
  BY <1>1 DEF Summary
<1>4. PICK i : i = chunk'[timed + 1]
  OBVIOUS
<1>5. PICK v : v = window'
  OBVIOUS
<1>6. PICK u : u = Untimed
  OBVIOUS
<1>7. /\ i.kind = "aod" /\ i.job = u.job /\ i.sites = u.sites /\ i.deps = u.deps \cup {aodDep[r]}
      /\ i.aod = r /\ FirstFree(r)
      /\ IsLatest(begin, DepEnds(u) \cup SiteTimes(u) \cup {aodFree[r]})
      /\ \A k \in 1 .. Len(chunk) : k # timed + 1 => chunk'[k] = chunk[k]
      /\ \A x \in Aods : aodDep'[x] = IF x = r THEN UntimedId ELSE aodDep[x]
      /\ \A x \in Aods : aodFree'[x] = IF x = r THEN summary.end ELSE aodFree[x]
  BY <1>3, <1>4, <1>6 DEF JobTimed
<1>8. /\ v[UntimedId] = summary
      /\ \A d \in DOMAIN window : d # UntimedId => v[d] = window[d]
  BY <1>2, <1>5, WindowNow
<1>9. /\ \A d \in u.deps : v[d] = window[d]
      /\ \A d \in u.sites : d # UntimedId => v[d] = window[d]
  BY <1>2, <1>5, <1>6, EndsRead
<1>10. \A x \in Aods : v[aodDep[x]] = window[aodDep[x]] /\ window[aodDep[x]].end <= aodFree[x]
  <2>1. \A x \in Aods : aodDep[x] \in DOMAIN window /\ aodDep[x] # UntimedId
    BY AodKnown
  <2> QED BY <2>1, <1>8 DEF TimeInv, FreeAfter
<1>11. EndsIn(i, v) = DepEnds(u) \cup {window[aodDep[r]].end}
  <2>1. \A d \in i.deps : v[d] = window[d]
    BY <1>7, <1>9, <1>10
  <2> QED BY <2>1, <1>7 DEF EndsIn, DepEnds
<1>12. SitesIn(i, UntimedId, v) = SiteTimes(u)
  BY <1>7, <1>9 DEF SitesIn, SiteTimes
<1>13. /\ aodFree[r] \in Nat /\ window[aodDep[r]].end \in Nat
       /\ DepEnds(u) \subseteq Nat
  <2>1. aodDep[r] \in DOMAIN window /\ TypeInv
    BY AodKnown DEF IInv
  <2>2. Known(Untimed)
    BY UntimedKnown
  <2> QED BY <2>1, <2>2, <1>6, DepEndsType DEF TypeInv, RouterType
<1>14. IsLatest(begin, EndsIn(i, v) \cup SitesIn(i, UntimedId, v) \cup {aodFree[r]})
  <2>1. aodFree[r] <= begin /\ window[aodDep[r]].end <= aodFree[r]
    BY <1>7, <1>10 DEF IsLatest
  <2>2. window[aodDep[r]].end <= begin
    BY <2>1, <1>13
  <2> QED BY <2>2, <1>7, <1>11, <1>12 DEF IsLatest
<1>15. RouterTimed(i, UntimedId, aodFree, v)
  <2>1. FirstIn(r, aodFree)
    BY <1>7 DEF FirstFree, FirstIn
  <2> QED BY <2>1, <1>3, <1>6, <1>7, <1>8, <1>14 DEF RouterTimed
<1>16. aodFree' = FreeThen(aodFree, i, v[UntimedId].end)
  <2>1. \A x \in Aods : aodFree'[x] = IF i.kind = "aod" /\ x = i.aod THEN v[UntimedId].end ELSE aodFree[x]
    BY <1>7, <1>8
  <2>2. aodFree' = [x \in Aods |-> aodFree'[x]]
    OBVIOUS
  <2> QED BY <2>1, <2>2 DEF FreeThen
<1>17. FreeAfter(v, aodDep', aodFree')
  <2> SUFFICES ASSUME NEW x \in Aods PROVE v[aodDep'[x]].end <= aodFree'[x]
    BY DEF FreeAfter
  <2>1. CASE x = r
    <3>1. aodDep'[x] = UntimedId /\ aodFree'[x] = summary.end /\ aodFree'[x] \in Nat
      BY <2>1, <1>7
    <3> QED BY <3>1, <1>8
  <2>2. CASE x # r
    BY <2>2, <1>7, <1>10
  <2> QED BY <2>1, <2>2
<1>18. PICK p : p = FreeThen(aodFree, i, v[UntimedId].end)
  OBVIOUS
<1> QED BY <1>2, <1>4, <1>5, <1>7, <1>15, <1>16, <1>17, <1>18, TimedGrows

LEMMA GateTimed ==
  ASSUME IInv, KeptInv, TimeInv, Assigning, TimeGate(Untimed),
         UNCHANGED <<base, replayed, aodEnd, instructions, nextId, call, saved>>
  PROVE  TimeInv'
<1>1. PICK begin \in DepEnds(Untimed) :
        /\ IsLatest(begin, DepEnds(Untimed))
        /\ SetTimes(Summary(Untimed.kind, begin, begin + GateTime(Untimed), 0))
  BY DEF TimeGate
<1>2. Untimed.kind # "aod" /\ UNCHANGED <<chunk, aodDep, aodFree>>
  BY DEF TimeGate
<1>3. PICK summary : summary = Summary(Untimed.kind, begin, begin + GateTime(Untimed), 0)
  OBVIOUS
<1>4. SetTimes(summary)
  BY <1>1, <1>3
<1>5. /\ summary.kind = Untimed.kind /\ summary.begin = begin
      /\ summary.end = begin + GateTime(Untimed)
  BY <1>3 DEF Summary
<1>6. PICK u : u = Untimed
  OBVIOUS
<1>7. chunk'[timed + 1] = u
  BY <1>2, <1>6 DEF Untimed
<1>8. PICK v : v = window'
  OBVIOUS
<1>9. /\ v[UntimedId] = summary
      /\ \A d \in DOMAIN window : d # UntimedId => v[d] = window[d]
  BY <1>4, <1>8, WindowNow
<1>10. EndsIn(u, v) = DepEnds(u)
  <2>1. \A d \in u.deps : v[d] = window[d]
    BY <1>4, <1>6, <1>8, EndsRead
  <2> QED BY <2>1 DEF EndsIn, DepEnds
<1>11. begin \in Nat /\ TypeInv
  BY <1>1, UntimedKnown, DepEndsType DEF IInv
<1>12. /\ GoodInstruction(u, UntimedId, exposures) /\ UntimedId \in Nat /\ UntimedId > 0
       /\ ShapeOf(u, UntimedId)
  <2>1. timed \in Nat /\ base \in Nat /\ base > 0 /\ UntimedId = base + timed
        /\ GoodInstruction(Untimed, UntimedId, exposures)
    BY UntimedFacts
  <2>2. ShapeOf(Untimed, UntimedId)
    BY UntimedKnown
  <2> QED BY <2>1, <2>2, <1>6
<1>13. u.kind # "init" /\ u.kind \in {"one_qubit", "cz"}
  BY <1>2, <1>6, <1>12 DEF GoodInstruction, ShapeOf
<1>14. RouterTimed(u, UntimedId, aodFree, v)
  <2>1. u.kind = "one_qubit" => summary.end = begin + Len(u.atoms) * OneQTime + OneQCommon
    <3> SUFFICES ASSUME u.kind = "one_qubit"
                 PROVE  summary.end = begin + Len(u.atoms) * OneQTime + OneQCommon
      OBVIOUS
    <3>1. u.atoms \in Seq(Atoms)
      BY <1>12 DEF GoodInstruction
    <3>2. Len(u.atoms) \in Nat
      BY <3>1, LenProperties
    <3>3. OneQTime \in Nat /\ OneQCommon \in Nat
      BY RouteAssumption
    <3>4. PICK x : x = Len(u.atoms) * OneQTime
      OBVIOUS
    <3>5. x \in Nat
      BY <3>2, <3>3, <3>4
    <3>6. GateTime(u) = x + OneQCommon
      BY <3>4 DEF GateTime
    <3>7. begin + (x + OneQCommon) = begin + x + OneQCommon
      BY <1>11, <3>3, <3>5
    <3> QED BY <3>4, <3>6, <3>7, <1>5, <1>6
  <2>2. u.kind = "cz" => summary.end = begin + RydTime
    BY <1>5, <1>6 DEF GateTime
  <2>3. IsLatest(begin, EndsIn(u, v))
    BY <1>1, <1>6, <1>10
  <2> QED BY <2>1, <2>2, <2>3, <1>5, <1>6, <1>9, <1>13 DEF RouterTimed
<1>15. aodFree' = FreeThen(aodFree, u, v[UntimedId].end)
  <2>1. aodFree \in [Aods -> Nat]
    BY <1>11 DEF TypeInv, RouterType
  <2>2. aodFree = [x \in Aods |-> aodFree[x]]
    BY <2>1
  <2> QED BY <2>2, <1>2, <1>13 DEF FreeThen
<1>16. FreeAfter(v, aodDep', aodFree')
  <2> SUFFICES ASSUME NEW x \in Aods PROVE v[aodDep[x]].end <= aodFree[x]
    BY <1>2 DEF FreeAfter
  <2>1. aodDep[x] \in DOMAIN window /\ aodDep[x] # UntimedId
    BY AodKnown
  <2> QED BY <2>1, <1>9 DEF TimeInv, FreeAfter
<1>17. PICK p : p = FreeThen(aodFree, u, v[UntimedId].end)
  OBVIOUS
<1>18. /\ \A k \in 1 .. Len(chunk) : k # timed + 1 => chunk'[k] = chunk[k]
       /\ u = chunk'[timed + 1] /\ aodFree' = p
  BY <1>2, <1>7, <1>15, <1>17
<1> QED BY <1>4, <1>8, <1>14, <1>16, <1>17, <1>18, TimedGrows

LEMMA AssignTimesTime ==
  IInv /\ IInv' /\ KeptInv /\ TimeInv /\ AssignTimes => TimeInv' /\ stage' \in {"replay", stage}
<1> SUFFICES ASSUME IInv, IInv', KeptInv, TimeInv, AssignTimes
             PROVE  TimeInv' /\ stage' \in {"replay", stage}
  OBVIOUS
<1>1. Assigning /\ Known(Untimed)
  BY UntimedKnown DEF AssignTimes
<1>2. /\ TimeJob(Untimed) \/ TimeGate(Untimed)
      /\ UNCHANGED <<base, replayed, aodEnd, instructions, nextId, call, saved>>
  BY <1>1 DEF AssignTimes, ledgerVars, crashVars
<1>3. CASE TimeJob(Untimed)
  <2>1. PICK r \in Aods, begin \in Nat : JobTimed(r, begin)
    BY <1>1, <1>3, TimeJobFacts
  <2>2. aodFree' \in [Aods -> Nat]
    BY DEF IInv, TypeInv, RouterType
  <2>3. TimeInv'
    BY <1>1, <1>2, <2>1, <2>2, JobTime
  <2>4. stage' \in {"replay", stage}
    BY <2>1 DEF JobTimed, SetTimes
  <2> QED BY <2>3, <2>4
<1>4. CASE TimeGate(Untimed)
  <2>1. TimeInv'
    BY <1>1, <1>2, <1>4, GateTimed
  <2>2. stage' \in {"replay", stage}
    BY <1>4 DEF TimeGate, SetTimes
  <2> QED BY <2>1, <2>2
<1> QED BY <1>2, <1>3, <1>4

-----------------------------------------------------------------------------
(***************************************************************************)
(* The ledger is asked for the times the router has found.                 *)
(***************************************************************************)

\* What the router read of the instruction the ledger is at.
LEMMA ReplayedTimed ==
  ASSUME IInv, TimeInv, Replaying
  PROVE  RouterTimed(Replayed, nextId, aodEnd, window)
<1>1. PICK free : FreeLine(free, base, chunk, timed, window, aodFree) /\ free[replayed] = aodEnd
  BY DEF TimeInv, ClockInv
<1>2. PICK k : k = replayed + 1
  OBVIOUS
<1>3. /\ replayed \in Nat /\ base \in Nat /\ nextId = base + replayed /\ timed = Len(chunk)
      /\ k \in 1 .. timed
  <2>1. /\ replayed \in Nat /\ base \in Nat /\ nextId = base + replayed /\ Len(chunk) \in Nat
        /\ replayed + 1 \in 0 .. Len(chunk) /\ stage = "replay"
    BY ReplayedFacts
  <2>2. timed = Len(chunk)
    BY <2>1 DEF IInv, StageInv
  <2> QED BY <2>1, <2>2, <1>2
<1>4. RouterTimed(chunk[k], base + k - 1, free[k - 1], window)
  BY <1>1, <1>3 DEF FreeLine
<1>5. base + k - 1 = nextId /\ k - 1 = replayed
  BY <1>2, <1>3
<1> QED BY <1>1, <1>2, <1>4, <1>5 DEF Replayed

\* What the instruction the ledger is at waits for is timed alike by both.
LEMMA AwaitsAlike ==
  ASSUME IInv, KeptInv, TimeInv, Replaying
  PROVE  \A d \in Awaits(Replayed) : d # nextId => d \in DOMAIN instructions /\ SameTiming(window[d], instructions[d])
<1>1. KnownToLedger
  BY ReplayedKnown
<1>2. replayed + 1 \in 1 .. timed
  <2>1. replayed \in Nat /\ replayed + 1 \in 0 .. Len(chunk) /\ stage = "replay" /\ Len(chunk) \in Nat
    BY ReplayedFacts
  <2>2. timed = Len(chunk)
    BY <2>1 DEF IInv, StageInv
  <2> QED BY <2>1, <2>2
<1>3. \A d \in Awaits(Replayed) : d \in DOMAIN window
  <2>1. PICK k \in 1 .. timed : k = replayed + 1
    BY <1>2
  <2>2. \A d \in Awaits(chunk[k]) : d \in DOMAIN window
    BY TimedAwaits
  <2> QED BY <2>1, <2>2 DEF Replayed
<1>4. \A d \in Awaits(Replayed) : d # nextId => d \in DOMAIN instructions
  BY <1>1 DEF KnownToLedger, Awaits
<1> QED BY <1>3, <1>4 DEF TimeInv, AgreeOn

\* A clock that the dependencies have caught up with does not matter.
LEMMA ClockCaughtUp ==
  ASSUME NEW E \in SUBSET Int, NEW clock \in Nat, clock = 0 \/ \E e \in E : clock <= e,
         NEW s, NEW t, Ledger!IsLatest(s, {clock} \cup E), IsLatest(t, {0} \cup E)
  PROVE  s = t
<1>1. /\ s \in {clock} \cup E /\ \A x \in {clock} \cup E : x <= s
      /\ t \in {0} \cup E /\ \A x \in {0} \cup E : x <= t
  BY DEF Ledger!IsLatest, IsLatest
<1>2. {clock} \cup E \in SUBSET Int /\ {0} \cup E \in SUBSET Int
  OBVIOUS
<1>3. \A x \in {clock} \cup E : \E y \in {0} \cup E : x <= y
  OBVIOUS
<1>4. \A y \in {0} \cup E : \E x \in {clock} \cup E : y <= x
  OBVIOUS
<1> QED BY <1>1, <1>2, <1>3, <1>4, SameLatest

\* The AOD that is free first, then the lowest, is one.
LEMMA FirstIsOne ==
  ASSUME aodEnd \in [Aods -> Nat], NEW r \in Aods, NEW u \in Aods,
         Ledger!IsAsapAod(r), FirstIn(u, aodEnd)
  PROVE  r = u
<1>1. aodEnd[r] < aodEnd[u] \/ (aodEnd[r] = aodEnd[u] /\ r <= u)
  BY DEF Ledger!IsAsapAod
<1>2. aodEnd[u] < aodEnd[r] \/ (aodEnd[u] = aodEnd[r] /\ u <= r)
  BY DEF FirstIn
<1>3. r \in Nat /\ u \in Nat /\ aodEnd[r] \in Nat /\ aodEnd[u] \in Nat
  BY RouteAssumption
<1> QED BY <1>1, <1>2, <1>3

LEMMA BegunAgrees ==
  ASSUME IInv, KeptInv, FreeInv, TimeInv, Replaying, call = Ledger!Idle,
         NEW t, NEW b, Begun(t, b), TimedByLedger(t)
  PROVE  /\ SameTiming(window[nextId], t)
         /\ Replayed.kind = "aod" => t.resource = Replayed.aod
<1>1. PICK w : w = window[nextId]
  OBVIOUS
<1>2. PICK E : E = Ledger!DependencyEnds(Replayed.deps)
  OBVIOUS
<1>3. RouterTimed(Replayed, nextId, aodEnd, window)
  BY ReplayedTimed
<1>4. /\ w.kind = Replayed.kind /\ t.kind = Replayed.kind
      /\ Replayed.kind \in {"init", "one_qubit", "cz", "aod"}
      /\ nextId \in Nat /\ Replayed.deps \subseteq Before(nextId)
  BY <1>1, <1>3, ReplayedFacts DEF RouterTimed, Begun, GoodInstruction
<1>5. nextId \notin Replayed.deps
  BY <1>4 DEF Before
<1>6. /\ \A d \in Replayed.deps : d \in DOMAIN instructions /\ SameTiming(window[d], instructions[d])
      /\ \A d \in Replayed.sites : d # nextId => d \in DOMAIN instructions /\ SameTiming(window[d], instructions[d])
  BY <1>5, AwaitsAlike DEF Awaits
<1>7. EndsIn(Replayed, window) = {0} \cup E
  <2>1. \A d \in Replayed.deps : window[d].end = instructions[d].end
    BY <1>6 DEF SameTiming
  <2> QED BY <2>1, <1>2 DEF EndsIn, Ledger!DependencyEnds
<1>8. /\ \A d \in DOMAIN instructions : instructions[d].end \in Nat /\ instructions[d].pickup \in Nat
      /\ aodEnd \in [Aods -> Nat] /\ oneQEnd \in Nat /\ rydEnd[Zone] \in Nat
  BY DEF IInv, TypeInv, LedgerType, Interval
<1>9. E \in SUBSET Int
  BY <1>2, <1>6, <1>8 DEF Ledger!DependencyEnds
<1>10. ASSUME NEW x \in Things, x \in Uses(Replayed)
       PROVE  Busy[x] = 0 \/ \E e \in E : Busy[x] <= e
  <2>1. Busy[x] = 0 \/ \E d \in Replayed.deps : d \in DOMAIN instructions /\ Busy[x] <= instructions[d].end
    BY <1>10, UsedBefore
  <2> QED BY <2>1, <1>2 DEF Ledger!DependencyEnds
<1>11. Busy[OneQBeam] = oneQEnd /\ Busy[RydZone] = rydEnd[Zone]
  BY BusyTimes DEF Busy
<1>12. t.begin \in Nat
  BY DEF Begun, Interval
<1>13. CASE Replayed.kind = "init"
  BY <1>1, <1>3, <1>4, <1>13 DEF RouterTimed, TimedByLedger, SameTiming
<1>14. CASE Replayed.kind = "one_qubit"
  <2>1. oneQEnd = 0 \/ \E e \in E : oneQEnd <= e
    <3>1. OneQBeam \in Things /\ OneQBeam \in Uses(Replayed)
      BY <1>14 DEF Things, Uses
    <3> QED BY <3>1, <1>10, <1>11
  <2>2. Ledger!IsLatest(t.begin, {oneQEnd} \cup E) /\ IsLatest(w.begin, {0} \cup E)
    BY <1>1, <1>2, <1>3, <1>4, <1>7, <1>14 DEF RouterTimed, TimedByLedger
  <2>3. t.begin = w.begin
    BY <2>1, <2>2, <1>8, <1>9, ClockCaughtUp
  <2>4. /\ w.end = w.begin + Len(Replayed.atoms) * OneQTime + OneQCommon
        /\ t.end = t.begin + Len(Replayed.atoms) * OneQTime + OneQCommon
    BY <1>1, <1>3, <1>4, <1>14 DEF RouterTimed, TimedByLedger
  <2>5. t.end = w.end
    BY <2>3, <2>4
  <2> QED BY <2>3, <2>5, <1>1, <1>4, <1>14 DEF SameTiming
<1>15. CASE Replayed.kind = "cz"
  <2>1. rydEnd[Zone] = 0 \/ \E e \in E : rydEnd[Zone] <= e
    <3>1. RydZone \in Things /\ RydZone \in Uses(Replayed)
      BY <1>15 DEF Things, Uses
    <3> QED BY <3>1, <1>10, <1>11
  <2>2. Ledger!IsLatest(t.begin, {rydEnd[Zone]} \cup E) /\ IsLatest(w.begin, {0} \cup E)
    BY <1>1, <1>2, <1>3, <1>4, <1>7, <1>15 DEF RouterTimed, TimedByLedger
  <2>3. t.begin = w.begin
    BY <2>1, <2>2, <1>8, <1>9, ClockCaughtUp
  <2>4. w.end = w.begin + RydTime /\ t.end = t.begin + RydTime
    BY <1>1, <1>3, <1>4, <1>15 DEF RouterTimed, TimedByLedger
  <2> QED BY <2>3, <2>4, <1>1, <1>4, <1>15 DEF SameTiming
<1>16. CASE Replayed.kind = "aod"
  <2>1. PICK r \in Aods : r = t.resource /\ Ledger!IsAsapAod(r)
    BY <1>4, <1>16 DEF TimedByLedger
  <2>2. r = Replayed.aod
    <3>1. Replayed.aod \in Aods /\ FirstIn(Replayed.aod, aodEnd)
      BY <1>3, <1>16 DEF RouterTimed
    <3> QED BY <3>1, <2>1, <1>8, FirstIsOne
  <2>3. PICK B : B = Ledger!SiteBegins(Replayed.sites \ {nextId}, DropOffset(Replayed.job))
    OBVIOUS
  <2>4. PICK early : early = PickupOffset(Replayed.job) - DropOffset(Replayed.job)
    OBVIOUS
  <2>5. /\ PickupOffset(Replayed.job) \in Nat /\ DropOffset(Replayed.job) \in Nat
        /\ PickupOffset(Replayed.job) <= DropOffset(Replayed.job)
    BY <1>4, <1>16, ReplayedFacts DEF TimedByLedger, GoodInstruction
  <2>6. early \in Int /\ early <= 0
    BY <2>4, <2>5
  <2>7. B \in SUBSET Int
    <3>1. \A d \in Replayed.sites \ {nextId} : instructions[d].end \in Nat /\ instructions[d].pickup \in Nat
      BY <1>6, <1>8
    <3> QED BY <2>3, <2>5, <3>1 DEF Ledger!SiteBegins
  <2>8. B \subseteq SitesIn(Replayed, nextId, window) /\ SitesIn(Replayed, nextId, window) \subseteq B \cup {early}
    <3>1. \A d \in Replayed.sites : d # nextId =>
            /\ window[d].kind = "aod" <=> instructions[d].kind = "aod"
            /\ window[d].kind = "aod" => window[d].pickup = instructions[d].pickup
            /\ window[d].end = instructions[d].end
      BY <1>6 DEF SameTiming
    <3> QED BY <2>3, <2>4, <3>1 DEF SitesIn, Ledger!SiteBegins
  <2>9. PICK C : C = SitesIn(Replayed, nextId, window)
    OBVIOUS
  <2>10. B \subseteq C /\ C \subseteq B \cup {early}
    BY <2>8, <2>9
  <2>11. Ledger!IsLatest(t.begin, {aodEnd[r]} \cup E \cup B)
    BY <1>2, <1>4, <1>16, <2>1, <2>3 DEF TimedByLedger
  <2>12. IsLatest(w.begin, ({0} \cup E) \cup C \cup {aodEnd[r]})
    BY <1>1, <1>3, <1>7, <1>16, <2>2, <2>9 DEF RouterTimed
  <2>13. t.begin = w.begin
    <3>1. PICK a \in Nat : a = aodEnd[r]
      BY <1>8
    <3>2. PICK S : S = {a} \cup E \cup B
      OBVIOUS
    <3>3. PICK T : T = ({0} \cup E) \cup C \cup {a}
      OBVIOUS
    <3>4. S \in SUBSET Int /\ T \in SUBSET Int
      BY <3>2, <3>3, <1>9, <2>6, <2>7, <2>10
    <3>5. /\ t.begin \in S /\ \A x \in S : x <= t.begin
          /\ w.begin \in T /\ \A y \in T : y <= w.begin
      BY <3>1, <3>2, <3>3, <2>11, <2>12 DEF Ledger!IsLatest, IsLatest
    <3>6. S \subseteq T /\ a \in S
      BY <3>2, <3>3, <2>10
    <3>7. \A x \in S : \E y \in T : x <= y
      BY <3>4, <3>6
    <3>8. \A y \in T : y \in S \/ y <= a
      BY <3>2, <3>3, <2>6, <2>10
    <3>9. \A y \in T : \E x \in S : y <= x
      BY <3>4, <3>6, <3>8
    <3> QED BY <3>4, <3>5, <3>7, <3>9, SameLatest
  <2>14. /\ w.end = w.begin + Duration(Replayed.job) /\ w.pickup = w.begin + PickupOffset(Replayed.job)
         /\ t.end = t.begin + Duration(Replayed.job) /\ t.pickup = t.begin + PickupOffset(Replayed.job)
    BY <1>1, <1>3, <1>4, <1>16 DEF RouterTimed, TimedByLedger
  <2> QED BY <2>1, <2>2, <2>13, <2>14, <1>1, <1>4 DEF SameTiming
<1> QED BY <1>4, <1>13, <1>14, <1>15, <1>16

LEMMA ReplayBeginTime ==
  IInv /\ KeptInv /\ FreeInv /\ TimeInv /\ ReplayBegin => TimeInv' /\ stage' = stage
<1> SUFFICES ASSUME IInv, KeptInv, FreeInv, TimeInv, ReplayBegin PROVE TimeInv' /\ stage' = stage
  OBVIOUS
<1>1. /\ KnownToLedger /\ ShapeOf(Replayed, nextId) /\ Replaying /\ call = Ledger!Idle
      /\ Schedule(Replayed) /\ UNCHANGED <<stage, replayed, routerVars>>
  BY ReplayedKnown DEF ReplayBegin
<1>2. PICK t, b : Begun(t, b)
  BY <1>1, ScheduleFacts
<1>3. TimedByLedger(t)
  BY <1>1, <1>2 DEF Begun, ShapeOf
<1>4. /\ SameTiming(window[nextId], t)
      /\ Replayed.kind = "aod" => t.resource = Replayed.aod
  BY <1>1, <1>2, <1>3, BegunAgrees
<1>5. /\ UNCHANGED <<base, chunk, timed, replayed, saved, window, aodDep, aodFree, aodEnd, instructions, nextId>>
      /\ call' = [state |-> "booking", timing |-> t, booking |-> b, done |-> 0]
  BY <1>2 DEF Begun, Entered, routerVars, depVars, crashVars
<1>6. UNCHANGED <<timings, base, chunk, timed, replayed>>
  BY <1>5 DEF timings
<1>7. AgreeOn(window, instructions)' /\ FreeAfter(window, aodDep, aodFree)' /\ ClockInv'
  BY <1>6, TimeSame
<1>8. CallAgrees'
  <2>1. Replayed' = Replayed
    BY <1>5 DEF Replayed
  <2>2. call'.timing = t
    BY <1>5
  <2>3. SameTiming(window'[nextId'], call'.timing) /\ (Replayed'.kind = "aod" => call'.timing.resource = Replayed'.aod)
    BY <1>4, <1>5, <2>1, <2>2
  <2> QED BY <2>3 DEF CallAgrees, SameTiming
<1>9. SavedTimeInv'
  BY <1>5 DEF TimeInv, SavedTimeInv
<1> QED BY <1>1, <1>7, <1>8, <1>9 DEF TimeInv

LEMMA ReplayEventTime ==
  IInv /\ KeptInv /\ FreeInv /\ TimeInv /\ ReplayEvent => TimeInv' /\ stage' = stage
<1> SUFFICES ASSUME IInv, KeptInv, FreeInv, TimeInv, ReplayEvent PROVE TimeInv' /\ stage' = stage
  OBVIOUS
<1>1. Replaying /\ Ledger!RecordEvent /\ UNCHANGED <<stage, replayed, routerVars>>
  BY NoOverlap DEF ReplayEvent
<1>2. /\ Ledger!Booking /\ call' = [call EXCEPT !.done = @ + 1]
      /\ UNCHANGED <<instructions, nextId, aodEnd>>
  BY <1>1 DEF Ledger!RecordEvent, Ledger!Pending, Ledger!clocks
<1>3. call = [state |-> "booking", timing |-> call.timing, booking |-> call.booking, done |-> call.done]
  BY <1>2 DEF IInv, CallInv, Ledger!Booking
<1>4. call'.timing = call.timing
  BY <1>2, <1>3
<1>5. UNCHANGED <<timings, base, chunk, timed, replayed, saved>>
  BY <1>1, <1>2 DEF routerVars, depVars, crashVars, timings
<1> QED BY <1>1, <1>2, <1>4, <1>5, TimeStays

LEMMA ReplayCommitTime ==
  IInv /\ KeptInv /\ FreeInv /\ TimeInv /\ ReplayCommit => TimeInv' /\ stage' = stage
<1> SUFFICES ASSUME IInv, KeptInv, FreeInv, TimeInv, ReplayCommit PROVE TimeInv' /\ stage' = stage
  OBVIOUS
<1>1. PICK t : t = call.timing
  OBVIOUS
<1>2. /\ Replaying /\ Ledger!Booking
      /\ instructions' = [id \in DOMAIN instructions \cup {nextId} |->
                            IF id = nextId THEN t ELSE instructions[id]]
      /\ aodEnd'  = [r \in Aods |-> IF t.kind = "aod" /\ r = t.resource THEN t.end ELSE aodEnd[r]]
      /\ call' = Ledger!Idle /\ replayed' = replayed + 1
      /\ stage' = IF Agrees(t, window[base + replayed]) THEN stage ELSE "failed"
      /\ UNCHANGED <<base, chunk, timed, saved, window, aodDep, aodFree>>
  BY <1>1 DEF ReplayCommit, Ledger!Commit, Ledger!AdvanceClock, routerVars, depVars, crashVars
<1>3. /\ SameTiming(window[nextId], t)
      /\ Replayed.kind = "aod" => t.resource = Replayed.aod
      /\ t.kind = Replayed.kind
  BY <1>1, <1>2 DEF TimeInv, CallAgrees, FreeInv, BookInv
<1>4. /\ base \in Nat /\ nextId = base + replayed /\ nextId \in Nat /\ replayed \in Nat
      /\ replayed + 1 \in 0 .. Len(chunk) /\ Len(chunk) \in Nat /\ stage = "replay"
  BY <1>2, ReplayedFacts
<1>5. stage' = stage
  <2>1. Agrees(t, window[nextId])
    BY <1>3 DEF SameTiming, Agrees
  <2> QED BY <2>1, <1>2, <1>4
<1>6. AgreeOn(window, instructions)'
  <2>1. AgreeOn(window, instructions')
    BY <1>2, <1>3 DEF TimeInv, AgreeOn
  <2> QED BY <2>1, <1>2 DEF AgreeOn, SameTiming
<1>7. FreeAfter(window, aodDep, aodFree)'
  BY <1>2 DEF TimeInv, FreeAfter
<1>8. ClockInv'
  <2>1. PICK free : FreeLine(free, base, chunk, timed, window, aodFree) /\ free[replayed] = aodEnd
    BY DEF TimeInv, ClockInv
  <2>2. PICK k : k = replayed + 1
    OBVIOUS
  <2>3. timed = Len(chunk) /\ k \in 1 .. timed
    <3>1. timed = Len(chunk)
      BY <1>4 DEF IInv, StageInv
    <3> QED BY <3>1, <2>2, <1>4
  <2>4. free[k] = FreeThen(free[k - 1], chunk[k], window[base + k - 1].end)
    BY <2>1, <2>3 DEF FreeLine
  <2>5. base + k - 1 = nextId /\ k - 1 = replayed /\ chunk[k] = Replayed
    BY <2>2, <1>4 DEF Replayed
  <2>6. free[k] = FreeThen(aodEnd, Replayed, window[nextId].end)
    BY <2>1, <2>4, <2>5
  <2>7. aodEnd' = FreeThen(aodEnd, Replayed, window[nextId].end)
    <3>1. \A r \in Aods : (t.kind = "aod" /\ r = t.resource) <=> (Replayed.kind = "aod" /\ r = Replayed.aod)
      BY <1>3
    <3>2. t.end = window[nextId].end
      BY <1>3 DEF SameTiming
    <3> QED BY <3>1, <3>2, <1>2 DEF FreeThen
  <2>8. FreeLine(free, base', chunk', timed', window', aodFree') /\ free[replayed'] = aodEnd'
    BY <2>1, <2>2, <2>6, <2>7, <1>2
  <2> QED BY <2>8 DEF ClockInv, FreeLine, RouterTimed, EndsIn, SitesIn, FirstIn, FreeThen, IsLatest
<1>9. CallAgrees'
  BY <1>2, CallStates DEF CallAgrees, Ledger!Booking
<1>10. SavedTimeInv'
  BY <1>2 DEF TimeInv, SavedTimeInv
<1> QED BY <1>5, <1>6, <1>7, <1>8, <1>9, <1>10 DEF TimeInv

LEMMA PublishTime == IInv /\ KeptInv /\ TimeInv /\ Publish => TimeInv' /\ stage' = "boundary"
<1> SUFFICES ASSUME IInv, KeptInv, TimeInv, Publish PROVE TimeInv' /\ stage' = "boundary"
  OBVIOUS
<1>1. ActiveIds \subseteq DOMAIN window \cap DOMAIN instructions
  BY PublishKnown DEF Publish
<1>2. /\ window' = [id \in ActiveIds |-> window[id]]
      /\ instructions' = [id \in ActiveIds |-> instructions[id]]
      /\ base' = NextInst /\ chunk' = <<>> /\ timed' = 0 /\ replayed' = 0 /\ replayed = Len(chunk)
      /\ stage = "replay" /\ stage' = "boundary"
      /\ UNCHANGED <<aodDep, aodFree, aodEnd, saved, call>> /\ call = Ledger!Idle
  BY <1>1 DEF Publish, Ledger!Prune, Ledger!clocks, depVars, crashVars
<1>3. aodFree = aodEnd
  <2>1. PICK free : FreeLine(free, base, chunk, timed, window, aodFree) /\ free[replayed] = aodEnd
    BY DEF TimeInv, ClockInv
  <2>2. timed = Len(chunk)
    BY <1>2 DEF IInv, StageInv
  <2> QED BY <2>1, <2>2, <1>2 DEF FreeLine
<1>4. AgreeOn(window, instructions)'
  <2>1. AgreeOn(window', instructions')
    BY <1>1, <1>2 DEF TimeInv, AgreeOn
  <2> QED BY <2>1 DEF AgreeOn, SameTiming
<1>5. FreeAfter(window, aodDep, aodFree)'
  <2>1. \A r \in Aods : aodDep[r] \in ActiveIds
    BY DEF ActiveIds
  <2>2. \A r \in Aods : window'[aodDep[r]] = window[aodDep[r]]
    BY <2>1, <1>2
  <2> QED BY <2>2, <1>2 DEF TimeInv, FreeAfter
<1>6. ClockInv'
  <2>1. PICK f : FreeLine(f, base', chunk', 0, window', aodFree') /\ f[0] = aodFree'
    BY FreeLineOfNone
  <2>2. FreeLine(f, base', chunk', timed', window', aodFree') /\ f[replayed'] = aodEnd'
    BY <2>1, <1>2, <1>3
  <2> QED BY <2>2 DEF ClockInv, FreeLine, RouterTimed, EndsIn, SitesIn, FirstIn, FreeThen, IsLatest
<1>7. CallAgrees'
  BY <1>2, CallStates DEF CallAgrees, Ledger!Booking
<1>8. SavedTimeInv'
  BY <1>2 DEF TimeInv, SavedTimeInv
<1> QED BY <1>2, <1>4, <1>5, <1>6, <1>7, <1>8 DEF TimeInv

\* The initial block is timed without the common part, which the ledger adds.
BlockAlike == OneQCommon = 0 \/ InitialBlocks \subseteq {<<>>}

LEMMA InitTime == BlockAlike /\ Init => TimeInv
<1> SUFFICES ASSUME BlockAlike, Init PROVE TimeInv
  OBVIOUS
<1>1. /\ IsSeq(chunk) /\ Len(chunk) \in {1, 2}
      /\ chunk[1] = Instruction("init", <<>>, <<>>, {}, {})
      /\ Len(chunk) = IF block = <<>> THEN 1 ELSE 2
      /\ block # <<>> => chunk[2] = Instruction("one_qubit", block, <<>>, {0}, {})
  BY InitialChunk
<1>2. /\ base = 0 /\ replayed = 0 /\ timed = Len(chunk) /\ block \in InitialBlocks
      /\ window = [id \in 0 .. Len(chunk) - 1 |->
                     IF id = 0 THEN Summary("init", 0, 0, 0)
                     ELSE Summary("one_qubit", 0, Len(block) * OneQTime, 0)]
      /\ aodDep = [r \in Aods |-> 0] /\ aodFree = [r \in Aods |-> 0]
      /\ saved = NoCheckpoint /\ call = Ledger!Idle
      /\ instructions = [id \in {} |-> {}] /\ aodEnd = [r \in Aods |-> 0]
  BY DEF Init, Ledger!Init
<1>3. /\ 0 \in 0 .. Len(chunk) - 1
      /\ Len(chunk) = 2 => 1 \in 0 .. Len(chunk) - 1 /\ 1 # 0
  BY <1>1
<1>4. /\ window[0].kind = "init" /\ window[0].begin = 0 /\ window[0].end = 0
      /\ Len(chunk) = 2 => /\ window[1].kind = "one_qubit" /\ window[1].begin = 0
                           /\ window[1].end = Len(block) * OneQTime
  BY <1>2, <1>3 DEF Summary
<1>5. PICK zero : zero = [r \in Aods |-> 0]
  OBVIOUS
<1>6. \A i, e : i.kind # "aod" => FreeThen(zero, i, e) = zero
  BY <1>5 DEF FreeThen
<1>7. RouterTimed(chunk[1], 0, zero, window) /\ chunk[1].kind = "init"
  <2>1. chunk[1].kind = "init"
    BY <1>1 DEF Instruction
  <2> QED BY <2>1, <1>4 DEF RouterTimed
<1>8. Len(chunk) = 2 => RouterTimed(chunk[2], 1, zero, window) /\ chunk[2].kind = "one_qubit"
  <2> SUFFICES ASSUME Len(chunk) = 2
               PROVE  RouterTimed(chunk[2], 1, zero, window) /\ chunk[2].kind = "one_qubit"
    OBVIOUS
  <2>1. block # <<>> /\ chunk[2].kind = "one_qubit" /\ chunk[2].atoms = block /\ chunk[2].deps = {0}
    BY <1>1 DEF Instruction
  <2>2. OneQCommon = 0
    BY <2>1, <1>2 DEF BlockAlike
  <2>3. EndsIn(chunk[2], window) = {0}
    BY <2>1, <1>4 DEF EndsIn
  <2>4. IsLatest(window[1].begin, EndsIn(chunk[2], window))
    BY <2>3, <1>4 DEF IsLatest
  <2>5. window[1].end = window[1].begin + Len(block) * OneQTime + OneQCommon
    <3>1. block \in Seq(Atoms)
      BY <1>2, RouteAssumption
    <3>2. Len(block) \in Nat /\ OneQTime \in Nat
      BY <3>1, LenProperties, RouteAssumption
    <3>3. PICK x \in Nat : x = Len(block) * OneQTime
      BY <3>2
    <3>4. x = 0 + x + 0
      OBVIOUS
    <3> QED BY <3>3, <3>4, <2>2, <1>4
  <2> QED BY <2>1, <2>4, <2>5, <1>4 DEF RouterTimed
<1>9. ClockInv
  <2>1. PICK free : free = [k \in 0 .. 2 |-> zero]
    OBVIOUS
  <2>2. free[0] = zero /\ free[1] = zero /\ free[2] = zero
    BY <2>1
  <2>3. ASSUME NEW k \in 1 .. Len(chunk)
        PROVE  /\ RouterTimed(chunk[k], 0 + k - 1, free[k - 1], window)
               /\ free[k] = FreeThen(free[k - 1], chunk[k], window[0 + k - 1].end)
    <3>1. k = 1 \/ (k = 2 /\ Len(chunk) = 2)
      BY <1>1
    <3>2. CASE k = 1
      <4>1. 0 + k - 1 = 0 /\ k - 1 = 0
        BY <3>2
      <4>2. FreeThen(zero, chunk[1], window[0].end) = zero
        BY <1>6, <1>7
      <4> QED BY <3>2, <4>1, <4>2, <2>2, <1>7
    <3>3. CASE k = 2 /\ Len(chunk) = 2
      <4>1. 0 + k - 1 = 1 /\ k - 1 = 1
        BY <3>3
      <4>2. FreeThen(zero, chunk[2], window[1].end) = zero
        BY <3>3, <1>6, <1>8
      <4> QED BY <3>3, <4>1, <4>2, <2>2, <1>8
    <3> QED BY <3>1, <3>2, <3>3
  <2>4. free[Len(chunk)] = zero
    BY <2>2, <1>1
  <2>5. FreeLine(free, base, chunk, timed, window, aodFree) /\ free[replayed] = aodEnd
    BY <2>2, <2>3, <2>4, <1>2, <1>5 DEF FreeLine
  <2> QED BY <2>5 DEF ClockInv
<1>10. AgreeOn(window, instructions) /\ FreeAfter(window, aodDep, aodFree)
  <2>1. AgreeOn(window, instructions)
    BY <1>2 DEF AgreeOn
  <2>2. \A r \in Aods : window[aodDep[r]].end <= aodFree[r]
    BY <1>2, <1>4
  <2> QED BY <2>1, <2>2 DEF FreeAfter
<1>11. CallAgrees /\ SavedTimeInv
  BY <1>2, CallStates DEF CallAgrees, SavedTimeInv, Ledger!Booking
<1> QED BY <1>9, <1>10, <1>11 DEF TimeInv

-----------------------------------------------------------------------------

LEMMA NextTime ==
  IInv /\ IInv' /\ KeptInv /\ FreeInv /\ TimeInv /\ NeverRefused /\ [Next]_vars
    => TimeInv' /\ NeverRefused'
<1> SUFFICES ASSUME IInv, IInv', KeptInv, FreeInv, TimeInv, NeverRefused, [Next]_vars
             PROVE  TimeInv' /\ stage' # "failed"
  BY DEF NeverRefused
<1> USE DEF NeverRefused
<1>1. CASE \E atoms \in SUBSET pending : EmitJob(atoms)
  BY <1>1, EmitJobTime
<1>2. CASE RouteLayer
  BY <1>2, RouteLayerTime
<1>3. CASE EmitGates
  BY <1>3, EmitGatesTime
<1>4. CASE AssignTimes
  BY <1>4, AssignTimesTime
<1>5. CASE ReplayBegin
  BY <1>5, ReplayBeginTime
<1>6. CASE ReplayEvent
  BY <1>6, ReplayEventTime
<1>7. CASE ReplayCommit
  BY <1>7, ReplayCommitTime
<1>8. CASE Publish
  BY <1>8, PublishTime
<1>9. CASE Checkpoint
  <2>1. stage' = stage
    BY <1>9 DEF Checkpoint
  <2> QED BY <2>1, <1>9, CheckpointTime
<1>10. CASE Restore
  BY <1>10, RestoreTime, RestoreKept
<1>11. CASE UNCHANGED vars
  <2>1. stage' = stage
    BY <1>11 DEF vars
  <2> QED BY <2>1, <1>11, StutterTime
<1> QED BY <1>1, <1>2, <1>3, <1>4, <1>5, <1>6, <1>7, <1>8, <1>9, <1>10, <1>11 DEF Next, Advance

LEMMA TimeInvariant ==
  ASSUME BlockAlike
  PROVE  Spec => [](TimeInv /\ NeverRefused)
<1>1. Spec => []IInv
  BY Invariant
<1>2. Spec => []KeptInv
  BY KeptInvariant
<1>3. Spec => []FreeInv
  BY FreeInvariant
<1>4. Init => TimeInv /\ NeverRefused
  <2>1. BlockAlike
    OBVIOUS
  <2>2. Init => NeverRefused
    BY DEF Init, NeverRefused
  <2> QED BY <2>1, <2>2, InitTime
<1>5. IInv /\ IInv' /\ KeptInv /\ FreeInv /\ (TimeInv /\ NeverRefused) /\ [Next]_vars
        => (TimeInv /\ NeverRefused)'
  BY NextTime
<1> QED BY <1>1, <1>2, <1>3, <1>4, <1>5, PTL DEF Spec

-----------------------------------------------------------------------------
(***************************************************************************)
(* No layer is refused.                                                    *)
(***************************************************************************)

\* Nothing pruned is looked up again (InstructionWindow.__getitem__ and
\* _dependency_end raise for what is not kept): what the router reads when it
\* times an instruction, what the ledger reads when it replays one, and what the
\* dependency ledgers name when a layer is published, are there, in any layer and
\* after any restart.
THEOREM NothingPrunedIsMissed ==
  Spec => [](/\ Assigning => Known(Untimed)
             /\ Replaying => KnownToLedger
             /\ stage = "replay" /\ replayed = Len(chunk) =>
                  ActiveIds \subseteq DOMAIN window \cap DOMAIN instructions)
<1>1. IInv /\ KeptInv => /\ Assigning => Known(Untimed)
                         /\ Replaying => KnownToLedger
                         /\ stage = "replay" /\ replayed = Len(chunk) =>
                              ActiveIds \subseteq DOMAIN window \cap DOMAIN instructions
  BY UntimedKnown, ReplayedKnown, PublishKnown
<1> QED BY <1>1, Invariant, KeptInvariant, PTL

\* The ledger never finds an atom of a driver's layer still active when its next
\* event starts (_record_event raises then): whatever used an atom, the beam or
\* the Rydberg zone last is over, for any jobs, blocks, durations and layers.
THEOREM OverlapNeverRaised == Spec => [][~(Replaying /\ Ledger!RaiseOverlap)]_vars
<1>1. IInv /\ KeptInv /\ FreeInv => [~(Replaying /\ Ledger!RaiseOverlap)]_vars
  BY NoOverlap
<1> QED BY <1>1, Invariant, KeptInvariant, FreeInvariant, PTL

\* No layer of a legal program makes the driver raise (consume_zair verify_timing,
\* _record_event, InstructionWindow, from_state): the ledger, which schedules each
\* instruction from its dependencies alone, arrives at the interval and the AOD
\* that the router wrote.  The premise leaves out the one disagreement there is:
\* write_initial_instruction times the leading block without time_1q_common,
\* which the ledger adds.
THEOREM DriverNeverRefused ==
  ASSUME OneQCommon = 0 \/ InitialBlocks \subseteq {<<>>}
  PROVE  Spec => []NeverRefused
<1>1. BlockAlike
  BY DEF BlockAlike
<1>2. Spec => [](TimeInv /\ NeverRefused)
  BY <1>1, TimeInvariant
<1> QED BY <1>2, PTL

\* With the same premise the ledger "mirrors the resource/dependency timing
\* contract" of the router (scheduler_ledger.py): whatever both have timed, in the
\* chunk or kept from the layers before, they have timed alike.
THEOREM LedgerMirrorsRouter ==
  ASSUME OneQCommon = 0 \/ InitialBlocks \subseteq {<<>>}
  PROVE  Spec => []MirrorsRouter
<1>1. BlockAlike
  BY DEF BlockAlike
<1>2. Spec => [](TimeInv /\ NeverRefused)
  BY <1>1, TimeInvariant
<1>3. TimeInv => MirrorsRouter
  BY DEF TimeInv, AgreeOn, SameTiming, MirrorsRouter
<1> QED BY <1>2, <1>3, PTL
==============================================================================
