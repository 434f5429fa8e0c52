-------------------------- MODULE LargeStreamsProofs --------------------------
(***************************************************************************)
(* Proofs about a large compile that writes streams, for any writers, any  *)
(* number of stages that write anything to them, any cadence and any       *)
(* number of exceptions, killed processes and power losses.                *)
(***************************************************************************)
EXTENDS LargeStreams, RecursionLemmas, SequenceTheorems, FiniteSetTheorems

Record == 0..LastStage
Chunk == -1..LastStage
Checkpoints == [stages : Chunk, size : [Streams -> Nat], chain : [Streams -> Seq(Record)]]

TypeInv ==
  /\ dir \in {"absent", "inprogress", "published"}
  /\ file \in [Streams -> Seq(Chunk)] /\ synced \in [Streams -> Nat]
  /\ ckpt \in Checkpoints /\ durable \in Checkpoints
  /\ pc \in {"idle", "open", "initial", "loop", "stage", "flush", "interrupt", "close",
             "sync", "reopen", "unwind", "exit"}
  /\ todo \in Seq(Streams)
  /\ resuming \in BOOLEAN /\ reopen \in BOOLEAN
  /\ stages \in Record /\ lastSaved \in Record
  /\ writer \in [Streams -> [open : BOOLEAN, buffer : Seq(Record)]]
  /\ chain \in [Streams -> Seq(Record)]
  /\ errors \in Nat /\ kills \in Nat /\ losses \in Nat

OpenWriters == {f \in Streams : writer[f].open}
Unvisited == Range(todo)

\* The first n chunks end a member and hold the records.
Owned(chunks, n, records) ==
  n \in DOMAIN chunks /\ chunks[n] = EndOfMember /\ Records(SubSeq(chunks, 1, n)) = records

\* A checkpoint stands for the stages it names, and whichever of its streams
\* still is that long begins with what it says.
Sound(c) ==
  /\ c.stages = -1 => c = NoCheckpoint
  /\ c.stages # -1 =>
       \A f \in Streams :
         /\ c.chain[f] = Expected(f, c.stages)
         /\ c.size[f] <= Len(file[f]) => Owned(file[f], c.size[f], c.chain[f])

CheckpointInv ==
  /\ Sound(ckpt) /\ Sound(durable)
  /\ \A f \in Streams : durable.size[f] <= ckpt.size[f]
  /\ ckpt.stages = -1 => durable.stages = -1
  /\ losses = 0 => \A f \in Streams : ckpt.size[f] <= Len(file[f])

WriterInv ==
  \A f \in Streams :
    /\ f \in OpenWriters => /\ Records(file[f]) \o writer[f].buffer = chain[f]
                            /\ ckpt.size[f] <= Len(file[f])
    /\ f \notin OpenWriters => writer[f].buffer = <<>>

DirInv ==
  /\ dir = "absent" => pc = "idle" /\ ckpt.stages = -1
  /\ dir = "published" => pc \in {"exit", "idle"}
  /\ pc = "exit" => dir = "published"
  /\ pc = "idle" /\ dir = "inprogress" /\ kills + losses = 0 => ckpt.stages # -1

CadenceInv ==
  pc \notin {"idle", "unwind", "exit", "sync"} =>
    lastSaved = IF ckpt.stages = -1 THEN 0 ELSE ckpt.stages

AtBoundary == \A f \in Streams : chain[f] = Expected(f, stages)
AllOpen == OpenWriters = Streams
AllClosed == OpenWriters = {}

\* Nothing is left to write, and the files hold what was written.
Ended(f) ==
  Owned(file[f], Len(file[f]), chain[f]) /\ ckpt.size[f] <= Len(file[f])
Settled == \A f \in Streams : writer[f].buffer = <<>> /\ Records(file[f]) = chain[f]

\* What comes before stage s, and before the initial instructions.
Earlier(f, s) == IF s = 0 THEN <<>> ELSE Expected(f, s - 1)

\* The first k writes of stage s are behind, the rest is still to do.
Partway(s) ==
  \E k \in 0..Len(Entries[s]) :
    /\ todo = SubSeq(Entries[s], k + 1, Len(Entries[s]))
    /\ \A f \in Streams :
         chain[f] = Earlier(f, s) \o Written(f, s, k)

OpenInv ==
  pc = "open" =>
    /\ chain = ckpt.chain /\ Streams \ Unvisited \subseteq OpenWriters
    /\ resuming => stages = ckpt.stages
    /\ ~resuming => stages = 0 /\ ckpt.stages = -1 /\ \A f \in Streams : file[f] = <<>>
    /\ \A f \in Streams : writer[f].buffer = <<>>

WritingInv ==
  /\ pc = "initial" => stages = 0 /\ ckpt.stages = -1 /\ AllOpen /\ Partway(0)
  /\ pc = "stage" => stages < LastStage /\ AllOpen /\ Partway(stages + 1)

BoundaryInv ==
  /\ pc \in {"loop", "flush", "interrupt", "close", "sync", "reopen"} => AtBoundary
  /\ pc \in {"loop", "interrupt", "stage"} => lastSaved <= stages
  /\ pc \in {"loop", "interrupt"} =>
       /\ AllOpen \/ (AllClosed /\ stages = LastStage /\ ckpt.stages = stages)
       /\ ckpt.stages = stages => Settled
  /\ pc = "flush" => AllOpen
  /\ pc \in {"flush", "close"} => lastSaved < stages
  /\ pc \in {"close", "sync"} => reopen \/ stages = LastStage
  /\ pc = "close" => \A f \in Streams \ OpenWriters : Ended(f)
  /\ pc \in {"sync", "reopen"} => ckpt.stages = stages
  /\ pc = "sync" => AllClosed /\ Settled
  /\ pc = "reopen" => /\ Streams \ Unvisited \subseteq OpenWriters
                      /\ \A f \in Streams : writer[f].buffer = <<>>

EndInv ==
  /\ pc \in {"close", "unwind", "exit"} => OpenWriters \subseteq Unvisited
  /\ dir = "published" /\ losses = 0 =>
       \A f \in Streams : Records(file[f]) = Expected(f, LastStage)
  /\ pc = "exit" => \A f \in Streams : writer[f].buffer = <<>>
  /\ pc = "idle" => AllClosed

IInv ==
  /\ TypeInv /\ CheckpointInv /\ WriterInv /\ DirInv /\ CadenceInv
  /\ OpenInv /\ WritingInv /\ BoundaryInv /\ EndInv

-----------------------------------------------------------------------------
(***************************************************************************)
(* What Records does to a file that grows.                                 *)
(***************************************************************************)

\* One line of the definition of Records.
Keep(records, c) == IF c = EndOfMember THEN records ELSE Append(records, c)

\* The recursion of Records, from its definition.
LEMMA RecordsUpTo ==
  ASSUME NEW chunks \in Seq(Chunk)
  PROVE  \E upTo \in [0..Len(chunks) -> Seq(Record)] :
           /\ upTo[0] = <<>>
           /\ \A i \in 1..Len(chunks) : upTo[i] = Keep(upTo[i - 1], chunks[i])
           /\ Records(chunks) = upTo[Len(chunks)]
<1> DEFINE n == Len(chunks)
           S == Seq(Record)
           Line(u, i) == IF i = 0 THEN <<>>
                         ELSE IF chunks[i] = EndOfMember THEN u[i - 1]
                         ELSE Append(u[i - 1], chunks[i])
           Fits(u) == u = [i \in 0..n |-> Line(u, i)]
           step == [i \in 1..n |-> [r \in S |-> Keep(r, chunks[i])]]
           none == <<>>
<1>1. n \in Nat /\ none \in S
  OBVIOUS
<1>2. \A i \in 1..n, r \in S : Keep(r, chunks[i]) \in S
  <2> TAKE i \in 1..n, r \in S
  <2>1. chunks[i] \in Chunk
    OBVIOUS
  <2>2. chunks[i] # EndOfMember => chunks[i] \in Record
    BY <2>1, LargeStreamsAssumption DEF Chunk, Record, EndOfMember
  <2> QED
    BY <2>2 DEF Keep
<1>3. \A u, i : i \in 1..n => Line(u, i) = Keep(u[i - 1], chunks[i])
  BY <1>1 DEF Keep
<1>4. \A u : Line(u, 0) = none
  OBVIOUS
<1>5. Records(chunks) = (CHOOSE u : Fits(u))[n]
  BY DEF Records
<1> HIDE DEF n, S, Line, none
<1>6. step \in Steps(n, S)
  BY <1>2 DEF Steps
<1>7. \A i \in 1..n, r \in S : step[i][r] = Keep(r, chunks[i])
  OBVIOUS
<1> HIDE DEF step
<1>8. PICK u : Recursion(u, none, n, S, step)
  BY <1>1, <1>6, RecursionUpTo
<1>9. /\ u \in [0..n -> S] /\ u[0] = none
      /\ \A i \in 1..n : u[i] = Keep(u[i - 1], chunks[i])
  BY <1>1, <1>7, <1>8 DEF Recursion
<1>10. \A i \in 0..n : u[i] = Line(u, i)
  <2> TAKE i \in 0..n
  <2>1. i = 0 \/ i \in 1..n
    BY <1>1
  <2> QED
    BY <1>3, <1>4, <1>9, <2>1
<1>11. Fits(u)
  BY <1>9, <1>10
<1> DEFINE v == CHOOSE w : Fits(w)
<1> HIDE DEF Fits
<1>12. Fits(v)
  BY <1>11
<1> HIDE DEF v
<1>13. v = [i \in 0..n |-> Line(v, i)]
  BY <1>12 DEF Fits
<1>14. \A i \in 0..n : v[i] = Line(v, i)
  BY <1>13
<1>15. v[0] = none /\ \A i \in 1..n : v[i] = Keep(v[i - 1], chunks[i])
  BY <1>1, <1>3, <1>4, <1>14
<1>16. \A i \in 0..n : v[i] = u[i]
  <2>1. StaysAlike(v, u, n)
    BY <1>9, <1>15 DEF StaysAlike
  <2> QED
    BY <1>1, <2>1, SameFromZero DEF Alike
<1>17. v[n] = u[n]
  BY <1>1, <1>16
<1>18. Records(chunks) = u[n]
  BY <1>5, <1>17 DEF v
<1> QED
  BY <1>9, <1>18 DEF n, S, none

\* The records of a file are sequences of records.
LEMMA RecordsType ==
  ASSUME NEW chunks \in Seq(Chunk)
  PROVE  Records(chunks) \in Seq(Record)
  BY RecordsUpTo

\* An empty file has none.
LEMMA RecordsOfNothing == Records(<<>>) = <<>>
<1>1. <<>> \in Seq(Chunk) /\ Len(<<>>) = 0
  OBVIOUS
<1> QED
  BY <1>1, RecordsUpTo

\* One more chunk adds one record, or none if it ends a member.
LEMMA RecordsAppend ==
  ASSUME NEW chunks \in Seq(Chunk), NEW c \in Chunk
  PROVE  Records(Append(chunks, c)) = Keep(Records(chunks), c)
<1> DEFINE n == Len(chunks)
           longer == Append(chunks, c)
<1>1. n \in Nat /\ longer \in Seq(Chunk) /\ Len(longer) = n + 1
      /\ longer[n + 1] = c /\ \A i \in 1..n : longer[i] = chunks[i]
  OBVIOUS
<1>2. PICK u \in [0..n -> Seq(Record)] :
        /\ u[0] = <<>>
        /\ \A i \in 1..n : u[i] = Keep(u[i - 1], chunks[i])
        /\ Records(chunks) = u[n]
  BY RecordsUpTo
<1> HIDE DEF longer
<1>3. PICK v \in [0..Len(longer) -> Seq(Record)] :
        /\ v[0] = <<>>
        /\ \A i \in 1..Len(longer) : v[i] = Keep(v[i - 1], longer[i])
        /\ Records(longer) = v[Len(longer)]
  BY <1>1, RecordsUpTo
<1>4. \A i \in 0..n : v[i] = u[i]
  <2>1. \A i \in 1..n : i \in 1..Len(longer) /\ longer[i] = chunks[i]
    BY <1>1
  <2>2. StaysAlike(v, u, n)
    BY <1>2, <1>3, <2>1 DEF StaysAlike
  <2> QED
    BY <1>1, <2>2, SameFromZero DEF Alike
<1>5. v[n] = u[n]
  BY <1>1, <1>4
<1>6. v[n + 1] = Keep(v[(n + 1) - 1], longer[n + 1])
  BY <1>1, <1>3
<1> QED
  BY <1>1, <1>2, <1>3, <1>5, <1>6 DEF longer

\* A sequence of records written behind a file adds just these.
LEMMA RecordsConcat ==
  ASSUME NEW chunks \in Seq(Chunk), NEW more \in Seq(Record)
  PROVE  Records(chunks \o more) = Records(chunks) \o more
<1> DEFINE n == Len(more)
           part(i) == SubSeq(more, 1, i)
           Good == {i \in 0..n : Records(chunks \o part(i)) = Records(chunks) \o part(i)}
<1>1. Records(chunks) \in Seq(Record)
  BY RecordsType
<1>2. \A r \in Record : r \in Chunk /\ r # EndOfMember
  BY LargeStreamsAssumption DEF Record, Chunk, EndOfMember
<1>3. 0 \in Good
  <2>1. part(0) = <<>> /\ 0 \in 0..n
    OBVIOUS
  <2>2. chunks \o <<>> = chunks /\ Records(chunks) \o <<>> = Records(chunks)
    BY <1>1
  <2> QED
    BY <2>1, <2>2
<1>4. ASSUME NEW i \in Nat, i < n, i \in Good
      PROVE  i + 1 \in Good
  <2>1. i + 1 \in 0..n /\ more[i + 1] \in Record /\ more[i + 1] \in Chunk
        /\ more[i + 1] # EndOfMember
    <3>1. i + 1 \in 0..n /\ i + 1 \in 1..Len(more)
      BY <1>4, SMTT(30)
    <3>2. more[i + 1] \in Record
      BY <3>1, SMTT(30)
    <3> QED
      BY <1>2, <3>1, <3>2, Zenon
  <2>2. part(i) \in Seq(Record) /\ part(i) \in Seq(Chunk)
        /\ part(i + 1) = Append(part(i), more[i + 1])
    <3>1. part(i + 1) = Append(part(i), more[i + 1])
      BY <1>4
    <3>2. part(i) \in Seq(Record)
      BY <1>4
    <3>3. part(i) \in Seq(Chunk)
      BY <1>2, <3>2
    <3> QED
      BY <3>1, <3>2, <3>3
  <2> HIDE DEF part
  <2>4. chunks \o part(i) \in Seq(Chunk)
    BY <2>2
  <2>3. chunks \o part(i + 1) = Append(chunks \o part(i), more[i + 1])
    <3> DEFINE e == more[i + 1]
               p == part(i)
    <3>1. e \in Chunk /\ p \in Seq(Chunk) /\ chunks \o p \in Seq(Chunk)
      BY <2>1, <2>2, <2>4, Zenon
    <3>2. part(i + 1) = Append(p, e)
      BY <2>2, Zenon
    <3> HIDE DEF e, p
    <3>3. Append(p, e) = p \o <<e>> /\ <<e>> \in Seq(Chunk)
          /\ Append(chunks \o p, e) = (chunks \o p) \o <<e>>
      BY <3>1, AppendIsConcat
    <3>4. (chunks \o p) \o <<e>> = chunks \o (p \o <<e>>)
      BY <3>1, <3>3, ConcatAssociative
    <3> QED
      BY <3>2, <3>3, <3>4 DEF e, p
  <2>5. Records(chunks \o part(i + 1)) = Append(Records(chunks \o part(i)), more[i + 1])
    BY <2>1, <2>3, <2>4, RecordsAppend DEF Keep
  <2>6. Records(chunks) \o part(i + 1) = Append(Records(chunks) \o part(i), more[i + 1])
    <3>1. Records(chunks) \o part(i) \in Seq(Record)
      BY <1>1, <2>2
    <3>2. Append(Records(chunks) \o part(i), more[i + 1])
            = (Records(chunks) \o part(i)) \o <<more[i + 1]>>
      BY <2>1, <3>1, AppendIsConcat
    <3> DEFINE e == more[i + 1]
    <3> HIDE DEF e
    <3>a. e \in Record /\ part(i + 1) = Append(part(i), e)
      BY <2>1, <2>2 DEF e
    <3>b. Append(part(i), e) = part(i) \o <<e>> /\ <<e>> \in Seq(Record)
      BY <2>2, <3>a, AppendIsConcat
    <3>3. part(i + 1) = part(i) \o <<more[i + 1]>> /\ <<more[i + 1]>> \in Seq(Record)
      BY <3>a, <3>b DEF e
    <3>c. part(i) \in Seq(Record) /\ <<e>> \in Seq(Record)
      BY <2>2, <3>b, Zenon
    <3>d. (Records(chunks) \o part(i)) \o <<e>> = Records(chunks) \o (part(i) \o <<e>>)
      <4> DEFINE r == Records(chunks)
                 p == part(i)
                 one == <<e>>
      <4>1. r \in Seq(Record) /\ p \in Seq(Record) /\ one \in Seq(Record)
        BY <1>1, <3>c
      <4> HIDE DEF r, p, one
      <4>2. (r \o p) \o one = r \o (p \o one)
        BY <4>1, SMTT(60)
      <4> QED
        BY <4>2 DEF r, p, one
    <3>4. (Records(chunks) \o part(i)) \o <<more[i + 1]>>
            = Records(chunks) \o (part(i) \o <<more[i + 1]>>)
      BY <3>d DEF e
    <3> QED
      BY <3>2, <3>3, <3>4
  <2> QED
    BY <1>4, <2>1, <2>5, <2>6
<1>5. n \in Nat /\ part(n) = more
  OBVIOUS
<1> HIDE DEF Good
<1>6. n \in Good
  <2>1. \A i \in 0..n : i \in Good
    BY <1>3, <1>4, <1>5, IntervalInduction
  <2> QED
    BY <1>5, <2>1
<1> QED
  BY <1>5, <1>6 DEF Good

\* A file that agrees with another up to chunk n owns the same prefix.
LEMMA OwnedByPrefix ==
  ASSUME NEW a \in Seq(Chunk), NEW b \in Seq(Chunk), NEW n \in Nat, NEW records,
         n <= Len(b), \A i \in 1..n : a[i] = b[i], Owned(a, n, records)
  PROVE  Owned(b, n, records)
<1>1. n \in 1..Len(a) /\ n \in 1..Len(b)
  BY DEF Owned
<1>2. SubSeq(a, 1, n) = SubSeq(b, 1, n)
  <2>1. /\ SubSeq(a, 1, n) \in Seq(Chunk) /\ Len(SubSeq(a, 1, n)) = n
        /\ SubSeq(b, 1, n) \in Seq(Chunk) /\ Len(SubSeq(b, 1, n)) = n
    BY <1>1
  <2>2. \A i \in 1..n : SubSeq(a, 1, n)[i] = SubSeq(b, 1, n)[i]
    BY <1>1
  <2> QED
    BY <2>1, <2>2, SeqEqual
<1>3. n \in DOMAIN b /\ n \in 1..n
  BY <1>1
<1>4. b[n] = a[n]
  BY <1>3
<1> QED
  BY <1>2, <1>3, <1>4, Zenon DEF Owned

\* Writing behind a prefix leaves it as it is ...
LEMMA OwnedWhenLonger ==
  ASSUME NEW a \in Seq(Chunk), NEW more \in Seq(Chunk), NEW n \in Nat, NEW records,
         Owned(a, n, records)
  PROVE  Owned(a \o more, n, records)
<1>1. n \in 1..Len(a)
  BY DEF Owned
<1>2. a \o more \in Seq(Chunk) /\ n <= Len(a \o more)
      /\ \A i \in 1..n : a[i] = (a \o more)[i]
  BY <1>1
<1> QED
  BY <1>2, OwnedByPrefix

\* ... and so does cutting the file off behind it.
LEMMA OwnedWhenShorter ==
  ASSUME NEW a \in Seq(Chunk), NEW k \in 0..Len(a), NEW n \in Nat, NEW records,
         n <= k, Owned(a, n, records)
  PROVE  Owned(SubSeq(a, 1, k), n, records)
<1>1. SubSeq(a, 1, k) \in Seq(Chunk) /\ Len(SubSeq(a, 1, k)) = k
      /\ \A i \in 1..n : a[i] = SubSeq(a, 1, k)[i]
  OBVIOUS
<1> QED
  BY <1>1, OwnedByPrefix

-----------------------------------------------------------------------------
(***************************************************************************)
(* What a compile writes, write by write and stage by stage.               *)
(***************************************************************************)

Entered(f, s, k) == {j \in 1..k : Entries[s][j] = f}

LEMMA EnteredFinite ==
  ASSUME NEW f, NEW s, NEW k \in Nat
  PROVE  IsFiniteSet(Entered(f, s, k)) /\ Cardinality(Entered(f, s, k)) \in Nat
<1>1. IsFiniteSet(1..k)
  BY FS_Interval
<1>2. Entered(f, s, k) \subseteq 1..k
  BY DEF Entered
<1> QED
  BY <1>1, <1>2, FS_Subset, FS_CardinalityType

LEMMA WrittenType ==
  ASSUME NEW f, NEW s \in Record, NEW k \in Nat
  PROVE  Written(f, s, k) \in Seq(Record) /\ Len(Written(f, s, k)) = Cardinality(Entered(f, s, k))
<1> DEFINE c == Cardinality(Entered(f, s, k))
<1>1. c \in Nat
  BY EnteredFinite
<1>2. Written(f, s, k) = [i \in 1..c |-> s]
  BY DEF Written, Entered
<1> HIDE DEF c
<1>3. [i \in 1..c |-> s] \in Seq(Record) /\ Len([i \in 1..c |-> s]) = c
  BY <1>1
<1> QED
  BY <1>2, <1>3 DEF c

\* Before the first write nothing is written.
LEMMA WrittenNothing ==
  ASSUME NEW f, NEW s \in Record
  PROVE  Written(f, s, 0) = <<>>
<1>1. Entered(f, s, 0) = {}
  BY DEF Entered
<1>2. Cardinality(Entered(f, s, 0)) = 0
  BY <1>1, FS_EmptySet
<1> QED
  BY <1>2, WrittenType

\* A write adds the number of its stage to its stream and nothing to another.
LEMMA WrittenOneMore ==
  ASSUME NEW f, NEW s \in Record, NEW k \in Nat
  PROVE  Written(f, s, k + 1) = IF Entries[s][k + 1] = f THEN Append(Written(f, s, k), s)
                                ELSE Written(f, s, k)
<1> DEFINE old == Entered(f, s, k)
           new == Entered(f, s, k + 1)
           c == Cardinality(old)
<1>1. IsFiniteSet(old) /\ c \in Nat
  BY EnteredFinite
<1>2. CASE Entries[s][k + 1] = f
  <2>1. new = old \cup {k + 1} /\ k + 1 \notin old
    BY <1>2 DEF Entered
  <2>2. Cardinality(new) = c + 1
    BY <1>1, <2>1, FS_AddElement
  <2>3. Written(f, s, k) = [i \in 1..c |-> s] /\ Written(f, s, k + 1) = [i \in 1..(c + 1) |-> s]
    BY <2>2 DEF Written, Entered
  <2> HIDE DEF c
  <2>4. [i \in 1..(c + 1) |-> s] = Append([i \in 1..c |-> s], s)
    BY <1>1
  <2> QED
    BY <1>2, <2>3, <2>4
<1>3. CASE Entries[s][k + 1] # f
  <2>1. new = old
    BY <1>3 DEF Entered
  <2> QED
    BY <1>3, <2>1 DEF Written, Entered
<1> QED
  BY <1>2, <1>3

\* The recursion of Expected, from its definition.
LEMMA ExpectedUpTo ==
  ASSUME NEW f
  PROVE  \E before \in [0..(LastStage + 1) -> Seq(Record)] :
           /\ before[0] = <<>>
           /\ \A t \in 1..(LastStage + 1) :
                before[t] = before[t - 1] \o Written(f, t - 1, Len(Entries[t - 1]))
           /\ \A s \in Record : Expected(f, s) = before[s + 1]
<1> DEFINE n == LastStage + 1
           S == Seq(Record)
           add(t) == Written(f, t - 1, Len(Entries[t - 1]))
           Line(u, t) == IF t = 0 THEN <<>> ELSE u[t - 1] \o add(t)
           Fits(u) == u = [t \in 0..n |-> Line(u, t)]
           step == [t \in 1..n |-> [r \in S |-> r \o add(t)]]
           none == <<>>
<1>1. n \in Nat /\ none \in S
  BY LargeStreamsAssumption
<1>2. \A t \in 1..n, r \in S : r \o add(t) \in S
  <2> TAKE t \in 1..n, r \in S
  <2>1. t - 1 \in Record
    BY LargeStreamsAssumption DEF Record
  <2>2. Entries[t - 1] \in Seq(Streams)
    BY <2>1, LargeStreamsAssumption DEF Record
  <2>3. Len(Entries[t - 1]) \in Nat
    BY <2>2
  <2>4. add(t) \in S
    BY <2>1, <2>3, WrittenType
  <2> HIDE DEF add
  <2> QED
    BY <2>4
<1>3. \A t \in 1..n : \A u : Line(u, t) = u[t - 1] \o add(t)
  <2> TAKE t \in 1..n
  <2>1. t # 0
    BY <1>1
  <2> HIDE DEF add
  <2> QED
    BY <2>1
<1>4. \A u : Line(u, 0) = none
  OBVIOUS
<1>5. \A s \in Record : Expected(f, s) = (CHOOSE u : Fits(u))[s + 1]
  BY DEF Expected
<1> HIDE DEF S, add, Line, none
<1>6. step \in Steps(n, S)
  BY <1>2 DEF Steps
<1>7. \A t \in 1..n, r \in S : step[t][r] = r \o add(t)
  OBVIOUS
<1> HIDE DEF step, n
<1>8. PICK u : Recursion(u, none, n, S, step)
  BY <1>1, <1>6, RecursionUpTo
<1>9. /\ u \in [0..n -> S] /\ u[0] = none
      /\ \A t \in 1..n : u[t] = u[t - 1] \o add(t)
  <2>1. u \in [0..n -> S] /\ u[0] = none /\ \A t \in 1..n : u[t] = step[t][u[t - 1]]
    BY <1>8 DEF Recursion
  <2>2. ASSUME NEW t \in 1..n
        PROVE  u[t] = u[t - 1] \o add(t)
    <3>1. u[t - 1] \in S
      BY <1>1, <2>1
    <3> QED
      BY <1>7, <2>1, <3>1, Zenon
  <2> QED
    BY <2>1, <2>2
<1>10. \A t \in 0..n : u[t] = Line(u, t)
  <2> TAKE t \in 0..n
  <2>1. t = 0 \/ t \in 1..n
    BY <1>1
  <2> QED
    BY <1>3, <1>4, <1>9, <2>1
<1>11. Fits(u)
  BY <1>9, <1>10
<1> DEFINE v == CHOOSE w : Fits(w)
<1> HIDE DEF Fits
<1>12. Fits(v)
  BY <1>11
<1> HIDE DEF v
<1>13. v = [t \in 0..n |-> Line(v, t)]
  BY <1>12 DEF Fits
<1>14. \A t \in 0..n : v[t] = Line(v, t)
  BY <1>13
<1>15. v[0] = none /\ \A t \in 1..n : v[t] = v[t - 1] \o add(t)
  <2>1. 0 \in 0..n /\ \A t \in 1..n : t \in 0..n
    BY <1>1
  <2> QED
    BY <1>3, <1>4, <1>14, <2>1, Zenon
<1>16. \A t \in 0..n : v[t] = u[t]
  <2>1. StaysAlike(v, u, n)
    BY <1>9, <1>15 DEF StaysAlike
  <2> QED
    BY <1>1, <2>1, SameFromZero DEF Alike
<1>17. \A s \in Record : s + 1 \in 0..n
  BY LargeStreamsAssumption DEF Record, n
<1>18. \A s \in Record : Expected(f, s) = u[s + 1]
  BY <1>5, <1>16, <1>17 DEF v
<1> QED
  BY <1>9, <1>18 DEF n, S, none, add

LEMMA ExpectedType ==
  ASSUME NEW f, NEW s \in Record
  PROVE  Expected(f, s) \in Seq(Record)
<1>1. s + 1 \in 0..(LastStage + 1)
  BY LargeStreamsAssumption DEF Record
<1> QED
  BY <1>1, ExpectedUpTo

LEMMA EarlierType ==
  ASSUME NEW f, NEW s \in Record
  PROVE  Earlier(f, s) \in Seq(Record)
<1>1. s # 0 => s - 1 \in Record
  BY LargeStreamsAssumption DEF Record
<1> QED
  BY <1>1, ExpectedType DEF Earlier

\* A stage adds what its writes add.
LEMMA ExpectedOneMore ==
  ASSUME NEW f, NEW s \in Record
  PROVE  Expected(f, s) = Earlier(f, s) \o Written(f, s, Len(Entries[s]))
<1>1. PICK before \in [0..(LastStage + 1) -> Seq(Record)] :
           /\ before[0] = <<>>
           /\ \A t \in 1..(LastStage + 1) :
                before[t] = before[t - 1] \o Written(f, t - 1, Len(Entries[t - 1]))
           /\ \A r \in Record : Expected(f, r) = before[r + 1]
  BY ExpectedUpTo
<1>2. s + 1 \in 1..(LastStage + 1) /\ (s + 1) - 1 = s
  BY LargeStreamsAssumption DEF Record
<1>3. Expected(f, s) = before[s] \o Written(f, s, Len(Entries[s]))
  BY <1>1, <1>2
<1>4. before[s] = Earlier(f, s)
  <2>1. s # 0 => s - 1 \in Record /\ (s - 1) + 1 = s
    BY LargeStreamsAssumption DEF Record
  <2> QED
    BY <1>1, <2>1 DEF Earlier
<1> QED
  BY <1>3, <1>4

-----------------------------------------------------------------------------
(***************************************************************************)
(* What the steps have in common.                                          *)
(***************************************************************************)

\* Opening, filling and closing a writer, for the set of the open ones.
LEMMA WriterOpens ==
  ASSUME TypeInv, NEW f \in Streams,
         writer' = [writer EXCEPT ![f] = [open |-> TRUE, buffer |-> <<>>]]
  PROVE  /\ OpenWriters' = OpenWriters \cup {f}
         /\ writer' \in [Streams -> [open : BOOLEAN, buffer : Seq(Record)]]
         /\ \A g \in Streams : writer'[g].buffer = IF g = f THEN <<>> ELSE writer[g].buffer
<1>1. [open |-> TRUE, buffer |-> <<>>] \in [open : BOOLEAN, buffer : Seq(Record)]
  OBVIOUS
<1>2. writer' \in [Streams -> [open : BOOLEAN, buffer : Seq(Record)]]
  BY <1>1 DEF TypeInv
<1>3. \A g \in Streams : g # f => writer'[g] = writer[g]
  BY DEF TypeInv
<1>4. writer'[f] = [open |-> TRUE, buffer |-> <<>>]
  BY DEF TypeInv
<1>5. writer'[f].open /\ writer'[f].buffer = <<>>
  BY <1>4
<1>6. \A g \in Streams : g # f => (writer'[g].open <=> writer[g].open)
  BY <1>3, Zenon
<1>7. OpenWriters' = OpenWriters \cup {f}
  BY <1>5, <1>6, Zenon DEF OpenWriters
<1> QED
  BY <1>2, <1>3, <1>5, <1>7

LEMMA WriterCloses ==
  ASSUME TypeInv, NEW f \in Streams, writer' = [writer EXCEPT ![f] = Closed]
  PROVE  /\ OpenWriters' = OpenWriters \ {f}
         /\ writer' \in [Streams -> [open : BOOLEAN, buffer : Seq(Record)]]
         /\ \A g \in Streams : writer'[g].buffer = IF g = f THEN <<>> ELSE writer[g].buffer
<1>1. Closed \in [open : BOOLEAN, buffer : Seq(Record)]
  BY DEF Closed
<1>2. writer' \in [Streams -> [open : BOOLEAN, buffer : Seq(Record)]]
  BY <1>1 DEF TypeInv
<1>3. \A g \in Streams : g # f => writer'[g] = writer[g]
  BY DEF TypeInv
<1>4. writer'[f] = Closed
  BY DEF TypeInv
<1>5. ~ writer'[f].open /\ writer'[f].buffer = <<>>
  BY <1>4 DEF Closed
<1>6. \A g \in Streams : g # f => (writer'[g].open <=> writer[g].open)
  BY <1>3, Zenon
<1>7. OpenWriters' = OpenWriters \ {f}
  BY <1>5, <1>6, Zenon DEF OpenWriters
<1> QED
  BY <1>2, <1>3, <1>5, <1>7

LEMMA WriterFills ==
  ASSUME TypeInv, NEW f \in Streams, NEW b \in Seq(Record),
         writer' = [writer EXCEPT ![f].buffer = b]
  PROVE  /\ OpenWriters' = OpenWriters
         /\ writer' \in [Streams -> [open : BOOLEAN, buffer : Seq(Record)]]
         /\ \A g \in Streams : writer'[g].buffer = IF g = f THEN b ELSE writer[g].buffer
<1>1. writer' \in [Streams -> [open : BOOLEAN, buffer : Seq(Record)]]
  BY DEF TypeInv
<1>2. \A g \in Streams : g # f => writer'[g] = writer[g]
  BY DEF TypeInv
<1>3. writer'[f] = [writer[f] EXCEPT !.buffer = b]
  BY DEF TypeInv
<1>4. (writer'[f].open <=> writer[f].open) /\ writer'[f].buffer = b
  <2>1. PICK w \in [open : BOOLEAN, buffer : Seq(Record)] : w = writer[f]
    BY DEF TypeInv
  <2>2. [w EXCEPT !.buffer = b].open = w.open /\ [w EXCEPT !.buffer = b].buffer = b
    OBVIOUS
  <2>3. writer'[f].open = writer[f].open /\ writer'[f].buffer = b
    BY <1>3, <2>1, <2>2, Zenon
  <2> QED
    BY <2>3, Zenon
<1>5. \A g \in Streams : writer'[g].open <=> writer[g].open
  BY <1>2, <1>4, Zenon
<1>6. OpenWriters' = OpenWriters
  BY <1>5, Zenon DEF OpenWriters
<1> QED
  BY <1>1, <1>2, <1>4, <1>6

\* The next stream to visit is one of the streams, the others remain.
LEMMA Visit ==
  ASSUME TypeInv, todo # <<>>, todo' = Tail(todo)
  PROVE  /\ Head(todo) \in Streams /\ todo' \in Seq(Streams)
         /\ Unvisited = {Head(todo)} \cup Unvisited'
<1>1. todo \in Seq(Streams)
  BY DEF TypeInv
<1>2. PICK t \in Seq(Streams) : t = todo
  BY <1>1
<1>3. t # <<>> => /\ Head(t) \in Streams /\ Tail(t) \in Seq(Streams)
                  /\ Range(t) = {Head(t)} \cup Range(Tail(t))
  <2> SUFFICES ASSUME t # <<>>
               PROVE  /\ Head(t) \in Streams /\ Tail(t) \in Seq(Streams)
                      /\ Range(t) = {Head(t)} \cup Range(Tail(t))
    OBVIOUS
  <2>1. /\ Head(t) \in Streams /\ Tail(t) \in Seq(Streams)
        /\ Len(t) \in Nat \ {0} /\ Len(Tail(t)) = Len(t) - 1 /\ Head(t) = t[1]
        /\ \A i \in 1..(Len(t) - 1) : Tail(t)[i] = t[i + 1]
    OBVIOUS
  <2>2. Range(t) = {t[i] : i \in 1..Len(t)}
    BY DEF Range
  <2>3. Range(Tail(t)) = {Tail(t)[i] : i \in 1..(Len(t) - 1)}
    <3>1. PICK u \in Seq(Streams) : u = Tail(t)
      BY <2>1
    <3>2. Range(u) = {u[i] : i \in 1..Len(u)}
      BY DEF Range
    <3> QED
      BY <2>1, <3>1, <3>2
  <2>4. \A i \in 1..Len(t) : i = 1 \/ (i - 1 \in 1..(Len(t) - 1) /\ (i - 1) + 1 = i)
    BY <2>1
  <2>5. \A i \in 1..Len(t) : t[i] \in {Head(t)} \cup Range(Tail(t))
    BY <2>1, <2>3, <2>4
  <2>6. \A i \in 1..(Len(t) - 1) : i + 1 \in 1..Len(t)
    BY <2>1
  <2>7. Range(Tail(t)) \subseteq Range(t)
    BY <2>1, <2>2, <2>3, <2>6
  <2>8. Head(t) \in Range(t)
    BY <2>1, <2>2
  <2>9. Range(t) \subseteq {Head(t)} \cup Range(Tail(t))
    BY <2>2, <2>5
  <2> QED
    BY <2>1, <2>7, <2>8, <2>9
<1> QED
  BY <1>2, <1>3 DEF Unvisited

LEMMA AllVisited ==
  todo = <<>> => Unvisited = {}
  BY DEF Unvisited, Range

LEMMA VisitAll ==
  StreamOrder \in Seq(Streams) /\ (todo = StreamOrder => Unvisited = Streams)
  BY LargeStreamsAssumption DEF Unvisited, Streams

\* Where a writer is open the file may grow.
LEMMA FilesGrow ==
  ASSUME IInv, NEW f \in Streams, f \in OpenWriters, NEW more \in Seq(Chunk),
         file' = [file EXCEPT ![f] = file[f] \o more],
         UNCHANGED <<ckpt, durable, losses>>
  PROVE  CheckpointInv' /\ file' \in [Streams -> Seq(Chunk)]
         /\ Len(file[f]) <= Len(file'[f])
<1> USE DEF IInv
<1>1. file' \in [Streams -> Seq(Chunk)]
  BY DEF TypeInv
<1>2. \A g \in Streams : /\ file'[g] = IF g = f THEN file[f] \o more ELSE file[g]
                         /\ Len(file[g]) <= Len(file'[g])
  BY DEF TypeInv
<1>3. ckpt.size[f] <= Len(file[f]) /\ durable.size[f] <= Len(file[f])
  BY DEF TypeInv, WriterInv, CheckpointInv, Checkpoints
<1>4. ASSUME NEW c \in Checkpoints, c.size[f] <= Len(file[f]), Sound(c),
             NEW g \in Streams, c.stages # -1, c.size[g] <= Len(file'[g])
      PROVE  Owned(file'[g], c.size[g], c.chain[g])
  <2>1. CASE g = f
    <3>1. Owned(file[f], c.size[f], c.chain[f])
      BY <1>4, <2>1 DEF Sound
    <3>2. c.size[f] \in Nat /\ file[f] \in Seq(Chunk)
      BY DEF Checkpoints, TypeInv
    <3> QED
      BY <1>2, <2>1, <3>1, <3>2, OwnedWhenLonger
  <2>2. CASE g # f
    BY <1>2, <1>4, <2>2 DEF Sound
  <2> QED
    BY <2>1, <2>2
<1>5. Sound(ckpt)' /\ Sound(durable)'
  BY <1>3, <1>4 DEF Sound, TypeInv, CheckpointInv
<1>6. losses' = 0 => \A g \in Streams : ckpt'.size[g] <= Len(file'[g])
  <2> SUFFICES ASSUME losses = 0, NEW g \in Streams
               PROVE  ckpt.size[g] <= Len(file'[g])
    OBVIOUS
  <2>1. ckpt.size[g] <= Len(file[g])
    BY DEF CheckpointInv
  <2>2. ckpt.size[g] \in Nat
    BY DEF TypeInv, Checkpoints
  <2>3. file[g] \in Seq(Chunk) /\ file'[g] \in Seq(Chunk)
    BY <1>1 DEF TypeInv
  <2>4. Len(file[g]) \in Nat
    BY <2>3
  <2>5. Len(file'[g]) \in Nat
    BY <2>3
  <2> QED
    BY <1>2, <2>1, <2>2, <2>4, <2>5
<1> QED
  BY <1>1, <1>2, <1>5, <1>6 DEF CheckpointInv

\* A resumed file is cut back to what the checkpoint says.
LEMMA FilesCutBack ==
  ASSUME IInv, NEW f \in Streams, ~TooShort(f),
         file' = [file EXCEPT ![f] = SubSeq(file[f], 1, ckpt.size[f])],
         UNCHANGED <<ckpt, durable, losses>>
  PROVE  /\ CheckpointInv' /\ file' \in [Streams -> Seq(Chunk)]
         /\ Len(file'[f]) = ckpt.size[f]
         /\ ckpt.stages # -1 => Records(file'[f]) = ckpt.chain[f]
<1> USE DEF IInv
<1>1. ckpt.size[f] \in 0..Len(file[f])
  BY DEF TooShort, TypeInv, Checkpoints
<1>2. file' \in [Streams -> Seq(Chunk)] /\ Len(file'[f]) = ckpt.size[f]
  BY <1>1 DEF TypeInv
<1>3. \A g \in Streams : file'[g] = IF g = f THEN SubSeq(file[f], 1, ckpt.size[f]) ELSE file[g]
  BY DEF TypeInv
<1>4. \A g \in Streams : durable.size[g] <= ckpt.size[g]
  BY DEF CheckpointInv
<1>5. ASSUME NEW c \in Checkpoints, c.size[f] <= ckpt.size[f], Sound(c),
             NEW g \in Streams, c.stages # -1, c.size[g] <= Len(file'[g])
      PROVE  Owned(file'[g], c.size[g], c.chain[g])
  <2>1. CASE g = f
    <3>a. c.size[f] \in Nat /\ file[f] \in Seq(Chunk)
      BY DEF Checkpoints, TypeInv
    <3>b. c.size[f] <= Len(file[f])
      <4>1. Len(file[f]) \in Nat
        BY <3>a
      <4> QED
        BY <1>1, <1>5, <3>a, <4>1
    <3>1. c.size[f] \in Nat /\ file[f] \in Seq(Chunk) /\ c.size[f] <= Len(file[f])
      BY <3>a, <3>b
    <3>2. Owned(file[f], c.size[f], c.chain[f])
      BY <1>5, <2>1, <3>1 DEF Sound
    <3> QED
      BY <1>1, <1>3, <1>5, <2>1, <3>1, <3>2, OwnedWhenShorter
  <2>2. CASE g # f
    BY <1>3, <1>5, <2>2 DEF Sound
  <2> QED
    BY <2>1, <2>2
<1>6. ckpt.size[f] <= ckpt.size[f] /\ durable.size[f] <= ckpt.size[f]
  BY <1>1, <1>4
<1>7. Sound(ckpt)' /\ Sound(durable)'
  BY <1>5, <1>6 DEF Sound, TypeInv, CheckpointInv
<1>8. losses' = 0 => \A g \in Streams : ckpt'.size[g] <= Len(file'[g])
  BY <1>1, <1>2, <1>3 DEF CheckpointInv, TypeInv
<1>9. ckpt.stages # -1 => Records(file'[f]) = ckpt.chain[f]
  BY <1>1, <1>3 DEF CheckpointInv, Sound, Owned
<1> QED
  BY <1>2, <1>4, <1>7, <1>8, <1>9 DEF CheckpointInv

\* A step that leaves the files, the writers and the chains alone.
LEMMA Quiet ==
  ASSUME IInv, UNCHANGED <<file, ckpt, durable, losses, writer, chain>>
  PROVE  CheckpointInv' /\ WriterInv' /\ OpenWriters' = OpenWriters
<1>1. OpenWriters' = OpenWriters
  BY DEF OpenWriters
<1>2. CheckpointInv'
  BY DEF IInv, CheckpointInv, Sound
<1>3. WriterInv'
  BY <1>1 DEF IInv, WriterInv
<1> QED
  BY <1>1, <1>2, <1>3

-----------------------------------------------------------------------------
(***************************************************************************)
(* Every step keeps the invariant.                                         *)
(***************************************************************************)

LEMMA InitStep == Init => IInv
<1> SUFFICES ASSUME Init PROVE IInv
  OBVIOUS
<1> USE DEF Init
<1>1. \A f \in Streams : writer[f] = Closed
  OBVIOUS
<1>2. OpenWriters = {}
  BY <1>1, Zenon DEF OpenWriters, Closed
<1>3. NoCheckpoint \in Checkpoints
  BY LargeStreamsAssumption DEF NoCheckpoint, Checkpoints, Chunk
<1>4. Closed \in [open : BOOLEAN, buffer : Seq(Record)]
  BY DEF Closed
<1>5. TypeInv
  <2>1. 0 \in Record /\ todo \in Seq(Streams)
    BY LargeStreamsAssumption DEF Record
  <2>2. file \in [Streams -> Seq(Chunk)] /\ chain \in [Streams -> Seq(Record)]
        /\ synced \in [Streams -> Nat]
    OBVIOUS
  <2>3. writer \in [Streams -> [open : BOOLEAN, buffer : Seq(Record)]]
    BY <1>4
  <2>4. resuming \in BOOLEAN /\ reopen \in BOOLEAN
    OBVIOUS
  <2> QED
    BY <1>3, <2>1, <2>2, <2>3, <2>4 DEF TypeInv
<1>6. NoCheckpoint.stages = -1 /\ \A f \in Streams : NoCheckpoint.size[f] = 0
  BY DEF NoCheckpoint
<1>7. CheckpointInv
  BY <1>6, LargeStreamsAssumption DEF CheckpointInv, Sound
<1>8. WriterInv
  BY <1>1, <1>2 DEF WriterInv, Closed
<1>9. DirInv /\ CadenceInv /\ OpenInv /\ WritingInv /\ BoundaryInv /\ EndInv
  BY <1>2, <1>6 DEF DirInv, CadenceInv, OpenInv, WritingInv, BoundaryInv, EndInv, AllClosed
<1> QED
  BY <1>5, <1>7, <1>8, <1>9 DEF IInv

LEMMA InvokeStep ==
  ASSUME IInv, NEW resume \in BOOLEAN, NEW interrupt, Invoke(resume, interrupt)
  PROVE  IInv'
<1> USE DEF IInv, Invoke, Goto
<1>1. /\ pc' = "open" /\ todo' = StreamOrder /\ dir' = "inprogress" /\ resuming' = resume
      /\ UNCHANGED <<ckpt, durable, reopen, writer, errors, kills, losses>>
  BY DEF faults
<1>2. OpenWriters' = OpenWriters /\ OpenWriters = {}
  BY <1>1 DEF OpenWriters, EndInv, AllClosed
<1>3. Unvisited' = Streams /\ StreamOrder \in Seq(Streams)
  BY <1>1, VisitAll DEF Unvisited, Streams
<1>4. CASE resume
  <2>1. ckpt.stages # -1 /\ ckpt.stages \in Record
    BY <1>4 DEF HasCheckpoint, TypeInv, Checkpoints, Chunk, Record
  <2>2. UNCHANGED <<file, synced>> /\ stages' = ckpt.stages /\ lastSaved' = ckpt.stages
        /\ chain' = ckpt.chain
    BY <1>4
  <2>3. TypeInv'
    BY <1>1, <1>3, <2>1, <2>2 DEF TypeInv, Checkpoints
  <2>4. CheckpointInv'
    BY <1>1, <2>2 DEF CheckpointInv, Sound
  <2>5. WriterInv' /\ EndInv'
    BY <1>1, <1>2, <1>3 DEF WriterInv, EndInv
  <2>6. DirInv' /\ CadenceInv'
    BY <1>1, <2>1, <2>2 DEF DirInv, CadenceInv
  <2>7. OpenInv' /\ WritingInv' /\ BoundaryInv'
    BY <1>1, <1>2, <1>3, <1>4, <2>2 DEF OpenInv, WritingInv, BoundaryInv, WriterInv
  <2> QED
    BY <2>3, <2>4, <2>5, <2>6, <2>7
<1>5. CASE ~resume
  <2>1. ckpt.stages = -1 /\ ckpt = NoCheckpoint /\ durable = NoCheckpoint
    BY <1>5 DEF DirInv, CheckpointInv, Sound
  <2>2. /\ file' = [f \in Streams |-> <<>>] /\ synced' = [f \in Streams |-> 0]
        /\ stages' = 0 /\ lastSaved' = 0 /\ chain' = ckpt.chain
    BY <1>5
  <2>3. TypeInv'
    <3>1. 0 \in Record /\ <<>> \in Seq(Chunk)
      BY LargeStreamsAssumption DEF Record
    <3>2. file' \in [Streams -> Seq(Chunk)] /\ synced' \in [Streams -> Nat]
      <4>1. file' \in [Streams -> Seq(Chunk)]
        BY <2>2, <3>1
      <4>2. synced' \in [Streams -> Nat]
        BY <2>2
      <4> QED
        BY <4>1, <4>2
    <3>3. chain' \in [Streams -> Seq(Record)]
      BY <2>2 DEF TypeInv, Checkpoints
    <3>4. stages' \in Record /\ lastSaved' \in Record
      BY <2>2, <3>1
    <3> QED
      BY <1>1, <1>3, <2>1, <3>2, <3>3, <3>4 DEF TypeInv
  <2>4. \A f \in Streams : ckpt.size[f] = 0 /\ ckpt.chain[f] = <<>>
    BY <2>1 DEF NoCheckpoint
  <2>5. CheckpointInv'
    BY <1>1, <2>1, <2>2, <2>4 DEF CheckpointInv, Sound
  <2>6. WriterInv' /\ EndInv'
    BY <1>1, <1>2, <1>3 DEF WriterInv, EndInv
  <2>7. DirInv' /\ CadenceInv'
    BY <1>1, <2>1, <2>2 DEF DirInv, CadenceInv
  <2>8. OpenInv' /\ WritingInv' /\ BoundaryInv'
    BY <1>1, <1>2, <1>3, <1>5, <2>1, <2>2 DEF OpenInv, WritingInv, BoundaryInv, WriterInv
  <2> QED
    BY <2>3, <2>5, <2>6, <2>7, <2>8
<1> QED
  BY <1>4, <1>5

LEMMA OpenWriterStep ==
  ASSUME IInv, OpenWriter
  PROVE  IInv'
<1> DEFINE f == Head(todo)
<1> USE DEF IInv, OpenWriter
<1>1. /\ f \in Streams /\ todo' \in Seq(Streams) /\ Unvisited = {f} \cup Unvisited'
      /\ pc \in {"open", "reopen"} /\ todo # <<>>
      /\ UNCHANGED <<dir, ckpt, durable, pc, resuming, interruptAfter, stages, lastSaved,
                     reopen, chain, errors, kills, losses>>
  BY Visit DEF memory, faults
<1> HIDE DEF f
<1>2. /\ OpenWriters' = OpenWriters \cup {f}
      /\ writer' \in [Streams -> [open : BOOLEAN, buffer : Seq(Record)]]
      /\ \A g \in Streams : writer'[g].buffer = IF g = f THEN <<>> ELSE writer[g].buffer
  BY <1>1, WriterOpens DEF ResumeWriter, f
<1>3. \A g \in Streams : writer[g].buffer = <<>>
  BY <1>1 DEF OpenInv, BoundaryInv
<1>4. \A g \in Streams : writer'[g].buffer = <<>>
  BY <1>2, <1>3
<1>5. /\ CheckpointInv' /\ file' \in [Streams -> Seq(Chunk)] /\ synced' \in [Streams -> Nat]
      /\ \A g \in Streams : g # f => file'[g] = file[g]
      /\ ckpt.size[f] <= Len(file'[f]) /\ Records(file'[f]) = chain[f]
      /\ ~resuming /\ pc = "open" => file' = file
  <2>1. CASE resuming \/ pc = "reopen"
    <3>1. /\ ~TooShort(f)
          /\ file' = [file EXCEPT ![f] = SubSeq(file[f], 1, ckpt.size[f])]
          /\ synced' = IF Len(file[f]) = ckpt.size[f] THEN synced
                       ELSE [synced EXCEPT ![f] = ckpt.size[f]]
      BY <2>1 DEF ResumeWriter, f
    <3>2. /\ CheckpointInv' /\ file' \in [Streams -> Seq(Chunk)]
          /\ Len(file'[f]) = ckpt.size[f]
          /\ ckpt.stages # -1 => Records(file'[f]) = ckpt.chain[f]
      BY <1>1, <3>1, FilesCutBack
    <3>3. ckpt.stages # -1 /\ ckpt.chain[f] = chain[f]
      <4>a. stages # -1
        BY LargeStreamsAssumption DEF TypeInv, Record
      <4>1. CASE pc = "open"
        <5>1. resuming /\ chain = ckpt.chain
          BY <2>1, <4>1 DEF OpenInv
        <5> QED
          BY <4>a, <4>1, <5>1 DEF OpenInv
      <4>2. CASE pc = "reopen"
        <5>1. ckpt.stages = stages /\ ckpt.stages # -1 /\ chain[f] = Expected(f, stages)
          BY <1>1, <4>a, <4>2 DEF BoundaryInv, AtBoundary
        <5> QED
          BY <1>1, <5>1 DEF CheckpointInv, Sound
      <4> QED
        BY <1>1, <4>1, <4>2
    <3>4. synced' \in [Streams -> Nat]
      BY <1>1, <3>1 DEF TypeInv, Checkpoints
    <3>5. ckpt.size[f] \in Nat
      BY <1>1 DEF TypeInv, Checkpoints
    <3> QED
      BY <1>1, <2>1, <3>1, <3>2, <3>3, <3>4, <3>5
  <2>2. CASE ~resuming /\ pc = "open"
    <3>1. UNCHANGED <<file, synced>>
      BY <2>2
    <3>2. CheckpointInv'
      BY <1>1, <3>1 DEF CheckpointInv, Sound
    <3>3. file[f] = <<>> /\ ckpt = NoCheckpoint /\ chain = ckpt.chain
      BY <1>1, <2>2 DEF OpenInv, CheckpointInv, Sound
    <3>4. chain[f] = <<>> /\ ckpt.size[f] = 0
      BY <1>1, <3>3 DEF NoCheckpoint
    <3>5. Len(file[f]) = 0 /\ Records(file[f]) = <<>>
      BY <3>3, RecordsOfNothing
    <3>6. file \in [Streams -> Seq(Chunk)] /\ synced \in [Streams -> Nat]
      BY DEF TypeInv
    <3> QED
      BY <3>1, <3>2, <3>4, <3>5, <3>6
  <2> QED
    BY <1>1, <2>1, <2>2
<1>6. TypeInv'
  BY <1>1, <1>2, <1>5 DEF TypeInv
<1>7. WriterInv'
  <2>1. ASSUME NEW g \in Streams
        PROVE  /\ g \in OpenWriters' => /\ Records(file'[g]) \o writer'[g].buffer = chain'[g]
                                        /\ ckpt'.size[g] <= Len(file'[g])
               /\ g \notin OpenWriters' => writer'[g].buffer = <<>>
    <3>1. CASE g = f
      <4>1. chain[f] \in Seq(Record)
        BY <1>1 DEF TypeInv
      <4>2. chain[f] \o <<>> = chain[f]
        BY <4>1
      <4> QED
        BY <1>1, <1>2, <1>4, <1>5, <3>1, <4>2
    <3>2. CASE g # f
      BY <1>1, <1>2, <1>5, <3>2 DEF WriterInv
    <3> QED
      BY <3>1, <3>2
  <2> QED
    BY <2>1 DEF WriterInv
<1>8. DirInv' /\ CadenceInv'
  BY <1>1 DEF DirInv, CadenceInv
<1>9. OpenInv'
  BY <1>1, <1>2, <1>4, <1>5 DEF OpenInv
<1>10. WritingInv' /\ BoundaryInv'
  BY <1>1, <1>2, <1>4 DEF WritingInv, BoundaryInv, AtBoundary
<1>11. EndInv'
  BY <1>1 DEF EndInv, DirInv
<1> QED
  BY <1>5, <1>6, <1>7, <1>8, <1>9, <1>10, <1>11

\* A record written behind is written behind the last of them.
LEMMA ConcatAppend ==
  ASSUME NEW a \in Seq(Record), NEW b \in Seq(Record), NEW r \in Record
  PROVE  a \o Append(b, r) = Append(a \o b, r)
<1>1. Append(b, r) = b \o <<r>> /\ <<r>> \in Seq(Record) /\ a \o b \in Seq(Record)
  BY AppendIsConcat
<1>2. Append(a \o b, r) = (a \o b) \o <<r>>
  BY <1>1, AppendIsConcat
<1> QED
  BY <1>1, <1>2, ConcatAssociative

\* Nothing of a stage is written yet ...
LEMMA PartwayBegins ==
  ASSUME NEW s \in Record, todo' = Entries[s], \A f \in Streams : chain'[f] = Earlier(f, s)
  PROVE  Partway(s)' /\ todo' \in Seq(Streams)
<1>1. PICK e \in Seq(Streams) : e = Entries[s]
  BY LargeStreamsAssumption DEF Record
<1>2. todo' = SubSeq(Entries[s], 0 + 1, Len(Entries[s])) /\ 0 \in 0..Len(Entries[s])
  <2>1. e = SubSeq(e, 0 + 1, Len(e)) /\ 0 \in 0..Len(e)
    OBVIOUS
  <2> QED
    BY <1>1, <2>1
<1>3. \A f \in Streams : chain'[f] = Earlier(f, s) \o Written(f, s, 0)
  <2> TAKE f \in Streams
  <2>1. Earlier(f, s) \o <<>> = Earlier(f, s)
    BY EarlierType
  <2> QED
    BY <2>1, WrittenNothing
<1> QED
  BY <1>1, <1>2, <1>3 DEF Partway

\* ... one write more ...
LEMMA PartwayGoesOn ==
  ASSUME TypeInv, NEW s \in Record, Partway(s), todo # <<>>, todo' = Tail(todo),
         chain' = [chain EXCEPT ![Head(todo)] = Append(chain[Head(todo)], s)]
  PROVE  Partway(s)'
<1>1. PICK k \in 0..Len(Entries[s]) :
         /\ todo = SubSeq(Entries[s], k + 1, Len(Entries[s]))
         /\ \A f \in Streams : chain[f] = Earlier(f, s) \o Written(f, s, k)
  BY DEF Partway
<1>2. PICK e \in Seq(Streams) : e = Entries[s]
  BY LargeStreamsAssumption DEF Record
<1>3. todo = SubSeq(e, k + 1, Len(e)) /\ k \in 0..Len(e)
  BY <1>1, <1>2
<1>4. k < Len(e)
  BY <1>3
<1>5. Head(todo) = e[k + 1] /\ Head(todo) \in Streams
      /\ Tail(todo) = SubSeq(e, (k + 1) + 1, Len(e)) /\ k + 1 \in 0..Len(e)
  BY <1>3, <1>4
<1>6. \A f \in Streams : chain'[f] = Earlier(f, s) \o Written(f, s, k + 1)
  <2> TAKE f \in Streams
  <2>1. Written(f, s, k + 1) = IF e[k + 1] = f THEN Append(Written(f, s, k), s)
                               ELSE Written(f, s, k)
    BY <1>2, <1>3, WrittenOneMore
  <2>2. CASE Head(todo) = f
    <3>1. chain'[f] = Append(Earlier(f, s) \o Written(f, s, k), s)
      BY <1>1, <1>5, <2>2 DEF TypeInv
    <3>2. Earlier(f, s) \in Seq(Record) /\ Written(f, s, k) \in Seq(Record)
      BY <1>3, EarlierType, WrittenType
    <3>3. PICK a \in Seq(Record), b \in Seq(Record) : a = Earlier(f, s) /\ b = Written(f, s, k)
      BY <3>2
    <3>4. Append(a \o b, s) = a \o Append(b, s)
      BY ConcatAppend
    <3> QED
      BY <1>5, <2>1, <2>2, <3>1, <3>3, <3>4
  <2>3. CASE Head(todo) # f
    BY <1>1, <1>5, <2>1, <2>3 DEF TypeInv
  <2> QED
    BY <2>2, <2>3
<1> QED
  BY <1>2, <1>5, <1>6 DEF Partway

\* ... until all of them are behind.
LEMMA PartwayEnds ==
  ASSUME NEW s \in Record, Partway(s), todo = <<>>
  PROVE  \A f \in Streams : chain[f] = Expected(f, s)
<1>1. PICK k \in 0..Len(Entries[s]) :
         /\ todo = SubSeq(Entries[s], k + 1, Len(Entries[s]))
         /\ \A f \in Streams : chain[f] = Earlier(f, s) \o Written(f, s, k)
  BY DEF Partway
<1>2. PICK e \in Seq(Streams) : e = Entries[s]
  BY LargeStreamsAssumption DEF Record
<1>3. <<>> = SubSeq(e, k + 1, Len(e)) /\ k \in 0..Len(e)
  BY <1>1, <1>2
<1>4. Len(SubSeq(e, k + 1, Len(e))) = Len(e) - k
  BY <1>3
<1>5. k = Len(Entries[s])
  <2>1. Len(e) \in Nat /\ Len(<<>>) = 0 /\ k \in 0..Len(e)
    BY <1>3
  <2>2. 0 = Len(e) - k
    BY <1>3, <1>4, <2>1
  <2>3. k = Len(e)
    BY <2>1, <2>2
  <2> QED
    BY <1>2, <2>3
<1> QED
  BY <1>1, <1>5, ExpectedOneMore

LEMMA OpenedStep ==
  ASSUME IInv, Opened
  PROVE  IInv'
<1> USE DEF IInv
<1>1. /\ UNCHANGED <<dir, file, synced, ckpt, durable, resuming, interruptAfter, stages,
                     lastSaved, reopen, writer, chain, errors, kills, losses>>
      /\ pc = "open" /\ todo = <<>>
  BY DEF Opened, Goto, files, memory, faults
<1>2. CheckpointInv' /\ WriterInv' /\ OpenWriters' = OpenWriters
  BY <1>1, Quiet
<1>3. AllOpen /\ AllOpen'
  BY <1>1, <1>2, AllVisited DEF OpenInv, AllOpen, OpenWriters
<1>4. DirInv'
  <2>1. pc' \in {"loop", "initial"}
    BY DEF Opened, Goto
  <2> QED
    BY <1>1, <2>1 DEF DirInv
<1>5. CASE resuming
  <2>1. pc' = "loop" /\ todo' = <<>>
    BY <1>5 DEF Opened, Goto
  <2>2. TypeInv'
    BY <1>1, <2>1 DEF TypeInv
  <2>3. stages = ckpt.stages /\ stages # -1 /\ chain = ckpt.chain
    BY <1>1, <1>5, LargeStreamsAssumption DEF OpenInv, TypeInv, Record
  <2>4. AtBoundary'
    BY <1>1, <2>3 DEF AtBoundary, CheckpointInv, Sound
  <2>5. Settled'
    <3>1. \A f \in Streams : writer[f].buffer = <<>> /\ Records(file[f]) \o <<>> = chain[f]
      BY <1>1, <1>3 DEF OpenInv, WriterInv, AllOpen
    <3>2. \A f \in Streams : Records(file[f]) \o <<>> = Records(file[f])
      BY RecordsType, ConcatEmptySeq DEF TypeInv
    <3> QED
      BY <1>1, <3>1, <3>2 DEF Settled
  <2>6. CadenceInv' /\ lastSaved' <= stages'
    BY <1>1, <2>1, <2>3 DEF CadenceInv, TypeInv, Record
  <2> QED
    BY <1>1, <1>2, <1>3, <1>4, <2>1, <2>2, <2>4, <2>5, <2>6
       DEF OpenInv, WritingInv, BoundaryInv, EndInv, DirInv
<1>6. CASE ~resuming
  <2>1. pc' = "initial" /\ todo' = Entries[0]
    BY <1>6 DEF Opened, Goto
  <2>2. stages = 0 /\ ckpt.stages = -1 /\ ckpt = NoCheckpoint /\ chain = ckpt.chain
    BY <1>1, <1>6 DEF OpenInv, CheckpointInv, Sound
  <2>3. 0 \in Record /\ \A f \in Streams : chain'[f] = Earlier(f, 0)
    BY <1>1, <2>2, LargeStreamsAssumption DEF Record, NoCheckpoint, Earlier
  <2>4. Partway(0)' /\ todo' \in Seq(Streams)
    BY <2>1, <2>3, PartwayBegins
  <2>5. TypeInv'
    BY <1>1, <2>1, <2>4 DEF TypeInv
  <2>6. CadenceInv'
    BY <1>1, <2>1 DEF CadenceInv
  <2> QED
    BY <1>1, <1>2, <1>3, <1>4, <2>1, <2>2, <2>4, <2>5, <2>6
       DEF OpenInv, WritingInv, BoundaryInv, EndInv, DirInv
<1> QED
  BY <1>5, <1>6

LEMMA BeginStageStep ==
  ASSUME IInv, BeginStage
  PROVE  IInv'
<1> USE DEF IInv
<1>1. /\ UNCHANGED <<dir, file, synced, ckpt, durable, resuming, interruptAfter, stages,
                     lastSaved, reopen, writer, chain, errors, kills, losses>>
      /\ pc = "loop" /\ pc' = "stage" /\ stages < LastStage /\ todo' = Entries[stages + 1]
  BY DEF BeginStage, Goto, files, memory, faults
<1>2. CheckpointInv' /\ WriterInv' /\ OpenWriters' = OpenWriters
  BY <1>1, Quiet
<1>3. stages + 1 \in Record /\ \A f \in Streams : chain'[f] = Earlier(f, stages + 1)
  BY <1>1, LargeStreamsAssumption DEF Record, TypeInv, BoundaryInv, AtBoundary, Earlier
<1>4. todo' \in Seq(Streams) /\ Partway(stages + 1)'
  <2>1. PICK s \in Record : s = stages + 1
    BY <1>3
  <2>2. \A f \in Streams : chain'[f] = Earlier(f, s)
    BY <1>3, <2>1
  <2>3. todo' \in Seq(Streams) /\ Partway(s)'
    BY <1>1, <2>1, <2>2, PartwayBegins
  <2> QED
    BY <1>1, <2>1, <2>3
<1>5. AllOpen' /\ lastSaved' <= stages'
  BY <1>1, <1>2, LargeStreamsAssumption DEF BoundaryInv, AllOpen, TypeInv, Record
<1>6. TypeInv'
  BY <1>1, <1>4 DEF TypeInv
<1>7. DirInv' /\ CadenceInv'
  BY <1>1 DEF DirInv, CadenceInv
<1> QED
  BY <1>1, <1>2, <1>4, <1>5, <1>6, <1>7 DEF OpenInv, WritingInv, BoundaryInv, EndInv, DirInv

LEMMA InitialWrittenStep ==
  ASSUME IInv, InitialWritten
  PROVE  IInv'
<1> USE DEF IInv
<1>1. /\ UNCHANGED <<dir, file, synced, ckpt, durable, resuming, interruptAfter, stages,
                     lastSaved, reopen, writer, chain, errors, kills, losses>>
      /\ pc = "initial" /\ pc' = "loop" /\ todo = <<>> /\ todo' = <<>>
  BY DEF InitialWritten, Goto, files, memory, faults
<1>2. CheckpointInv' /\ WriterInv' /\ OpenWriters' = OpenWriters
  BY <1>1, Quiet
<1>3. stages = 0 /\ ckpt.stages = -1 /\ AllOpen /\ Partway(0) /\ 0 \in Record
  BY <1>1, LargeStreamsAssumption DEF WritingInv, Record
<1>4. AtBoundary'
  <2>1. \A f \in Streams : chain[f] = Expected(f, 0)
    BY <1>1, <1>3, PartwayEnds
  <2> QED
    BY <1>1, <1>3, <2>1 DEF AtBoundary
<1>5. TypeInv' /\ CadenceInv' /\ lastSaved' <= stages'
  BY <1>1, <1>3 DEF TypeInv, CadenceInv
<1> QED
  BY <1>1, <1>2, <1>3, <1>4, <1>5
     DEF OpenInv, WritingInv, BoundaryInv, EndInv, DirInv, AllOpen

LEMMA WriteStep ==
  ASSUME IInv, Write
  PROVE  IInv'
<1> DEFINE f == Head(todo)
           s == IF pc = "initial" THEN 0 ELSE stages + 1
<1> USE DEF IInv
<1>1. /\ UNCHANGED <<dir, file, synced, ckpt, durable, pc, resuming, interruptAfter, stages,
                     lastSaved, reopen, errors, kills, losses>>
      /\ pc \in {"initial", "stage"} /\ todo # <<>> /\ todo' = Tail(todo)
      /\ f \in Streams /\ todo' \in Seq(Streams)
      /\ chain' = [chain EXCEPT ![f] = Append(chain[f], s)]
      /\ writer' = [writer EXCEPT ![f].buffer = Append(writer[f].buffer, s)]
  BY Visit DEF Write, files, memory, faults
<1>2. s \in Record /\ Partway(s) /\ AllOpen
  <2>1. CASE pc = "initial"
    BY <2>1, LargeStreamsAssumption DEF WritingInv, Record
  <2>2. CASE pc = "stage"
    <3>1. stages + 1 \in Record /\ s = stages + 1
      BY <2>2, LargeStreamsAssumption DEF WritingInv, Record, TypeInv
    <3> QED
      BY <2>2, <3>1 DEF WritingInv
  <2> QED
    BY <1>1, <2>1, <2>2
<1>3. Partway(s)'
  BY <1>1, <1>2, PartwayGoesOn
<1> HIDE DEF f
<1>4. Append(writer[f].buffer, s) \in Seq(Record) /\ chain' \in [Streams -> Seq(Record)]
  <2>1. writer[f].buffer \in Seq(Record) /\ chain[f] \in Seq(Record)
    BY <1>1 DEF TypeInv
  <2>2. Append(chain[f], s) \in Seq(Record)
    BY <1>2, <2>1
  <2> HIDE DEF s
  <2> QED
    BY <1>1, <1>2, <2>1, <2>2 DEF TypeInv
<1>5. PICK b \in Seq(Record) : b = Append(writer[f].buffer, s)
  BY <1>4
<1>6. /\ OpenWriters' = OpenWriters
      /\ writer' \in [Streams -> [open : BOOLEAN, buffer : Seq(Record)]]
      /\ \A g \in Streams : writer'[g].buffer = IF g = f THEN b ELSE writer[g].buffer
  BY <1>1, <1>5, WriterFills
<1>7. CheckpointInv'
  BY <1>1 DEF CheckpointInv, Sound
<1>8. WriterInv'
  <2> SUFFICES ASSUME NEW g \in Streams
               PROVE  Records(file[g]) \o writer'[g].buffer = chain'[g]
                      /\ ckpt.size[g] <= Len(file[g])
    BY <1>1, <1>2, <1>6 DEF WriterInv, AllOpen
  <2>1. Records(file[g]) \o writer[g].buffer = chain[g] /\ ckpt.size[g] <= Len(file[g])
    BY <1>2 DEF WriterInv, AllOpen
  <2>2. CASE g = f
    <3>1. PICK r \in Seq(Record), w \in Seq(Record) : r = Records(file[f]) /\ w = writer[f].buffer
      BY <1>1, RecordsType DEF TypeInv
    <3>2. r \o Append(w, s) = Append(r \o w, s)
      BY <1>2, ConcatAppend
    <3>3. chain'[f] = Append(chain[f], s)
      BY <1>1 DEF TypeInv
    <3> QED
      BY <1>5, <1>6, <2>1, <2>2, <3>1, <3>2, <3>3
  <2>3. CASE g # f
    BY <1>1, <1>6, <2>1, <2>3 DEF TypeInv
  <2> QED
    BY <2>2, <2>3
<1>9. WritingInv'
  <2>1. CASE pc = "initial"
    BY <1>1, <1>2, <1>3, <1>6, <2>1 DEF WritingInv, AllOpen
  <2>2. CASE pc = "stage"
    <3>1. Partway(stages + 1)'
      BY <1>1, <1>3, <2>2 DEF Partway
    <3> QED
      BY <1>1, <1>2, <1>6, <2>2, <3>1 DEF WritingInv, AllOpen
  <2> QED
    BY <1>1, <2>1, <2>2
<1>10. TypeInv' /\ CadenceInv'
  BY <1>1, <1>4, <1>6 DEF TypeInv, CadenceInv
<1> QED
  BY <1>1, <1>6, <1>7, <1>8, <1>9, <1>10 DEF OpenInv, BoundaryInv, EndInv, DirInv

LEMMA StageWrittenStep ==
  ASSUME IInv, StageWritten
  PROVE  IInv'
<1> USE DEF IInv
<1>1. /\ UNCHANGED <<dir, file, synced, ckpt, durable, resuming, interruptAfter,
                     lastSaved, reopen, writer, chain, errors, kills, losses>>
      /\ pc = "stage" /\ pc' = "flush" /\ todo = <<>> /\ todo' \in {StreamOrder, <<>>}
      /\ stages' = stages + 1
  BY DEF StageWritten, Goto, files, faults
<1>2. CheckpointInv' /\ WriterInv' /\ OpenWriters' = OpenWriters
  BY <1>1, Quiet
<1>3. stages < LastStage /\ AllOpen /\ Partway(stages + 1) /\ stages + 1 \in Record
      /\ lastSaved < stages + 1
  BY <1>1, LargeStreamsAssumption DEF WritingInv, BoundaryInv, Record, TypeInv
<1>4. AtBoundary'
  <2>1. \A f \in Streams : chain[f] = Expected(f, stages + 1)
    BY <1>1, <1>3, PartwayEnds
  <2> QED
    BY <1>1, <1>3, <2>1 DEF AtBoundary
<1>5. TypeInv' /\ CadenceInv' /\ DirInv'
  <2>1. StreamOrder \in Seq(Streams) /\ <<>> \in Seq(Streams)
    BY VisitAll
  <2>2. todo' \in Seq(Streams)
    BY <1>1, <2>1
  <2> QED
    BY <1>1, <1>3, <2>2 DEF TypeInv, CadenceInv, DirInv
<1> QED
  BY <1>1, <1>2, <1>3, <1>4, <1>5
     DEF OpenInv, WritingInv, BoundaryInv, EndInv, DirInv, AllOpen

LEMMA FlushStep ==
  ASSUME IInv, Flush
  PROVE  IInv'
<1> DEFINE f == Head(todo)
<1> USE DEF IInv
<1>1. /\ UNCHANGED <<dir, ckpt, durable, pc, resuming, interruptAfter, stages,
                     lastSaved, reopen, chain, errors, kills, losses>>
      /\ pc = "flush" /\ todo # <<>> /\ todo' = Tail(todo)
      /\ f \in Streams /\ todo' \in Seq(Streams)
      /\ file' = [file EXCEPT ![f] = file[f] \o writer[f].buffer]
      /\ synced' = [synced EXCEPT ![f] = Len(file[f] \o writer[f].buffer)]
      /\ writer' = [writer EXCEPT ![f].buffer = <<>>]
  BY Visit DEF Flush, memory, faults
<1> HIDE DEF f
<1>2. AllOpen /\ AtBoundary /\ f \in OpenWriters
  BY <1>1 DEF BoundaryInv, AllOpen
<1>3. file[f] \in Seq(Chunk) /\ writer[f].buffer \in Seq(Record)
  BY <1>1 DEF TypeInv
<1>4. \A r \in Record : r \in Chunk
  BY DEF Record, Chunk
<1>5. PICK a \in Seq(Chunk), b \in Seq(Record) : a = file[f] /\ b = writer[f].buffer
  BY <1>3
<1>6. b \in Seq(Chunk)
  BY <1>4
<1>7. CheckpointInv' /\ file' \in [Streams -> Seq(Chunk)] /\ Len(file[f]) <= Len(file'[f])
  BY <1>1, <1>2, <1>5, <1>6, FilesGrow
<1>8. /\ OpenWriters' = OpenWriters
      /\ writer' \in [Streams -> [open : BOOLEAN, buffer : Seq(Record)]]
      /\ \A g \in Streams : writer'[g].buffer = IF g = f THEN <<>> ELSE writer[g].buffer
  <2>1. PICK e \in Seq(Record) : e = <<>>
    <3>1. <<>> \in Seq(Record)
      OBVIOUS
    <3> QED
      BY <3>1
  <2> QED
    BY <1>1, <2>1, WriterFills
<1>9. WriterInv'
  <2> SUFFICES ASSUME NEW g \in Streams
               PROVE  Records(file'[g]) \o writer'[g].buffer = chain[g]
                      /\ ckpt.size[g] <= Len(file'[g])
    BY <1>1, <1>2, <1>8 DEF WriterInv, AllOpen
  <2>1. Records(file[g]) \o writer[g].buffer = chain[g] /\ ckpt.size[g] <= Len(file[g])
    BY <1>2 DEF WriterInv, AllOpen
  <2>2. CASE g = f
    <3>1. Records(a \o b) = Records(a) \o b
      BY RecordsConcat
    <3>2. Records(a) \o b \in Seq(Record)
      BY RecordsType
    <3>3. (Records(a) \o b) \o <<>> = Records(a) \o b
      BY <3>2
    <3>4. file'[f] = a \o b
      BY <1>1, <1>5 DEF TypeInv
    <3>5. ckpt.size[f] \in Nat
      BY <1>1 DEF TypeInv, Checkpoints
    <3>6. Len(file[f]) \in Nat
      BY <1>3
    <3>7. Len(file'[f]) \in Nat
      BY <1>1, <1>7
    <3>8. ckpt.size[f] <= Len(file'[f])
      BY <1>7, <2>1, <2>2, <3>5, <3>6, <3>7
    <3>9. Records(file'[f]) \o writer'[f].buffer = Records(a) \o b
      BY <1>1, <1>8, <3>1, <3>3, <3>4
    <3> QED
      BY <1>5, <2>1, <2>2, <3>8, <3>9
  <2>3. CASE g # f
    BY <1>1, <1>8, <2>1, <2>3 DEF TypeInv
  <2> QED
    BY <2>2, <2>3
<1>10. TypeInv'
  <2>1. Len(file[f] \o writer[f].buffer) \in Nat
    <3>1. Len(a \o b) \in Nat
      BY <1>6
    <3> QED
      BY <1>5, <3>1
  <2>2. synced' \in [Streams -> Nat]
    BY <1>1, <2>1 DEF TypeInv
  <2> QED
    BY <1>1, <1>7, <1>8, <2>2 DEF TypeInv
<1>11. BoundaryInv'
  BY <1>1, <1>2, <1>8 DEF BoundaryInv, AllOpen, AtBoundary
<1> QED
  BY <1>1, <1>7, <1>9, <1>10, <1>11
     DEF OpenInv, WritingInv, EndInv, DirInv, CadenceInv

LEMMA SpillStep ==
  ASSUME IInv, NEW f \in Streams, Spill(f)
  PROVE  IInv'
<1> USE DEF IInv
<1>1. /\ UNCHANGED <<dir, synced, ckpt, durable, pc, todo, resuming, interruptAfter, stages,
                     lastSaved, reopen, chain, errors, kills, losses>>
      /\ pc # "idle" /\ writer[f].buffer # <<>>
      /\ file' = [file EXCEPT ![f] = Append(file[f], Head(writer[f].buffer))]
      /\ writer' = [writer EXCEPT ![f].buffer = Tail(writer[f].buffer)]
  BY DEF Spill, memory, faults
<1>2. PICK a \in Seq(Chunk), b \in Seq(Record) : a = file[f] /\ b = writer[f].buffer
  BY DEF TypeInv
<1>3. f \in OpenWriters
  BY <1>1 DEF WriterInv
<1>4. pc \notin {"open", "sync", "reopen", "exit"} /\ ~Settled
  BY <1>1 DEF OpenInv, BoundaryInv, EndInv, Settled
<1>5. dir # "published"
  BY <1>1, <1>4 DEF DirInv
<1>6. Head(b) \in Record /\ Tail(b) \in Seq(Record)
  BY <1>1, <1>2
<1>7. Head(b) \in Chunk /\ Head(b) # EndOfMember
  BY <1>6, LargeStreamsAssumption DEF Record, Chunk, EndOfMember
<1>8. Append(a, Head(b)) = a \o <<Head(b)>> /\ <<Head(b)>> \in Seq(Chunk)
  BY <1>7, AppendIsConcat
<1>9. CheckpointInv' /\ file' \in [Streams -> Seq(Chunk)] /\ Len(file[f]) <= Len(file'[f])
  <2>1. PICK more \in Seq(Chunk) : more = <<Head(b)>>
    BY <1>8
  <2>2. file' = [file EXCEPT ![f] = file[f] \o more]
    BY <1>1, <1>2, <1>8, <2>1
  <2> QED
    BY <1>1, <1>3, <2>2, FilesGrow
<1>10. /\ OpenWriters' = OpenWriters
       /\ writer' \in [Streams -> [open : BOOLEAN, buffer : Seq(Record)]]
       /\ \A g \in Streams : writer'[g].buffer = IF g = f THEN Tail(b) ELSE writer[g].buffer
  <2>1. PICK e \in Seq(Record) : e = Tail(b)
    BY <1>6
  <2> QED
    BY <1>1, <1>2, <2>1, WriterFills
<1>11. Records(file'[f]) \o Tail(b) = chain[f]
  <2>1. file'[f] = Append(a, Head(b))
    BY <1>1, <1>2 DEF TypeInv
  <2>2. Records(Append(a, Head(b))) = Append(Records(a), Head(b))
    BY <1>7, RecordsAppend DEF Keep
  <2>3. PICK r \in Seq(Record), h \in Record, t \in Seq(Record) :
          r = Records(a) /\ h = Head(b) /\ t = Tail(b)
    BY <1>6, RecordsType
  <2>4. Append(r, h) = r \o <<h>> /\ <<h>> \in Seq(Record)
    BY AppendIsConcat
  <2>5. (r \o <<h>>) \o t = r \o (<<h>> \o t)
    BY <2>4, ConcatAssociative
  <2>6. b = <<Head(b)>> \o Tail(b)
    <3>1. b # <<>>
      BY <1>1, <1>2
    <3>2. Len(<<h>> \o t) = Len(b)
      BY <2>3, <3>1
    <3>3. \A i \in 1..Len(b) : (<<h>> \o t)[i] = b[i]
      BY <2>3, <3>1
    <3>4. <<h>> \o t \in Seq(Record)
      BY <2>4
    <3> QED
      BY <2>3, <3>2, <3>3, <3>4, SeqEqual
  <2>7. Records(a) \o b = chain[f]
    BY <1>2, <1>3 DEF WriterInv
  <2> QED
    BY <2>1, <2>2, <2>3, <2>4, <2>5, <2>6, <2>7
<1>12. WriterInv'
  <2> SUFFICES ASSUME NEW g \in Streams
               PROVE  /\ g \in OpenWriters => /\ Records(file'[g]) \o writer'[g].buffer = chain[g]
                                              /\ ckpt.size[g] <= Len(file'[g])
                      /\ g \notin OpenWriters => writer'[g].buffer = <<>>
    BY <1>1, <1>10 DEF WriterInv
  <2>1. CASE g = f
    <3>a. ckpt.size[f] \in Nat
      BY DEF TypeInv, Checkpoints
    <3>b. file[f] \in Seq(Chunk) /\ file'[f] \in Seq(Chunk)
      BY <1>9 DEF TypeInv
    <3>c. Len(file[f]) \in Nat
      BY <3>b
    <3>d. Len(file'[f]) \in Nat
      BY <3>b
    <3>1. ckpt.size[f] \in Nat /\ Len(file[f]) \in Nat /\ Len(file'[f]) \in Nat
      BY <3>a, <3>c, <3>d
    <3>2. ckpt.size[f] <= Len(file[f])
      BY <1>3 DEF WriterInv
    <3>3. ckpt.size[f] <= Len(file'[f])
      BY <1>9, <3>1, <3>2
    <3> QED
      BY <1>3, <1>10, <1>11, <2>1, <3>3
  <2>2. CASE g # f
    BY <1>1, <1>10, <2>2 DEF WriterInv, TypeInv
  <2> QED
    BY <2>1, <2>2
<1>13. TypeInv' /\ DirInv' /\ CadenceInv' /\ OpenInv'
  BY <1>1, <1>4, <1>9, <1>10 DEF TypeInv, DirInv, CadenceInv, OpenInv
<1>14. WritingInv'
  <2>1. (Partway(0) => Partway(0)') /\ (Partway(stages + 1) => Partway(stages + 1)')
    BY <1>1 DEF Partway
  <2> QED
    BY <1>1, <1>10, <2>1 DEF WritingInv, AllOpen
<1>15. BoundaryInv'
  <2>1. pc = "close" => \A g \in Streams \ OpenWriters : Ended(g)'
    <3>1. \A g \in Streams \ OpenWriters : file'[g] = file[g]
      BY <1>1, <1>3 DEF TypeInv
    <3> QED
      BY <1>1, <3>1 DEF BoundaryInv, Ended
  <2>2. (AtBoundary => AtBoundary') /\ (AllOpen => AllOpen') /\ (AllClosed => AllClosed')
    BY <1>1, <1>10 DEF AtBoundary, AllOpen, AllClosed
  <2> QED
    BY <1>1, <1>4, <1>10, <2>1, <2>2 DEF BoundaryInv
<1>16. EndInv'
  BY <1>1, <1>4, <1>5, <1>10 DEF EndInv, Unvisited
<1> QED
  BY <1>9, <1>12, <1>13, <1>14, <1>15, <1>16

\* Before a save something is new, and every writer is open.
LEMMA SaveBoundaryStep ==
  ASSUME IInv, NEW again \in BOOLEAN, SaveBoundary(again),
         pc \in {"flush", "interrupt", "loop"}, lastSaved < stages,
         again \/ stages = LastStage
  PROVE  IInv'
<1> USE DEF IInv
<1>1. /\ UNCHANGED <<dir, file, synced, ckpt, durable, resuming, interruptAfter, stages,
                     lastSaved, writer, chain, errors, kills, losses>>
      /\ pc' = "close" /\ todo' = StreamOrder /\ reopen' = again
  BY DEF SaveBoundary, Goto, files, faults
<1>2. CheckpointInv' /\ WriterInv' /\ OpenWriters' = OpenWriters
  BY <1>1, Quiet
<1>3. Unvisited' = Streams /\ StreamOrder \in Seq(Streams)
  BY <1>1, VisitAll DEF Unvisited, Streams
<1>4. TypeInv' /\ DirInv'
  BY <1>1, <1>3 DEF TypeInv, DirInv
<1>5. CadenceInv /\ CadenceInv' /\ ckpt.stages # stages
  <2>1. lastSaved = IF ckpt.stages = -1 THEN 0 ELSE ckpt.stages
    BY DEF CadenceInv
  <2>2. stages \in Record /\ lastSaved \in Record
    BY DEF TypeInv
  <2>3. ckpt.stages # stages
    BY <2>1, <2>2, LargeStreamsAssumption DEF Record
  <2> QED
    BY <1>1, <2>1, <2>3 DEF CadenceInv
<1>6. AllOpen /\ AtBoundary
  BY <1>5 DEF BoundaryInv
<1>7. AllOpen' /\ AtBoundary'
  BY <1>1, <1>2, <1>6 DEF AllOpen, AtBoundary
<1>8. OpenInv' /\ WritingInv' /\ BoundaryInv'
  BY <1>1, <1>2, <1>7 DEF OpenInv, WritingInv, BoundaryInv, AllOpen
<1>9. EndInv'
  BY <1>1, <1>2, <1>3, <1>6 DEF EndInv, DirInv, AllOpen
<1> QED
  BY <1>2, <1>4, <1>5, <1>8, <1>9

LEMMA CadenceDueStep ==
  ASSUME IInv, CadenceDue
  PROVE  IInv'
<1>1. pc = "flush" /\ SaveBoundary(stages < LastStage)
  BY DEF CadenceDue
<1>2. lastSaved < stages
  BY <1>1 DEF IInv, BoundaryInv
<1>3. stages < LastStage \/ stages = LastStage
  BY LargeStreamsAssumption DEF IInv, TypeInv, Record
<1>4. CASE stages < LastStage
  <2>1. SaveBoundary(TRUE)
    BY <1>1, <1>4 DEF SaveBoundary
  <2> QED
    BY <1>1, <1>2, <2>1, SaveBoundaryStep
<1>5. CASE ~(stages < LastStage)
  <2>1. (stages < LastStage) = FALSE
    BY <1>5
  <2>2. SaveBoundary(FALSE)
    BY <1>1, <2>1 DEF SaveBoundary
  <2> QED
    BY <1>1, <1>2, <1>3, <1>5, <2>2, SaveBoundaryStep
<1> QED
  BY <1>4, <1>5

LEMMA SaveForInterruptStep ==
  ASSUME IInv, SaveForInterrupt
  PROVE  IInv'
<1>1. pc = "interrupt" /\ SaveBoundary(TRUE) /\ lastSaved # stages
  BY DEF SaveForInterrupt
<1>2. lastSaved < stages
  BY <1>1, LargeStreamsAssumption DEF IInv, BoundaryInv, TypeInv, Record
<1> QED
  BY <1>1, <1>2, SaveBoundaryStep

LEMMA SaveFinalStep ==
  ASSUME IInv, SaveFinal
  PROVE  IInv'
<1>1. pc = "loop" /\ SaveBoundary(FALSE) /\ lastSaved # stages /\ stages = LastStage
  BY DEF SaveFinal
<1>2. lastSaved < stages
  BY <1>1, LargeStreamsAssumption DEF IInv, BoundaryInv, TypeInv, Record
<1> QED
  BY <1>1, <1>2, SaveBoundaryStep

LEMMA CadenceNotDueStep ==
  ASSUME IInv, CadenceNotDue
  PROVE  IInv'
<1> USE DEF IInv
<1>1. /\ UNCHANGED <<dir, file, synced, ckpt, durable, resuming, interruptAfter, stages,
                     lastSaved, reopen, writer, chain, errors, kills, losses>>
      /\ pc = "flush" /\ pc' = "interrupt" /\ todo' = <<>>
  BY DEF CadenceNotDue, Goto, files, memory, faults
<1>2. CheckpointInv' /\ WriterInv' /\ OpenWriters' = OpenWriters
  BY <1>1, Quiet
<1>3. TypeInv' /\ DirInv' /\ CadenceInv'
  BY <1>1 DEF TypeInv, DirInv, CadenceInv
<1>4. AllOpen /\ AtBoundary /\ lastSaved < stages
  BY <1>1 DEF BoundaryInv
<1>5. lastSaved <= stages /\ ckpt.stages # stages
  <2>1. lastSaved = IF ckpt.stages = -1 THEN 0 ELSE ckpt.stages
    BY <1>1 DEF CadenceInv
  <2>2. stages \in Record /\ lastSaved \in Record
    BY DEF TypeInv
  <2> QED
    BY <1>4, <2>1, <2>2, LargeStreamsAssumption DEF Record
<1>6. AllOpen' /\ AtBoundary'
  BY <1>1, <1>2, <1>4 DEF AllOpen, AtBoundary
<1>7. OpenInv' /\ WritingInv' /\ BoundaryInv' /\ EndInv'
  BY <1>1, <1>5, <1>6 DEF OpenInv, WritingInv, BoundaryInv, EndInv, DirInv
<1> QED
  BY <1>2, <1>3, <1>7

LEMMA NoInterruptStep ==
  ASSUME IInv, NoInterrupt
  PROVE  IInv'
<1> USE DEF IInv
<1>1. /\ UNCHANGED <<dir, file, synced, ckpt, durable, resuming, interruptAfter, stages,
                     lastSaved, reopen, writer, chain, errors, kills, losses>>
      /\ pc = "interrupt" /\ pc' = "loop" /\ todo' = <<>>
  BY DEF NoInterrupt, Goto, files, memory, faults
<1>2. CheckpointInv' /\ WriterInv' /\ OpenWriters' = OpenWriters
  BY <1>1, Quiet
<1>3. TypeInv' /\ DirInv' /\ CadenceInv'
  BY <1>1 DEF TypeInv, DirInv, CadenceInv
<1>4. OpenInv' /\ WritingInv' /\ EndInv'
  BY <1>1 DEF OpenInv, WritingInv, EndInv, DirInv
<1>5. (AllOpen => AllOpen') /\ (AllClosed => AllClosed')
      /\ (AtBoundary => AtBoundary') /\ (Settled => Settled')
  BY <1>1, <1>2 DEF AllOpen, AllClosed, AtBoundary, Settled
<1>6. BoundaryInv'
  BY <1>1, <1>5 DEF BoundaryInv
<1> QED
  BY <1>2, <1>3, <1>4, <1>6

LEMMA ReopenedStep ==
  ASSUME IInv, Reopened
  PROVE  IInv'
<1> USE DEF IInv
<1>1. /\ UNCHANGED <<dir, file, synced, ckpt, durable, resuming, interruptAfter, stages,
                     lastSaved, reopen, writer, chain, errors, kills, losses>>
      /\ pc = "reopen" /\ pc' = "interrupt" /\ todo = <<>> /\ todo' = <<>>
  BY DEF Reopened, Goto, files, memory, faults
<1>2. CheckpointInv' /\ WriterInv' /\ OpenWriters' = OpenWriters
  BY <1>1, Quiet
<1>3. TypeInv' /\ DirInv' /\ CadenceInv'
  BY <1>1 DEF TypeInv, DirInv, CadenceInv
<1>4. OpenInv' /\ WritingInv' /\ EndInv'
  BY <1>1 DEF OpenInv, WritingInv, EndInv, DirInv
<1>5. AllOpen /\ AllOpen' /\ AtBoundary'
  BY <1>1, <1>2, AllVisited DEF BoundaryInv, AllOpen, OpenWriters, AtBoundary
<1>6. lastSaved <= stages
  <2>1. ckpt.stages = stages /\ stages # -1 /\ stages \in Record
    BY <1>1, LargeStreamsAssumption DEF BoundaryInv, TypeInv, Record
  <2> QED
    BY <1>1, <2>1 DEF CadenceInv, Record
<1>7. Settled'
  <2>1. \A f \in Streams : writer[f].buffer = <<>> /\ Records(file[f]) \o <<>> = chain[f]
    BY <1>1, <1>5 DEF BoundaryInv, WriterInv, AllOpen
  <2>2. \A f \in Streams : Records(file[f]) \o <<>> = Records(file[f])
    BY RecordsType, ConcatEmptySeq DEF TypeInv
  <2> QED
    BY <1>1, <2>1, <2>2 DEF Settled
<1>8. BoundaryInv'
  BY <1>1, <1>5, <1>6, <1>7 DEF BoundaryInv
<1> QED
  BY <1>2, <1>3, <1>4, <1>8

LEMMA SyncDirectoryStep ==
  ASSUME IInv, SyncDirectory
  PROVE  IInv'
<1> USE DEF IInv
<1>1. /\ UNCHANGED <<dir, file, synced, ckpt, resuming, interruptAfter, stages, reopen,
                     writer, chain, errors, kills, losses>>
      /\ pc = "sync" /\ lastSaved' = stages /\ durable' \in {ckpt, durable}
      /\ \/ reopen /\ pc' = "reopen" /\ todo' = StreamOrder
         \/ ~reopen /\ pc' = "interrupt" /\ todo' = <<>>
  BY DEF SyncDirectory, Goto, faults
<1>2. OpenWriters' = OpenWriters /\ WriterInv'
  BY <1>1 DEF OpenWriters, WriterInv
<1>3. CheckpointInv'
  <2>1. Sound(ckpt)' /\ Sound(durable)'
    BY <1>1 DEF CheckpointInv, Sound
  <2>2. \A f \in Streams : ckpt.size[f] <= ckpt.size[f]
    BY DEF TypeInv, Checkpoints
  <2> QED
    BY <1>1, <2>1, <2>2 DEF CheckpointInv
<1>4. StreamOrder \in Seq(Streams) /\ <<>> \in Seq(Streams)
  BY VisitAll
<1>5. TypeInv' /\ DirInv'
  BY <1>1, <1>4 DEF TypeInv, DirInv
<1>6. ckpt.stages = stages /\ stages \in Record /\ stages # -1 /\ AllClosed /\ AtBoundary /\ Settled
  BY <1>1, LargeStreamsAssumption DEF BoundaryInv, TypeInv, Record
<1>7. CadenceInv' /\ lastSaved' <= stages'
  BY <1>1, <1>6 DEF CadenceInv, Record
<1>8. AtBoundary' /\ AllClosed' /\ Settled' /\ \A f \in Streams : writer[f].buffer = <<>>
  BY <1>1, <1>2, <1>6 DEF AtBoundary, AllClosed, Settled
<1>9. BoundaryInv'
  <2>1. CASE reopen
    <3>1. Unvisited' = Streams /\ pc' = "reopen"
      BY <1>1, <2>1, VisitAll DEF Unvisited, Streams
    <3> QED
      BY <1>1, <1>6, <1>8, <3>1 DEF BoundaryInv
  <2>2. CASE ~reopen
    BY <1>1, <1>6, <1>7, <1>8, <2>2 DEF BoundaryInv
  <2> QED
    BY <2>1, <2>2
<1>10. OpenInv' /\ WritingInv' /\ EndInv'
  BY <1>1, <1>6 DEF OpenInv, WritingInv, EndInv, DirInv
<1> QED
  BY <1>2, <1>3, <1>5, <1>7, <1>9, <1>10

\* At the last stage everything saved is on its way to the files.
LEMMA SavedInFull ==
  ASSUME IInv, pc = "loop", stages = LastStage, lastSaved = stages
  PROVE  /\ ckpt.stages = LastStage /\ dir = "inprogress"
         /\ \A f \in Streams : writer[f].buffer = <<>>
                               /\ Records(file[f]) = Expected(f, LastStage)
<1> USE DEF IInv
<1>1. lastSaved = IF ckpt.stages = -1 THEN 0 ELSE ckpt.stages
  BY DEF CadenceInv
<1>2. ckpt.stages = LastStage
  BY <1>1, LargeStreamsAssumption
<1>3. Settled /\ AtBoundary
  BY <1>2 DEF BoundaryInv
<1> QED
  BY <1>2, <1>3 DEF Settled, AtBoundary, DirInv, TypeInv

LEMMA PublishStep ==
  ASSUME IInv, Publish
  PROVE  IInv'
<1> USE DEF IInv
<1>1. /\ UNCHANGED <<file, synced, ckpt, durable, resuming, interruptAfter, stages,
                     lastSaved, reopen, writer, chain, errors, kills, losses>>
      /\ pc = "loop" /\ stages = LastStage /\ lastSaved = stages
      /\ pc' = "exit" /\ dir' = "published" /\ todo' = StreamOrder
  BY DEF Publish, Goto, memory, faults
<1>2. CheckpointInv' /\ WriterInv' /\ OpenWriters' = OpenWriters
  BY <1>1, Quiet
<1>3. Unvisited' = Streams /\ StreamOrder \in Seq(Streams)
  BY <1>1, VisitAll DEF Unvisited, Streams
<1>4. TypeInv' /\ DirInv' /\ CadenceInv'
  BY <1>1, <1>3 DEF TypeInv, DirInv, CadenceInv
<1>5. \A f \in Streams : writer[f].buffer = <<>> /\ Records(file[f]) = Expected(f, LastStage)
  BY <1>1, SavedInFull
<1>6. EndInv'
  BY <1>1, <1>2, <1>3, <1>5 DEF EndInv, OpenWriters
<1>7. OpenInv' /\ WritingInv' /\ BoundaryInv'
  BY <1>1 DEF OpenInv, WritingInv, BoundaryInv
<1> QED
  BY <1>2, <1>4, <1>6, <1>7

LEMMA ExitStep ==
  ASSUME IInv, Exit
  PROVE  IInv'
<1> USE DEF IInv
<1>1. /\ UNCHANGED <<dir, file, synced, ckpt, durable, resuming, interruptAfter, stages,
                     lastSaved, reopen, writer, chain, errors, kills, losses>>
      /\ pc = "exit" /\ todo = <<>> /\ pc' = "idle" /\ todo' = <<>>
  BY DEF Exit, Goto, files, memory, faults
<1>2. CheckpointInv' /\ WriterInv' /\ OpenWriters' = OpenWriters
  BY <1>1, Quiet
<1>3. OpenWriters = {}
  BY <1>1, AllVisited DEF EndInv
<1>4. TypeInv' /\ DirInv' /\ CadenceInv'
  BY <1>1 DEF TypeInv, DirInv, CadenceInv
<1>5. OpenInv' /\ WritingInv' /\ BoundaryInv' /\ EndInv'
  BY <1>1, <1>2, <1>3 DEF OpenInv, WritingInv, BoundaryInv, EndInv, AllClosed
<1> QED
  BY <1>2, <1>4, <1>5

LEMMA UnwoundStep ==
  ASSUME IInv, Unwound
  PROVE  IInv'
<1> USE DEF IInv
<1>1. /\ UNCHANGED <<file, synced, ckpt, durable, resuming, interruptAfter, stages,
                     lastSaved, reopen, writer, chain, errors, kills, losses>>
      /\ pc = "unwind" /\ todo = <<>> /\ pc' = "idle" /\ todo' = <<>>
      /\ dir' = IF dir = "inprogress" /\ ~HasCheckpoint THEN "absent" ELSE dir
  BY DEF Unwound, Goto, memory, faults
<1>2. CheckpointInv' /\ WriterInv' /\ OpenWriters' = OpenWriters
  BY <1>1, Quiet
<1>3. OpenWriters = {}
  BY <1>1, AllVisited DEF EndInv
<1>4. dir = "inprogress"
  BY <1>1 DEF DirInv, TypeInv
<1>5. HasCheckpoint <=> ckpt.stages # -1
  BY LargeStreamsAssumption DEF HasCheckpoint, TypeInv, Checkpoints, Chunk
<1>6. TypeInv' /\ CadenceInv'
  BY <1>1, <1>4 DEF TypeInv, CadenceInv
<1>7. DirInv'
  BY <1>1, <1>4, <1>5 DEF DirInv
<1>8. dir' # "published"
  BY <1>1, <1>4
<1>9. OpenInv' /\ WritingInv' /\ BoundaryInv' /\ EndInv'
  BY <1>1, <1>2, <1>3, <1>8 DEF OpenInv, WritingInv, BoundaryInv, EndInv, AllClosed
<1> QED
  BY <1>2, <1>6, <1>7, <1>9

\* An exception, whichever it is.
LEMMA UnwindingStep ==
  ASSUME IInv, pc \notin {"idle", "unwind", "exit"}, Goto("unwind", StreamOrder),
         errors' \in Nat, UNCHANGED <<files, memory, writer, chain, kills, losses>>
  PROVE  IInv'
<1> USE DEF IInv
<1>1. /\ UNCHANGED <<dir, file, synced, ckpt, durable, resuming, interruptAfter, stages,
                     lastSaved, reopen, writer, chain, kills, losses>>
      /\ pc' = "unwind" /\ todo' = StreamOrder
  BY DEF Goto, files, memory
<1>2. CheckpointInv' /\ WriterInv' /\ OpenWriters' = OpenWriters
  BY <1>1, Quiet
<1>3. Unvisited' = Streams /\ StreamOrder \in Seq(Streams)
  BY <1>1, VisitAll DEF Unvisited, Streams
<1>4. TypeInv' /\ DirInv' /\ CadenceInv'
  BY <1>1, <1>3 DEF TypeInv, DirInv, CadenceInv
<1>5. OpenInv' /\ WritingInv' /\ BoundaryInv' /\ EndInv'
  BY <1>1, <1>2, <1>3 DEF OpenInv, WritingInv, BoundaryInv, EndInv, DirInv, OpenWriters
<1> QED
  BY <1>2, <1>4, <1>5

LEMMA InterruptStep ==
  ASSUME IInv, Interrupt
  PROVE  IInv'
  BY UnwindingStep DEF Interrupt, faults, IInv, TypeInv

LEMMA RefuseResumeStep ==
  ASSUME IInv, RefuseResume
  PROVE  IInv'
  BY UnwindingStep DEF RefuseResume, faults, IInv, TypeInv

LEMMA RaiseStep ==
  ASSUME IInv, Raise
  PROVE  IInv'
  BY UnwindingStep DEF Raise, IInv, TypeInv

\* A process that is gone has no writer and is nowhere.
LEMMA DieStep ==
  ASSUME IInv, Die, UNCHANGED errors
  PROVE  /\ pc' = "idle" /\ todo' = <<>> /\ OpenWriters' = {} /\ WriterInv' /\ CadenceInv'
         /\ OpenInv' /\ WritingInv' /\ BoundaryInv'
         /\ UNCHANGED <<resuming, interruptAfter, stages, lastSaved, reopen, chain>>
         /\ writer' \in [Streams -> [open : BOOLEAN, buffer : Seq(Record)]]
<1>1. /\ UNCHANGED <<resuming, interruptAfter, stages, lastSaved, reopen, chain>>
      /\ pc' = "idle" /\ todo' = <<>> /\ writer' = [f \in Streams |-> Closed]
  BY DEF Die, Goto, memory
<1>2. \A f \in Streams : writer'[f] = Closed
  BY <1>1
<1>3. OpenWriters' = {}
  <2>1. \A f \in Streams : ~ writer'[f].open
    BY <1>2 DEF Closed
  <2> QED
    BY <2>1, Zenon DEF OpenWriters
<1>4. Closed \in [open : BOOLEAN, buffer : Seq(Record)]
  BY DEF Closed
<1>5. WriterInv'
  BY <1>2, <1>3 DEF WriterInv, Closed
<1>6. CadenceInv' /\ OpenInv' /\ WritingInv' /\ BoundaryInv'
  BY <1>1 DEF CadenceInv, OpenInv, WritingInv, BoundaryInv
<1> QED
  BY <1>1, <1>3, <1>4, <1>5, <1>6

LEMMA KillStep ==
  ASSUME IInv, Kill
  PROVE  IInv'
<1> USE DEF IInv
<1>1. /\ UNCHANGED <<dir, file, synced, ckpt, durable, errors, losses>>
      /\ Die /\ pc # "idle" /\ kills' = kills + 1
  BY DEF Kill, files
<1>2. /\ pc' = "idle" /\ todo' = <<>> /\ OpenWriters' = {} /\ WriterInv' /\ CadenceInv'
      /\ OpenInv' /\ WritingInv' /\ BoundaryInv'
      /\ UNCHANGED <<resuming, interruptAfter, stages, lastSaved, reopen, chain>>
      /\ writer' \in [Streams -> [open : BOOLEAN, buffer : Seq(Record)]]
  BY <1>1, DieStep
<1>3. CheckpointInv'
  BY <1>1 DEF CheckpointInv, Sound
<1>4. TypeInv'
  BY <1>1, <1>2 DEF TypeInv
<1>5. kills' + losses' # 0
  BY <1>1 DEF TypeInv
<1>6. DirInv' /\ EndInv'
  BY <1>1, <1>2, <1>5 DEF DirInv, EndInv, AllClosed
<1> QED
  BY <1>2, <1>3, <1>4, <1>6

LEMMA PowerLossStep ==
  ASSUME IInv, PowerLoss
  PROVE  IInv'
<1> USE DEF IInv
<1>1. /\ UNCHANGED <<errors, kills>>
      /\ Die /\ dir # "absent" /\ losses' = losses + 1
      /\ ckpt' \in {ckpt, durable} /\ durable' = ckpt'
      /\ dir' \in IF dir = "published" THEN {dir, "inprogress"} ELSE {dir}
  BY DEF PowerLoss
<1>2. /\ pc' = "idle" /\ todo' = <<>> /\ OpenWriters' = {} /\ WriterInv' /\ CadenceInv'
      /\ OpenInv' /\ WritingInv' /\ BoundaryInv'
      /\ UNCHANGED <<resuming, interruptAfter, stages, lastSaved, reopen, chain>>
      /\ writer' \in [Streams -> [open : BOOLEAN, buffer : Seq(Record)]]
  BY <1>1, DieStep
<1>3. PICK kept \in [Streams -> 0..Max({Len(file[f]) : f \in Streams})] :
       /\ \A f \in Streams : kept[f] \in synced[f]..Len(file[f])
       /\ file' = [f \in Streams |-> SubSeq(file[f], 1, kept[f])]
       /\ synced' = kept
  BY DEF PowerLoss
<1>4. \A f \in Streams : kept[f] \in 0..Len(file[f])
  BY <1>3 DEF TypeInv
<1>5. \A f \in Streams : /\ file'[f] \in Seq(Chunk) /\ Len(file'[f]) = kept[f]
                         /\ file'[f] = SubSeq(file[f], 1, kept[f])
  BY <1>3, <1>4 DEF TypeInv
<1>6. file' \in [Streams -> Seq(Chunk)]
  BY <1>3, <1>5
<1>7. synced' \in [Streams -> Nat]
  <2>1. \A f \in Streams : kept[f] \in Nat
    BY <1>4
  <2> QED
    BY <1>3, <2>1
<1>8. ckpt' \in Checkpoints
  BY <1>1 DEF TypeInv
<1>9. TypeInv'
  <2>1. losses' \in Nat /\ dir' \in {"absent", "inprogress", "published"}
    BY <1>1 DEF TypeInv
  <2> QED
    BY <1>1, <1>2, <1>6, <1>7, <1>8, <2>1 DEF TypeInv
<1>10. losses' # 0 /\ kills' + losses' # 0
  BY <1>1 DEF TypeInv
<1>11. CheckpointInv'
  <2>1. PICK c \in Checkpoints : c = ckpt' /\ c = durable' /\ Sound(c)
    BY <1>1, <1>8 DEF CheckpointInv
  <2>2. ASSUME NEW f \in Streams, c.stages # -1, c.size[f] <= Len(file'[f])
        PROVE  Owned(file'[f], c.size[f], c.chain[f])
    <3>1. c.size[f] <= kept[f] /\ c.size[f] \in Nat
      BY <1>5, <2>2 DEF Checkpoints
    <3>2. c.size[f] <= Len(file[f]) /\ file[f] \in Seq(Chunk)
      <4>1. file[f] \in Seq(Chunk) /\ Len(file[f]) \in Nat
        BY DEF TypeInv
      <4> QED
        BY <1>4, <3>1, <4>1
    <3>3. Owned(file[f], c.size[f], c.chain[f])
      BY <2>1, <2>2, <3>2 DEF Sound
    <3> QED
      BY <1>4, <1>5, <3>1, <3>2, <3>3, OwnedWhenShorter
  <2>3. Sound(ckpt)' /\ Sound(durable)'
    BY <2>1, <2>2 DEF Sound
  <2>4. \A f \in Streams : c.size[f] <= c.size[f]
    BY DEF Checkpoints
  <2> QED
    BY <1>10, <2>1, <2>3, <2>4 DEF CheckpointInv
<1>12. DirInv' /\ EndInv'
  BY <1>1, <1>2, <1>10 DEF DirInv, EndInv, AllClosed
<1> QED
  BY <1>2, <1>9, <1>11, <1>12

LEMMA CloseWriterStep ==
  ASSUME IInv, CloseWriter
  PROVE  IInv'
<1> USE DEF IInv
<1>a. PICK f \in Streams : f = Head(todo)
  BY Visit DEF CloseWriter
<1>1. /\ UNCHANGED <<dir, synced, ckpt, durable, pc, resuming, interruptAfter, stages,
                     lastSaved, reopen, chain, errors, kills, losses>>
      /\ pc \in {"close", "unwind", "exit"} /\ todo # <<>>
      /\ f \in Streams /\ todo' \in Seq(Streams) /\ Unvisited = {f} \cup Unvisited'
      /\ CloseFile(f)
  BY <1>a, Visit DEF CloseWriter, memory, faults
<1>2. CASE f \notin OpenWriters
  <2>1. UNCHANGED <<file, writer>>
    BY <1>1, <1>2, Zenon DEF CloseFile, OpenWriters
  <2>2. CheckpointInv' /\ WriterInv' /\ OpenWriters' = OpenWriters
    BY <1>1, <2>1, Quiet
  <2>3. TypeInv' /\ DirInv' /\ CadenceInv'
    BY <1>1, <2>1 DEF TypeInv, DirInv, CadenceInv
  <2>4. OpenInv' /\ WritingInv' /\ EndInv'
    BY <1>1, <1>2, <2>1, <2>2 DEF OpenInv, WritingInv, EndInv
  <2>5. BoundaryInv'
    BY <1>1, <2>1, <2>2 DEF BoundaryInv, AtBoundary, Ended
  <2> QED
    BY <2>2, <2>3, <2>4, <2>5
<1>3. CASE f \in OpenWriters
  <2>1. /\ file' = [file EXCEPT ![f] = file[f] \o writer[f].buffer \o <<EndOfMember>>]
        /\ writer' = [writer EXCEPT ![f] = Closed]
    BY <1>1, <1>3, Zenon DEF CloseFile, OpenWriters
  <2>2. PICK a \in Seq(Chunk), b \in Seq(Record) : a = file[f] /\ b = writer[f].buffer
    BY <1>1 DEF TypeInv
  <2>3. b \in Seq(Chunk)
    <3>1. \A r \in Record : r \in Chunk
      BY DEF Record, Chunk
    <3> QED
      BY <3>1
  <2>4. EndOfMember \in Chunk
    BY LargeStreamsAssumption DEF EndOfMember, Chunk
  <2>5. PICK more \in Seq(Chunk) : more = b \o <<EndOfMember>>
    <3>1. <<EndOfMember>> \in Seq(Chunk)
      BY <2>4
    <3>2. b \o <<EndOfMember>> \in Seq(Chunk)
      BY <2>3, <3>1
    <3> QED
      BY <3>2
  <2>6. (a \o b) \o <<EndOfMember>> = a \o more
    <3>1. <<EndOfMember>> \in Seq(Chunk)
      BY <2>4
    <3> QED
      BY <2>3, <2>5, <3>1, ConcatAssociative
  <2>7. file' = [file EXCEPT ![f] = file[f] \o more]
    BY <2>1, <2>2, <2>6
  <2>8. CheckpointInv' /\ file' \in [Streams -> Seq(Chunk)] /\ Len(file[f]) <= Len(file'[f])
    BY <1>1, <1>3, <2>7, FilesGrow
  <2>9. /\ OpenWriters' = OpenWriters \ {f}
        /\ writer' \in [Streams -> [open : BOOLEAN, buffer : Seq(Record)]]
        /\ \A g \in Streams : writer'[g].buffer = IF g = f THEN <<>> ELSE writer[g].buffer
    BY <1>1, <2>1, WriterCloses
  <2>10. \A g \in Streams : g # f => file'[g] = file[g]
    BY <2>1 DEF TypeInv
  <2>11. /\ file'[f] = Append(a \o b, EndOfMember)
         /\ Records(file'[f]) = Records(a) \o b
    <3>1. a \o b \in Seq(Chunk)
      BY <2>3
    <3>2. (a \o b) \o <<EndOfMember>> = Append(a \o b, EndOfMember)
      BY <2>4, <3>1, AppendIsConcat
    <3>3. file'[f] = Append(a \o b, EndOfMember)
      BY <1>1, <2>1, <2>2, <3>2 DEF TypeInv
    <3>4. Records(Append(a \o b, EndOfMember)) = Records(a \o b)
      BY <2>4, <3>1, RecordsAppend DEF Keep
    <3> QED
      BY <3>3, <3>4, RecordsConcat
  <2>12. Records(a) \o b = chain[f] /\ ckpt.size[f] <= Len(a)
    BY <1>1, <1>3, <2>2 DEF WriterInv
  <2>13. Ended(f)'
    <3>1. a \o b \in Seq(Chunk) /\ Len(a \o b) \in Nat
      BY <2>3
    <3>a. Append(a \o b, EndOfMember) \in Seq(Chunk)
      BY <2>4, <3>1, AppendProperties
    <3>2. PICK c \in Seq(Chunk) : c = Append(a \o b, EndOfMember)
      BY <3>a
    <3>3. Len(c) \in DOMAIN c /\ c[Len(c)] = EndOfMember /\ SubSeq(c, 1, Len(c)) = c
      BY <2>4, <3>1, <3>2
    <3>4. Owned(c, Len(c), Records(c))
      BY <3>3, Zenon DEF Owned
    <3>5. ckpt.size[f] <= Len(file'[f])
      <4>1. ckpt.size[f] \in Nat
        BY <1>1 DEF TypeInv, Checkpoints
      <4>2. Len(file'[f]) \in Nat /\ Len(a) \in Nat
        BY <2>11, <3>2
      <4> QED
        BY <2>2, <2>8, <2>12, <4>1, <4>2
    <3>6. file'[f] = c /\ Records(c) = chain'[f] /\ ckpt' = ckpt
      BY <1>1, <2>11, <2>12, <3>2
    <3>7. Owned(file'[f], Len(file'[f]), chain'[f])
      BY <3>4, <3>6
    <3> QED
      BY <3>5, <3>6, <3>7 DEF Ended
  <2>14. WriterInv'
    BY <1>1, <2>9, <2>10 DEF WriterInv
  <2>15. TypeInv' /\ DirInv' /\ CadenceInv'
    BY <1>1, <2>8, <2>9 DEF TypeInv, DirInv, CadenceInv
  <2>16. OpenInv' /\ WritingInv'
    BY <1>1 DEF OpenInv, WritingInv
  <2>17. BoundaryInv'
    <3>1. pc = "close" => \A g \in Streams \ OpenWriters' : Ended(g)'
      <4> SUFFICES ASSUME pc = "close", NEW g \in Streams \ OpenWriters'
                   PROVE  Ended(g)'
        OBVIOUS
      <4>1. CASE g = f
        BY <2>13, <4>1
      <4>2. CASE g # f
        BY <1>1, <2>9, <2>10, <4>2 DEF BoundaryInv, Ended
      <4> QED
        BY <4>1, <4>2
    <3> QED
      BY <1>1, <3>1 DEF BoundaryInv, AtBoundary
  <2>18. EndInv'
    <3>1. OpenWriters' \subseteq Unvisited'
      BY <1>1, <2>9 DEF EndInv
    <3>2. dir = "published" => pc = "exit" /\ b = <<>>
      BY <1>1, <2>2 DEF DirInv, EndInv
    <3>3. Records(a) \o <<>> = Records(a)
      BY RecordsType, ConcatEmptySeq
    <3>4. dir = "published" => \A g \in Streams : Records(file'[g]) = Records(file[g])
      BY <2>2, <2>10, <2>11, <3>2, <3>3
    <3> QED
      BY <1>1, <2>9, <3>1, <3>4 DEF EndInv
  <2> QED
    BY <2>8, <2>14, <2>15, <2>16, <2>17, <2>18
<1> QED
  BY <1>2, <1>3

\* A boundary that is complete is what the checkpoint then says.
LEMMA ReplaceCheckpointStep ==
  ASSUME IInv, ReplaceCheckpoint
  PROVE  IInv'
<1> USE DEF IInv
<1>1. /\ UNCHANGED <<dir, file, synced, durable, resuming, interruptAfter, stages,
                     lastSaved, reopen, writer, chain, errors, kills, losses>>
      /\ pc = "close" /\ todo = <<>> /\ pc' = "sync" /\ todo' = <<>>
      /\ ckpt' = [stages |-> stages, size |-> [f \in Streams |-> Len(file[f])],
                  chain |-> chain]
  BY DEF ReplaceCheckpoint, Goto, memory, faults
<1>2. OpenWriters = {} /\ OpenWriters' = {}
  BY <1>1, AllVisited DEF EndInv, OpenWriters
<1>3. \A f \in Streams : Ended(f) /\ writer[f].buffer = <<>>
  BY <1>1, <1>2 DEF BoundaryInv, WriterInv
<1>4. /\ ckpt'.stages = stages /\ ckpt'.chain = chain
      /\ \A f \in Streams : ckpt'.size[f] = Len(file[f])
  BY <1>1
<1>5. stages \in Record /\ stages \in Chunk /\ stages # -1
  BY LargeStreamsAssumption DEF TypeInv, Record, Chunk
<1>6. TypeInv'
  <2>1. [f \in Streams |-> Len(file[f])] \in [Streams -> Nat]
    BY DEF TypeInv
  <2>2. ckpt' \in Checkpoints
    BY <1>1, <1>5, <2>1 DEF TypeInv, Checkpoints
  <2> QED
    BY <1>1, <2>2 DEF TypeInv
<1>7. Sound(ckpt)'
  <2>1. \A f \in Streams : chain[f] = Expected(f, stages)
    BY <1>1 DEF BoundaryInv, AtBoundary
  <2>2. \A f \in Streams : Owned(file[f], Len(file[f]), chain[f])
    BY <1>3 DEF Ended
  <2> QED
    BY <1>1, <1>4, <1>5, <2>1, <2>2 DEF Sound
<1>8. CheckpointInv'
  <2>1. Sound(durable)'
    BY <1>1 DEF CheckpointInv, Sound
  <2>2. \A f \in Streams : durable.size[f] <= Len(file[f]) /\ Len(file[f]) <= Len(file[f])
    <3> TAKE f \in Streams
    <3>1. durable.size[f] \in Nat /\ ckpt.size[f] \in Nat
      BY DEF TypeInv, Checkpoints
    <3>2. Len(file[f]) \in Nat
      BY DEF TypeInv
    <3>3. durable.size[f] <= ckpt.size[f] /\ ckpt.size[f] <= Len(file[f])
      BY <1>3 DEF CheckpointInv, Ended
    <3> QED
      BY <3>1, <3>2, <3>3
  <2> QED
    BY <1>1, <1>4, <1>5, <1>7, <2>1, <2>2 DEF CheckpointInv
<1>9. WriterInv'
  BY <1>1, <1>2, <1>3 DEF WriterInv
<1>10. DirInv' /\ CadenceInv'
  BY <1>1, <1>5, <1>4 DEF DirInv, CadenceInv
<1>11. Settled'
  <2>1. ASSUME NEW f \in Streams
        PROVE  writer[f].buffer = <<>> /\ Records(file[f]) = chain[f]
    <3>1. PICK a \in Seq(Chunk) : a = file[f]
      BY DEF TypeInv
    <3>2. SubSeq(a, 1, Len(a)) = a
      OBVIOUS
    <3> QED
      BY <1>3, <3>1, <3>2 DEF Ended, Owned
  <2> QED
    BY <1>1, <2>1 DEF Settled
<1>12. BoundaryInv'
  BY <1>1, <1>2, <1>4, <1>11 DEF BoundaryInv, AtBoundary, AllClosed
<1>13. OpenInv' /\ WritingInv' /\ EndInv'
  BY <1>1 DEF OpenInv, WritingInv, EndInv, DirInv
<1> QED
  BY <1>6, <1>8, <1>9, <1>10, <1>12, <1>13

LEMMA Stutter ==
  ASSUME IInv, UNCHANGED vars
  PROVE  IInv'
<1> USE DEF IInv
<1>1. UNCHANGED <<dir, file, synced, ckpt, durable, pc, todo, resuming, interruptAfter,
                  stages, lastSaved, reopen, writer, chain, errors, kills, losses>>
  BY DEF vars, files, memory, faults
<1>2. CheckpointInv' /\ WriterInv' /\ OpenWriters' = OpenWriters
  BY <1>1, Quiet
<1>3. TypeInv' /\ DirInv' /\ CadenceInv' /\ OpenInv' /\ EndInv'
  BY <1>1, <1>2 DEF TypeInv, DirInv, CadenceInv, OpenInv, EndInv, AllClosed, Unvisited
<1>4. WritingInv'
  BY <1>1, <1>2 DEF WritingInv, AllOpen, Partway
<1>5. BoundaryInv'
  BY <1>1, <1>2
     DEF BoundaryInv, AllOpen, AllClosed, AtBoundary, Settled, Ended, Unvisited
<1> QED
  BY <1>2, <1>3, <1>4, <1>5

LEMMA NextStep ==
  ASSUME IInv, [Next]_vars
  PROVE  IInv'
<1>1. CASE UNCHANGED vars
  BY <1>1, Stutter
<1>2. ASSUME NEW resume \in BOOLEAN, NEW interrupt \in Interrupts, Invoke(resume, interrupt)
      PROVE  IInv'
  BY <1>2, InvokeStep
<1>3. CASE Step
  BY <1>3, OpenWriterStep, OpenedStep, RefuseResumeStep, InitialWrittenStep, BeginStageStep,
     WriteStep, StageWrittenStep, FlushStep, CadenceDueStep, CadenceNotDueStep,
     SaveForInterruptStep, InterruptStep, NoInterruptStep, SaveFinalStep, CloseWriterStep,
     ReplaceCheckpointStep, SyncDirectoryStep, ReopenedStep, PublishStep, ExitStep,
     UnwoundStep DEF Step
<1>4. ASSUME NEW f \in Streams, Spill(f)
      PROVE  IInv'
  BY <1>4, SpillStep
<1>5. CASE Raise \/ Kill \/ PowerLoss
  BY <1>5, RaiseStep, KillStep, PowerLossStep
<1> QED
  BY <1>1, <1>2, <1>3, <1>4, <1>5 DEF Next

LEMMA Invariant == Spec => []IInv
<1>1. Init => IInv
  BY InitStep
<1>2. IInv /\ [Next]_vars => IInv'
  BY NextStep
<1> QED
  BY <1>1, <1>2, PTL DEF Spec

-----------------------------------------------------------------------------
(***************************************************************************)
(* What follows.                                                           *)
(***************************************************************************)

\* The count and the chain hash a writer carries stand for exactly the records
\* of its file and its buffer (_GzipJsonlWriter), whatever was cut back,
\* reopened, spilled, flushed or closed.
THEOREM ChainsTellTheFiles == Spec => []StreamMatchesChain
<1>1. IInv => StreamMatchesChain
  BY DEF IInv, WriterInv, StreamMatchesChain, OpenWriters
<1> QED
  BY <1>1, Invariant, PTL

\* Short of a power loss, whatever stopped the process, FormalZacCheckpoint
\* finds files that begin with what it says: as long as it says, ending a gzip
\* member there, and with the records an uninterrupted compile writes.
THEOREM KilledCompilesResume == Spec => []ResumableAfterKill
<1>1. ASSUME IInv
      PROVE  ResumableAfterKill
  <2> SUFFICES ASSUME losses = 0, HasCheckpoint, NEW f \in Streams
               PROVE  LET owned == SubSeq(file[f], 1, ckpt.size[f])
                      IN /\ Len(file[f]) >= ckpt.size[f]
                         /\ owned[ckpt.size[f]] = EndOfMember
                         /\ Records(owned) = ckpt.chain[f]
                         /\ ckpt.chain[f] = Expected(f, ckpt.stages)
    BY DEF ResumableAfterKill, ResumableCheckpoint
  <2>1. ckpt.stages # -1 /\ ckpt.size[f] <= Len(file[f])
    BY <1>1 DEF IInv, CheckpointInv, HasCheckpoint
  <2>2. Owned(file[f], ckpt.size[f], ckpt.chain[f]) /\ ckpt.chain[f] = Expected(f, ckpt.stages)
    BY <1>1, <2>1 DEF IInv, CheckpointInv, Sound
  <2>3. PICK a \in Seq(Chunk), n \in Nat : a = file[f] /\ n = ckpt.size[f]
    BY <1>1 DEF IInv, TypeInv, Checkpoints
  <2>4. n \in 1..Len(a) /\ a[n] = EndOfMember /\ Records(SubSeq(a, 1, n)) = ckpt.chain[f]
    BY <2>2, <2>3 DEF Owned
  <2>5. SubSeq(a, 1, n)[n] = a[n] /\ Len(a) >= n
    BY <2>4
  <2> QED
    BY <2>2, <2>3, <2>4, <2>5
<1> QED
  BY <1>1, Invariant, PTL

\* The except clause of compile_formal_large_zac leaves no directory that can
\* be neither resumed nor started afresh: only a process or a machine that
\* went down in the middle does.
THEOREM OnlyKillsOrphan == Spec => []OrphanOnlyAfterKill
<1>1. ASSUME IInv
      PROVE  OrphanOnlyAfterKill
  <2> SUFFICES ASSUME pc = "idle", dir = "inprogress", ~HasCheckpoint, kills + losses <= 0
               PROVE  FALSE
    BY <1>1 DEF OrphanOnlyAfterKill, IInv, TypeInv
  <2>1. ckpt.stages = -1
    BY <1>1, LargeStreamsAssumption DEF HasCheckpoint, IInv, TypeInv, Checkpoints, Chunk
  <2>2. kills + losses = 0
    BY <1>1 DEF IInv, TypeInv
  <2> QED
    BY <1>1, <2>1, <2>2 DEF IInv, DirInv
<1> QED
  BY <1>1, Invariant, PTL

\* The result the directory holds: everything, or nothing yet.
LEMMA ResultIsFull ==
  ASSUME IInv, losses = 0, dir = "published"
  PROVE  [f \in Streams |-> Records(file[f])] = [f \in Streams |-> Expected(f, LastStage)]
  BY DEF IInv, EndInv

\* Apart from saving, publishing and losing power a step changes neither the
\* checkpoint nor what is published.
LEMMA OthersStutter ==
  ASSUME IInv, Next, ~Publish, ~ReplaceCheckpoint, ~PowerLoss
  PROVE  /\ UNCHANGED <<ckpt, losses>>
         /\ dir' = "published" <=> dir = "published"
<1>1. ASSUME NEW resume \in BOOLEAN, NEW interrupt \in Interrupts, Invoke(resume, interrupt)
      PROVE  UNCHANGED <<ckpt, losses>> /\ (dir' = "published" <=> dir = "published")
  BY <1>1 DEF Invoke, faults
<1>2. CASE OpenWriter \/ Opened \/ RefuseResume \/ InitialWritten \/ BeginStage \/ Write
  BY <1>2 DEF OpenWriter, Opened, RefuseResume, InitialWritten, BeginStage, Write, files, faults
<1>3. CASE StageWritten \/ Flush \/ CadenceDue \/ CadenceNotDue \/ SaveForInterrupt
  BY <1>3 DEF StageWritten, Flush, CadenceDue, CadenceNotDue, SaveForInterrupt, SaveBoundary,
              files, faults
<1>4. CASE Interrupt \/ NoInterrupt \/ SaveFinal \/ CloseWriter \/ SyncDirectory \/ Reopened
  BY <1>4 DEF Interrupt, NoInterrupt, SaveFinal, CloseWriter, SyncDirectory, Reopened,
              SaveBoundary, files, faults
<1>5. CASE Exit \/ Raise \/ Kill
  BY <1>5 DEF Exit, Raise, Kill, files, faults
<1>6. CASE Unwound
  <2>1. dir # "published"
    BY <1>6 DEF Unwound, IInv, DirInv
  <2> QED
    BY <1>6, <2>1 DEF Unwound, faults
<1>7. ASSUME NEW f \in Streams, Spill(f)
      PROVE  UNCHANGED <<ckpt, losses>> /\ (dir' = "published" <=> dir = "published")
  BY <1>7 DEF Spill, faults
<1> QED
  BY <1>1, <1>2, <1>3, <1>4, <1>5, <1>6, <1>7 DEF Next, Step

LEMMA LogStep ==
  ASSUME IInv, IInv', Next, losses' = 0
  PROVE  [Log!Next]_(Log!logVars)
<1> DEFINE Published == [f \in Streams |-> Records(file[f])]
           Full == [f \in Streams |-> Expected(f, LastStage)]
<1>1. CASE ~Publish /\ ~ReplaceCheckpoint /\ ~PowerLoss
  <2>1. UNCHANGED <<ckpt, losses>> /\ (dir' = "published" <=> dir = "published")
    BY <1>1, OthersStutter
  <2>2. CASE dir = "published"
    <3>1. Published = Full
      BY <2>1, <2>2, ResultIsFull
    <3>2. Published' = Full
      BY <2>1, <2>2 DEF IInv, EndInv
    <3> QED
      BY <2>1, <2>2, <3>1, <3>2 DEF Log!logVars
  <2>3. CASE dir # "published"
    BY <2>1, <2>3 DEF Log!logVars
  <2> QED
    BY <2>2, <2>3
<1>2. CASE ReplaceCheckpoint
  <2>1. UNCHANGED dir /\ ckpt'.stages = stages /\ pc = "close"
    BY <1>2 DEF ReplaceCheckpoint
  <2>2. dir # "published"
    BY <2>1 DEF IInv, DirInv
  <2>3. ckpt.stages \in Chunk /\ stages \in Record /\ lastSaved \in Record
        /\ lastSaved < stages /\ lastSaved = IF ckpt.stages = -1 THEN 0 ELSE ckpt.stages
    BY <2>1 DEF IInv, TypeInv, Checkpoints, BoundaryInv, CadenceInv
  <2>4. ckpt'.stages \in (ckpt.stages + 1)..LastStage
    BY <2>1, <2>3, LargeStreamsAssumption DEF Chunk, Record
  <2> QED
    BY <2>1, <2>2, <2>4 DEF Log!Next, Log!Save
<1>3. CASE Publish
  <2>1. /\ UNCHANGED <<file, ckpt, losses>> /\ dir' = "published"
        /\ pc = "loop" /\ stages = LastStage /\ lastSaved = stages
    BY <1>3 DEF Publish, faults
  <2>2. ckpt.stages = LastStage /\ dir = "inprogress"
        /\ \A f \in Streams : Records(file[f]) = Expected(f, LastStage)
    BY <2>1, SavedInFull
  <2>3. Published' = Full
    BY <2>1, <2>2
  <2> QED
    BY <2>1, <2>2, <2>3 DEF Log!Next, Log!Publish
<1>4. CASE PowerLoss
  <2>1. losses' = losses + 1 /\ losses \in Nat
    BY <1>4 DEF PowerLoss, IInv, TypeInv
  <2> QED
    BY <2>1
<1> QED
  BY <1>1, <1>2, <1>3, <1>4

\* Up to the first power loss the checkpoints and the published directory of
\* compile_formal_large_zac behave as ResumableLog promises, for every process
\* that compiles, fails, is killed or resumes: the checkpoint only moves
\* forward, and the complete result appears once, after its last stage.
THEOREM StreamsImplementTheLog == Spec => ImplementsLog
<1>1. Init => Log!Init
  <2> SUFFICES ASSUME Init PROVE Log!Init
    OBVIOUS
  <2> QED
    BY DEF Init, Log!Init, NoCheckpoint
<1>2. IInv /\ IInv' /\ [Next]_vars => [losses' = 0 => [Log!Next]_(Log!logVars)]_vars
  BY LogStep
<1> QED
  BY <1>1, <1>2, Invariant, PTL DEF Spec, ImplementsLog
=============================================================================
