------------------------------ MODULE Arrangement ------------------------------
(***************************************************************************)
(* expand_arrangement and get_duration (zac/router/router.py): how one     *)
(* rearrangement job, a set of atoms lifted together by one AOD, becomes a *)
(* sequence of LOAD, MOVE and STORE phases with offsets from the begin of  *)
(* the job.  Coordinates are abstracted to which atoms share a row and     *)
(* which share a column of their begin sites; a job's long move has one    *)
(* duration.                                                               *)
(***************************************************************************)
EXTENDS Integers, Sequences, SequencesExt, FiniteSets

CONSTANTS
  TransferTime,   \* time_atom_transfer, of one LOAD or STORE
  ParkTime,       \* the detour of PARKING_DIST after a row that is not the last
  MoveTime        \* the big move

ASSUME ArrangementAssumption ==
  TransferTime \in Nat /\ ParkTime \in Nat /\ MoveTime \in Nat

(* The numbers of a set from the lowest up: the k-th has k - 1 below it.    *)
Ranked(S) ==
  [k \in 1 .. Cardinality(S) |-> CHOOSE x \in S : Cardinality({y \in S : y < x}) = k - 1]

(* The rows of a job: atoms grouped by the row of their begin site, rows   *)
(* from the lowest up, atoms within a row by number.                       *)
RowSeq(atoms, rowOf) ==
  LET ys == Ranked({rowOf[q] : q \in atoms})
  IN [k \in DOMAIN ys |-> Ranked({q \in atoms : rowOf[q] = ys[k]})]

Leg(kind, time, atoms) == [kind |-> kind, time |-> time, atoms |-> atoms]

(* A row is loaded after the columns it shares with an earlier row have    *)
(* been shifted back.  get_duration multiplies rows by columns and a shift *)
(* back names no row, so it takes no time.                                 *)
RowLegs(rows, colOf, k) ==
  LET held   == FlattenSeq(SubSeq(rows, 1, k - 1))
      shared == \E p \in ToSet(held), q \in ToSet(rows[k]) : colOf[p] = colOf[q]
  IN (IF shared THEN <<Leg("move", 0, held)>> ELSE <<>>)
     \o <<Leg("load", TransferTime, rows[k])>>
     \o (IF k < Len(rows) THEN <<Leg("move", ParkTime, held \o rows[k])>> ELSE <<>>)

Legs(rows, colOf) ==
  FlattenSeq([k \in DOMAIN rows |-> RowLegs(rows, colOf, k)])
    \o <<Leg("move", MoveTime, FlattenSeq(rows)),
         Leg("store", TransferTime, FlattenSeq(rows))>>

(* get_duration: each phase starts where the one before it stops.          *)
Timed(legs) ==
  LET stop[k \in 0 .. Len(legs)] == IF k = 0 THEN 0 ELSE stop[k - 1] + legs[k].time
  IN [k \in DOMAIN legs |-> [kind |-> legs[k].kind, start |-> stop[k - 1],
                             stop |-> stop[k], atoms |-> legs[k].atoms]]

ExpandedJob(rows, colOf) == Timed(Legs(rows, colOf))

(* What get_begin_time and the ledger read of a job, relative to its begin.*)
PickupOffset(job) ==
  CHOOSE t \in {job[k].stop : k \in {i \in DOMAIN job : job[i].kind = "load"}} :
    \A k \in DOMAIN job : job[k].kind = "load" => job[k].stop <= t

DropOffset(job) == job[Len(job)].start

Duration(job) == job[Len(job)].stop
================================================================================
