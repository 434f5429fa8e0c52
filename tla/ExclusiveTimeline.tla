--------------------------- MODULE ExclusiveTimeline ---------------------------
(***************************************************************************)
(* What the schedulers of the compiler promise, with every rule of how a   *)
(* start time is found left out: a growing set of bookings of exclusive    *)
(* resources.  A booking is never moved or withdrawn once it is made, and  *)
(* a new one never overlaps an old one, or another new one, of the same    *)
(* resource.  The resources are the atoms (one active operation at a       *)
(* time), the AODs, the Rydberg zones and the global one-qubit beam.       *)
(***************************************************************************)
EXTENDS Integers

VARIABLE booked   \* set of records [res, by, from, to]: the resource, the user

(* Two bookings of one resource whose interiors meet.                      *)
Overlap(b, c) ==
  /\ b.res = c.res
  /\ b.from < c.to
  /\ c.from < b.to

Exclusive == \A b, c \in booked : b # c => ~Overlap(b, c)

Init == booked = {}

Book ==
  /\ booked \subseteq booked'
  /\ \A b \in booked' \ booked : \A c \in booked' : b # c => ~Overlap(b, c)

Spec == Init /\ [][Book]_booked
================================================================================
