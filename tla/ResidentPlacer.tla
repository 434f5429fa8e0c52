--------------------------- MODULE ResidentPlacer ---------------------------
(***************************************************************************)
(* The resident placer (zzx/zplacer.py run) with the registry of who is    *)
(* where (zzx/resident.py), the ghost repair and, for the second schema,   *)
(* the scheduler that audits its choices (zzx/exact_current_reference.py). *)
(* It writes the stream of mappings that the router follows:               *)
(* the initial one, then for each round its gate mapping and the boundary  *)
(* mapping after it.                                                       *)
(*                                                                         *)
(* Three engines decide a boundary: "match" (plan, decide_lazy), "ga"      *)
(* (_ga_step) and "rich" (_ga_step_v2, whose search is the native solver). *)
(* Costs choose among what the code permits: they are left out.  What a    *)
(* leg sweeps is not: it is computed as ghost.py does, from coordinates.   *)
(***************************************************************************)
EXTENDS Integers, Sequences, FiniteSets

CONSTANTS
  Atoms, Storage, Seats,
  Pairs,          \* the gate sites: <<left seat, right seat>>
  XOf, YOf,       \* coordinates of every site
  ColOf,          \* its column within its own SLM
  Homes,          \* the initial mapping
  Programs,       \* the circuits: for each round its gates <<q1, q2>>
  Thetas,         \* values of theta_capacity * zone_sites, rounded down
  Engines,        \* the engines offered
  FinalReturns,   \* the values of final_return_home offered
  MaxRounds       \* rounds of the ghost repair, 12 in the code

Sites == Storage \cup Seats
Nowhere == "nowhere"

ASSUME PlacerAssumption ==
  /\ IsFiniteSet(Atoms) /\ Nowhere \notin Sites
  /\ Storage \cap Seats = {}
  /\ Pairs \subseteq Seats \X Seats
  /\ XOf \in [Sites -> Int] /\ YOf \in [Sites -> Int]
  /\ Homes \in [Atoms -> Storage]
  /\ \A p, q \in Atoms : Homes[p] = Homes[q] => p = q
  /\ \A p \in Programs : p \in Seq(Seq(Atoms \X Atoms)) /\ p # <<>>
  /\ Thetas \subseteq Nat /\ MaxRounds \in Nat
  /\ FinalReturns \subseteq BOOLEAN

VARIABLES
  program, theta, engine, finalReturn,   \* the call
  layer,          \* the last committed round, -1 before the first
  pc,             \* "plan", "decide", "repair", "commit", "done" or "failed"
  failure,        \* which check raised
  zoneSeat,       \* the registry: seats of the residents, Nowhere for others,
  storageSite,    \*   and storage sites of the other atoms
  idle,           \* resident_idle_exposures
  mapping,        \* the stream
  seat,           \* the placements of the next round: its atoms' gate seats
  decision,       \* the boundary's decisions
  native,         \* the native winner was taken as it is
  todo, progress, round, banned,    \* the ghost repair
  routed,         \* what the audited scheduler has committed, layer by layer
  expected        \* the state it must reach, <<>> when nothing is expected

registry == <<zoneSeat, storageSite, idle>>
plan == <<seat, decision, native>>
repair == <<todo, progress, round, banned>>
audit == <<routed, expected>>
config == <<program, theta, engine, finalReturn>>
vars == <<config, layer, pc, failure, registry, mapping, plan, repair, audit>>

-----------------------------------------------------------------------------
LastOf(s) == s[Len(s)]
Rounds == Len(program)
Gates(l) == IF l \in 0..(Rounds - 1) THEN program[l + 1] ELSE <<>>
Participants(l) == UNION {{Gates(l)[i][1], Gates(l)[i][2]} : i \in DOMAIN Gates(l)}

\* The gates being placed, and the atoms in them.
Target == Gates(layer + 1)
Players == Participants(layer + 1)

\* NextUse.next_round: the first round after l in which q takes part.
NextUse(q, l) ==
  CHOOSE r \in (l + 1)..Rounds :
    /\ r = Rounds \/ q \in Participants(r)
    /\ \A e \in (l + 1)..(r - 1) : q \notin Participants(e)

Residents == {q \in Atoms : zoneSeat[q] # Nowhere}
Pos(q) == IF zoneSeat[q] # Nowhere THEN zoneSeat[q] ELSE storageSite[q]
OccupiedStorage == {storageSite[q] : q \in Atoms}
OccupiedSeats == {zoneSeat[q] : q \in Atoms}

Undecided == [kind |-> "none", loc |-> Nowhere]
Moving == {"RETURN", "RESEAT", "PARK"}
Movers == {q \in Atoms : decision[q].kind \in Moving}

NoDecisions == [q \in Atoms |-> Undecided]
Unseated == [q \in Atoms |-> Nowhere]

Init ==
  /\ program \in Programs /\ theta \in Thetas
  /\ engine \in Engines /\ finalReturn \in FinalReturns
  /\ layer = -1 /\ pc = "plan" /\ failure = "none"
  /\ zoneSeat = Unseated
  /\ storageSite = Homes
  /\ idle = [q \in Atoms |-> 0]
  /\ mapping = <<Homes>>
  /\ seat = Unseated /\ decision = NoDecisions /\ native = FALSE
  /\ todo = {} /\ progress = FALSE /\ round = 0 /\ banned = {}
  /\ routed = <<>> /\ expected = <<>>

Fail(why) == pc' = "failed" /\ failure' = why

-----------------------------------------------------------------------------
(* ghost.py: which standing atoms a set of legs sweeps over.               *)

Between(a, b, g) == (a <= g /\ g <= b) \/ (b <= g /\ g <= a)

\* Beams moving a->b and c->d pass g and h at the same time, or one of them
\* stands there all along.
SameTime(a, b, g, c, d, h) ==
  a = b \/ c = d \/ (g - a) * (d - c) = (h - c) * (b - a)

\* ghost_hits: a column of one leg meets a row of any of them at loc.
Sweeps(legs, loc) ==
  \E c, r \in legs :
    LET xa == XOf[c[1]]  xb == XOf[c[2]]  ya == YOf[r[1]]  yb == YOf[r[2]] IN
    /\ Between(xa, xb, XOf[loc]) /\ Between(ya, yb, YOf[loc])
    /\ SameTime(xa, xb, XOf[loc], ya, yb, YOf[loc])

\* leg_hits: one leg on its own.  A leg that goes nowhere sweeps nothing.
Hits(from, to, loc) == from # to /\ Sweeps({<<from, to>>}, loc)

-----------------------------------------------------------------------------
(* Gate seats.                                                             *)

Injective(f) == \A x, y \in DOMAIN f : f[x] = f[y] => x = y

SeatsOf(p) == {p[1], p[2]}

\* No atom but the gate's own, and those on their way out, sits there.
Clear(i, p, vacated) ==
  SeatsOf(p) \cap {zoneSeat[q] : q \in Residents \ (SeatsOf(Target[i]) \cup vacated)} = {}

\* _pair_seats: a resident of the pair keeps its seat, else by column.
Oriented(gate, p) ==
  LET a == zoneSeat[gate[1]]  b == zoneSeat[gate[2]]
      keeps == IF a \in SeatsOf(p) THEN a = p[1]
               ELSE IF b \in SeatsOf(p) THEN b = p[2]
               ELSE ColOf[Pos(gate[1])] < ColOf[Pos(gate[2])]
  IN IF keeps THEN p ELSE <<p[2], p[1]>>

\* _mk_placement for each gate.
Placement(sites) ==
  [q \in Atoms |->
     IF q \in Players
     THEN LET i == CHOOSE k \in DOMAIN Target : q \in SeatsOf(Target[k])
              s == Oriented(Target[i], sites[i])
          IN IF q = Target[i][1] THEN s[1] ELSE s[2]
     ELSE Nowhere]

Matchings == {m \in [DOMAIN Target -> Pairs] : Injective(m)}

\* _repair_placements: gate by gate, a site with another atom's seat is
\* exchanged for an unused clear one if there is one.
Repaired(matched) ==
  {sites \in Matchings :
     \A i \in DOMAIN Target :
       LET used == {sites[j] : j \in 1..(i - 1)} \cup {matched[j] : j \in i..Len(Target)}
           free == {p \in Pairs \ used : Clear(i, p, {})}
       IN sites[i] \in IF Clear(i, matched[i], {}) \/ free = {} THEN {matched[i]} ELSE free}

\* _ga_step's menus hold clear sites only.
ClearMatchings == {m \in Matchings : \A i \in DOMAIN Target : Clear(i, m[i], {})}

-----------------------------------------------------------------------------
(* Boundary decisions.                                                     *)

Stay(q) == [kind |-> "STAY", loc |-> zoneSeat[q]]

\* match_return_sites: distinct free storage sites for the returners.
ReturnSites(returners) ==
  {f \in [returners -> Storage \ OccupiedStorage] : Injective(f)}

\* The seats the next round needs are left: E2.
InTheWay == {q \in Residents \ Players : zoneSeat[q] \in {seat[p] : p \in Players}}

\* Mutant: the valve leaves no room for the next gates.
EvictionsNoDemand(pool, retained) ==
  LET excess == retained - theta
      count == IF excess <= 0 THEN 0
               ELSE IF excess < Cardinality(pool) THEN excess ELSE Cardinality(pool)
  IN {e \in SUBSET pool :
        /\ Cardinality(e) = count
        /\ \A q \in e, p \in pool \ e : NextUse(q, layer) >= NextUse(p, layer)}

\* The capacity valve: of the pool the atoms used again last go, until the
\* retained ones and the seats demanded fit, or nobody is left to go.
Evictions(pool, retained) ==
  LET excess == retained + 2 * Len(Target) - theta
      count == IF excess <= 0 THEN 0
               ELSE IF excess < Cardinality(pool) THEN excess ELSE Cardinality(pool)
  IN {e \in SUBSET pool :
        /\ Cardinality(e) = count
        /\ \A q \in e, p \in pool \ e : NextUse(q, layer) >= NextUse(p, layer)}

\* return_to_storage for all the returners.
ReturnAll(sites) ==
  /\ zoneSeat' = [q \in Atoms |-> IF q \in DOMAIN sites THEN Nowhere ELSE zoneSeat[q]]
  /\ storageSite' = [q \in Atoms |-> IF q \in DOMAIN sites THEN sites[q] ELSE storageSite[q]]
  /\ idle' = [q \in Atoms |-> IF q \in DOMAIN sites THEN 0 ELSE idle[q]]

DecisionsFor(sites, stayers) ==
  [q \in Atoms |-> IF q \in DOMAIN sites THEN [kind |-> "RETURN", loc |-> sites[q]]
                   ELSE IF q \in stayers THEN Stay(q) ELSE Undecided]

StartRepair ==
  /\ pc' = "repair"
  /\ todo' = {} /\ progress' = TRUE /\ round' = 0 /\ banned' = {}

-----------------------------------------------------------------------------
\* The first round, and every round of "match": the gates come first.
PlanRound ==
  /\ pc = "plan" /\ layer + 1 < Rounds
  /\ layer = -1 \/ engine = "match"
  /\ \E m \in Matchings : \E sites \in Repaired(m) : seat' = Placement(sites)
  /\ decision' = NoDecisions /\ native' = FALSE
  /\ IF layer = -1 THEN StartRepair ELSE pc' = "decide" /\ UNCHANGED repair
  /\ UNCHANGED <<config, layer, failure, registry, mapping, audit>>

\* decide_lazy, which updates the registry at once.
DecideLazy ==
  /\ pc = "decide"
  /\ \E e \in Evictions(Residents \ (Players \cup InTheWay),
                        Cardinality(Residents) - Cardinality(InTheWay)) :
     \E sites \in ReturnSites(InTheWay \cup e) :
       /\ ReturnAll(sites)
       /\ decision' = DecisionsFor(sites, Residents)
  /\ StartRepair
  /\ UNCHANGED <<config, layer, failure, mapping, seat, native, audit>>

\* _ga_step: residents with a use to come choose between STAY and RETURN,
\* their sites matched together; the valve's victims are matched again.
GaStep ==
  /\ pc = "plan" /\ engine = "ga" /\ layer >= 0 /\ layer + 1 < Rounds
  /\ LET idlers == Residents \ Players
         eligible == {q \in idlers : NextUse(q, layer) < Rounds}
     IN /\ ClearMatchings # {}
        /\ \E sites \in ClearMatchings : seat' = Placement(sites)
        /\ \E chosen \in SUBSET eligible, all \in ReturnSites(eligible) :
           \E e \in Evictions(eligible \ chosen, Cardinality(idlers \ chosen)) :
           \E forced \in ReturnSites(e) :
             decision' = DecisionsFor([q \in chosen \cup e |-> IF q \in e THEN forced[q] ELSE all[q]],
                                      eligible)
        /\ native' = FALSE
        /\ StartRepair
        /\ UNCHANGED <<config, layer, failure, registry, mapping, audit>>

\* "assert opts": a gate has an empty menu, or the menus no distinct sites.
GaStepNoMenu ==
  /\ pc = "plan" /\ engine = "ga" /\ layer >= 0 /\ layer + 1 < Rounds
  /\ ClearMatchings = {}
  /\ Fail("menu")
  /\ UNCHANGED <<config, layer, registry, mapping, plan, repair, audit>>

(***************************************************************************)
(* _ga_step_v2.  The source layer is first routed on a fork of the audited *)
(* scheduler, which must show what the candidate of the boundary before    *)
(* was promised to lead to.  The solver, outside of this model, chooses    *)
(* seats and decisions together and may send a participant back to storage *)
(* for the moment (a cycle, PARK) or a resident to another seat; its       *)
(* winner never puts two atoms on one site.                                *)
(***************************************************************************)
Prefix == Append(routed, <<LastOf(mapping), LastOf(mapping)>>)
MaxStays == theta - 2 * Len(Target)

RichRefusal ==
  IF expected \notin {<<>>, Prefix} THEN "audit"
  ELSE IF MaxStays < 0 THEN "demand" ELSE "none"

RichRefused ==
  /\ pc = "plan" /\ engine = "rich" /\ layer >= 0 /\ layer + 1 < Rounds
  /\ RichRefusal # "none" /\ Fail(RichRefusal)
  /\ UNCHANGED <<config, layer, registry, mapping, plan, repair, audit>>

\* Where an atom is before, between and after the two phases.
T1(q) == IF decision[q].kind # "none" THEN decision[q].loc ELSE Pos(q)
T2(q) == IF q \in Players THEN seat[q] ELSE T1(q)

\* The participant of a lone gate that may go to storage and come back.
Cycle ==
  LET seated == Residents \cap Players
  IN IF Len(Target) = 1 /\ Cardinality(seated) = 1 THEN seated ELSE {}

\* One of the winner's combinations: who goes to storage, and who elsewhere.
RichDecision(sites, other) ==
  [q \in Atoms |->
     IF q \in DOMAIN sites THEN [kind |-> IF q \in Players \ Cycle THEN "PARK" ELSE "RETURN",
                                 loc |-> sites[q]]
     ELSE IF q \in DOMAIN other THEN [kind |-> "RESEAT", loc |-> other[q]]
     ELSE IF q \in (Residents \ Players) \cup Cycle THEN Stay(q) ELSE Undecided]

OtherSeats(back) ==
  UNION {{f \in [r -> Seats \ OccupiedSeats] : Injective(f)} :
           r \in SUBSET ((Residents \ Players) \ back)}

Winners(back) ==
  {RichDecision(sites, other) : sites \in ReturnSites(back), other \in OtherSeats(back)}

RichDecisions ==
  UNION {Winners(back) : back \in {b \in SUBSET Residents :
                                     Cardinality((Residents \ Players) \ b) <= MaxStays}}

\* Every atom on a site of its own, after the back phase and after the out phase.
Separate(d, s) ==
  LET t1 == [q \in Atoms |-> IF d[q].kind = "none" THEN Pos(q) ELSE d[q].loc]
  IN Injective(t1) /\ Injective([q \in Atoms |-> IF q \in Players THEN s[q] ELSE t1[q]])

\* "capacity constraint was not satisfied before fitness": every STAY counts,
\* a participant's too.
StaysFit(d) == Cardinality({q \in Atoms : d[q].kind = "STAY"}) <= MaxStays

RichStep ==
  /\ pc = "plan" /\ engine = "rich" /\ layer >= 0 /\ layer + 1 < Rounds
  /\ RichRefusal = "none"
  /\ \E d \in RichDecisions, m \in Matchings :
       /\ Separate(d, Placement(m))
       /\ decision' = d /\ seat' = Placement(m)
       /\ IF StaysFit(d)
          THEN \/ /\ native' = TRUE      \* the winner as it is, and its audit
                  /\ LET back == [q \in Atoms |-> IF d[q].kind \in Moving THEN d[q].loc
                                                  ELSE LastOf(mapping)[q]]
                         gate == [q \in Atoms |-> IF q \in Players THEN Placement(m)[q]
                                                  ELSE back[q]]
                     IN expected' = routed \o <<<<LastOf(mapping), back>>, <<gate, gate>>>>
                  /\ pc' = "commit"
                  /\ UNCHANGED <<failure, repair>>
               \/ /\ native' = FALSE     \* relaxed recovery: repaired, not audited
                  /\ expected' = <<>>
                  /\ StartRepair
                  /\ UNCHANGED failure
          ELSE Fail("capacity") /\ UNCHANGED <<native, repair, expected>>
  /\ UNCHANGED <<config, layer, registry, mapping, routed>>

-----------------------------------------------------------------------------
(* _repair_ghosts: round after round every leg that sweeps over an atom on *)
(* its own is mended, until none does.                                     *)

\* Mutant: an atom is looked for where it will be, not where it was.
IssuesAfterOnly ==
  {i \in {"back"} \X Movers \X Atoms :
     i[2] # i[3] /\ Hits(Pos(i[2]), decision[i[2]].loc, T1(i[3]))}
  \cup
  {i \in {"out"} \X Players \X Atoms :
     i[2] # i[3] /\ Hits(T1(i[2]), seat[i[2]], T2(i[3]))}

\* Mutant: an atom is looked for where it was, not where it will be.
IssuesBeforeOnly ==
  {i \in {"back"} \X Movers \X Atoms :
     i[2] # i[3] /\ Hits(Pos(i[2]), decision[i[2]].loc, Pos(i[3]))}
  \cup
  {i \in {"out"} \X Players \X Atoms :
     i[2] # i[3] /\ Hits(T1(i[2]), seat[i[2]], T1(i[3]))}

\* leg_issues: <<phase, owner of the leg, victim>>; the victim is looked for
\* where it is before and after the phase.
Issues ==
  {i \in {"back"} \X Movers \X Atoms :
     /\ i[2] # i[3]
     /\ \/ Hits(Pos(i[2]), decision[i[2]].loc, Pos(i[3]))
        \/ Hits(Pos(i[2]), decision[i[2]].loc, T1(i[3]))}
  \cup
  {i \in {"out"} \X Players \X Atoms :
     /\ i[2] # i[3]
     /\ \/ Hits(T1(i[2]), seat[i[2]], T1(i[3]))
        \/ Hits(T1(i[2]), seat[i[2]], T2(i[3]))}

Real(legs) == {l \in legs : l[1] # l[2]}
BackLegs == Real({<<Pos(q), decision[q].loc>> : q \in Movers})
OutLegs == Real({<<T1(q), seat[q]>> : q \in Players})
Placed == {seat[q] : q \in Players}
TargetsOf(kinds) == {decision[q].loc : q \in {p \in Atoms : decision[p].kind \in kinds}}

RepairDone ==
  /\ pc = "repair" /\ todo = {}
  /\ progress /\ round < MaxRounds /\ Issues = {}
  /\ pc' = "commit"
  /\ UNCHANGED <<config, layer, failure, registry, mapping, plan, repair, audit>>

RepairRound ==
  /\ pc = "repair" /\ todo = {}
  /\ progress /\ round < MaxRounds /\ Issues # {}
  /\ todo' = Issues /\ progress' = FALSE /\ round' = round + 1
  /\ UNCHANGED <<config, layer, pc, failure, registry, mapping, plan, banned, audit>>

RepairFailed ==
  /\ pc = "repair" /\ todo = {}
  /\ ~progress \/ round = MaxRounds
  /\ Fail("ghosts")
  /\ UNCHANGED <<config, layer, registry, mapping, plan, repair, audit>>

\* Remedy 1: an idle resident that is in the way gets another free seat.
NewSeats(victim) ==
  IF victim \in Players \/ zoneSeat[victim] = Nowhere
     \/ decision[victim].kind \notin {"none", "STAY"}
  THEN {}
  ELSE {s \in Seats \ (OccupiedSeats \cup TargetsOf({"RESEAT"}) \cup Placed) :
          /\ <<"seat", victim, s>> \notin banned
          /\ ~Sweeps(BackLegs \cup OutLegs, s)
          /\ \A a \in Atoms \ {victim} :
               ~Hits(zoneSeat[victim], s, Pos(a)) /\ ~Hits(zoneSeat[victim], s, T1(a))}

\* Remedy 2: the atom whose decision it is goes elsewhere.
NewTargets(phase, owner) ==
  LET kind == decision[owner].kind
      pool == IF kind = "RESEAT"
              THEN Seats \ (OccupiedSeats \cup TargetsOf({kind}) \cup Placed)
              ELSE Storage \ (OccupiedStorage \cup TargetsOf({"RETURN", "PARK"}))
  IN IF owner \notin Movers THEN {}
     ELSE {s \in pool \ {Pos(owner)} :
             /\ <<"dec", owner, s>> \notin banned
             /\ \A a \in Atoms \ {owner} :
                  /\ ~Hits(Pos(owner), s, T1(a))
                  /\ ~Hits(Pos(owner), s, IF phase = "back" THEN Pos(a) ELSE T2(a))
             /\ phase = "back" => ~Sweeps(OutLegs, s)}

\* Remedy 3: a gate goes elsewhere, the owner's or, if that is no gate's atom,
\* the one of a victim that is seated already.
GateToMove(owner, victim) ==
  {i \in DOMAIN Target :
     \/ owner \in SeatsOf(Target[i])
     \/ /\ owner \notin Players /\ victim \in SeatsOf(Target[i])
        /\ \E q \in SeatsOf(Target[i]) : T1(q) = seat[q]}

SiteOf(i) == {seat[q] : q \in SeatsOf(Target[i])}

NewSites(i) ==
  {p \in Pairs :
     /\ \A k \in DOMAIN Target : SiteOf(k) # SeatsOf(p)
     /\ <<"gate", i, SeatsOf(p)>> \notin banned
     /\ Clear(i, p, Movers)
     /\ \A k \in 1..2, a \in Atoms \ SeatsOf(Target[i]) :
          LET s == Oriented(Target[i], p)[k]
          IN ~Hits(T1(Target[i][k]), s, T1(a)) /\ ~Hits(T1(Target[i][k]), s, T2(a))}

\* One issue of the round, mended by the first remedy that applies.
MakeWay(issue) ==
  /\ \E s \in NewSeats(issue[3]) :
       decision' = [decision EXCEPT ![issue[3]] = [kind |-> "RESEAT", loc |-> s]]
  /\ banned' = banned \cup {<<"seat", issue[3], zoneSeat[issue[3]]>>}
  /\ progress' = TRUE
  /\ UNCHANGED seat

GoElsewhere(issue) ==
  /\ NewSeats(issue[3]) = {}
  /\ \E s \in NewTargets(issue[1], issue[2]) :
       /\ decision' = [decision EXCEPT ![issue[2]].loc = s]
       /\ banned' = banned \cup {<<"dec", issue[2], s>>}
  /\ progress' = TRUE
  /\ UNCHANGED seat

MoveGate(issue) ==
  /\ NewSeats(issue[3]) = {} /\ NewTargets(issue[1], issue[2]) = {}
  /\ \E i \in GateToMove(issue[2], issue[3]) : \E p \in NewSites(i) :
       LET s == Oriented(Target[i], p)
       IN /\ seat' = [seat EXCEPT ![Target[i][1]] = s[1], ![Target[i][2]] = s[2]]
          /\ banned' = banned \cup {<<"gate", i, SiteOf(i)>>}
  /\ progress' = TRUE
  /\ UNCHANGED decision

NoRemedy(issue) ==
  /\ NewSeats(issue[3]) = {} /\ NewTargets(issue[1], issue[2]) = {}
  /\ \A i \in GateToMove(issue[2], issue[3]) : NewSites(i) = {}
  /\ UNCHANGED <<decision, seat, banned, progress>>

FixIssue ==
  /\ pc = "repair"
  /\ \E issue \in todo :
       /\ MakeWay(issue) \/ GoElsewhere(issue) \/ MoveGate(issue) \/ NoRemedy(issue)
       /\ todo' = todo \ {issue}
  /\ UNCHANGED <<config, layer, pc, failure, registry, mapping, native, round, audit>>

-----------------------------------------------------------------------------
(* The stream and the registry move on.                                    *)

\* _append_boundary.
Boundary == [q \in Atoms |-> IF q \in Movers THEN decision[q].loc ELSE LastOf(mapping)[q]]

\* Mutant: a resident that was given another seat is forgotten.
SeatAfterBackUnsynced(q) ==
  IF engine # "match" /\ decision[q].kind \in {"RETURN", "PARK"} THEN Nowhere
  ELSE zoneSeat[q]

\* After the repair the engines bring the registry up to date, "match" does not.
SeatAfterBack(q) ==
  IF engine # "match" /\ decision[q].kind \in {"RETURN", "PARK"} THEN Nowhere
  ELSE IF engine # "match" /\ decision[q].kind = "RESEAT" THEN decision[q].loc
  ELSE zoneSeat[q]

\* return_to_storage, then enter_zone.
SiteAfterRound(q) ==
  IF q \in Players THEN Nowhere
  ELSE IF engine # "match" /\ decision[q].kind \in {"RETURN", "PARK"} THEN decision[q].loc
  ELSE storageSite[q]

\* Mutant: a resident that changes its seat starts anew.
IdleAfterPulseReseat(q) ==
  IF q \in Players \/ SeatAfterBack(q) = Nowhere \/ decision[q].kind = "RESEAT" THEN 0
  ELSE idle[q] + 1

\* record_rydberg_pulse, then enter_zone: who took part starts anew.
IdleAfterPulse(q) ==
  IF q \in Players \/ SeatAfterBack(q) = Nowhere THEN 0 ELSE idle[q] + 1

\* What was planned, decided and banned is local to the round.
ForgetRound ==
  /\ seat' = Unseated /\ decision' = NoDecisions
  /\ todo' = {} /\ progress' = FALSE /\ round' = 0 /\ banned' = {}

\* Mutant: the gate mapping is committed for the boundary.
SourceCommittedLate == <<LastOf(mapping), [q \in Atoms |-> T2(q)]>>

\* What commit_source is given.
SourceCommitted == <<LastOf(mapping), Boundary>>

CommitRound ==
  /\ pc = "commit" /\ layer + 1 < Rounds
  /\ LET gate == [q \in Atoms |-> IF q \in Players THEN seat[q] ELSE Boundary[q]]
     IN mapping' = IF layer = -1 THEN Append(mapping, gate) ELSE mapping \o <<Boundary, gate>>
  /\ zoneSeat' = [q \in Atoms |-> IF q \in Players THEN seat[q] ELSE SeatAfterBack(q)]
  /\ storageSite' = [q \in Atoms |-> SiteAfterRound(q)]
  /\ idle' = [q \in Atoms |-> IdleAfterPulse(q)]
  /\ routed' = IF engine = "rich" /\ layer >= 0 THEN Append(routed, SourceCommitted) ELSE routed
  /\ layer' = layer + 1
  /\ pc' = "plan"
  /\ ForgetRound
  /\ UNCHANGED <<config, failure, native, expected>>

\* _finish_terminal_boundary: everybody stays, or everybody returns at once.
Terminal ==
  /\ pc = "plan" /\ layer + 1 = Rounds
  /\ \E sites \in ReturnSites(IF finalReturn THEN Residents ELSE {}) :
       /\ ReturnAll(sites)
       /\ decision' = DecisionsFor(sites, Residents)
  /\ seat' = Unseated /\ native' = FALSE
  /\ StartRepair
  /\ UNCHANGED <<config, layer, failure, mapping, audit>>

CommitTerminal ==
  /\ pc = "commit" /\ layer + 1 = Rounds
  /\ mapping' = Append(mapping, Boundary)
  /\ routed' = IF engine = "rich" THEN Append(routed, SourceCommitted) ELSE routed
  /\ IF engine = "rich" /\ expected # <<>> /\ Movers # {} THEN Fail("terminal")
     ELSE IF engine = "rich" /\ expected \notin {<<>>, routed'} THEN Fail("audit")
     ELSE pc' = "done" /\ UNCHANGED failure
  /\ ForgetRound
  /\ UNCHANGED <<config, layer, registry, native, expected>>

Next ==
  \/ PlanRound \/ DecideLazy \/ GaStep \/ GaStepNoMenu \/ RichRefused \/ RichStep
  \/ RepairDone \/ RepairRound \/ RepairFailed \/ FixIssue
  \/ CommitRound \/ Terminal \/ CommitTerminal

Spec == Init /\ [][Next]_vars

-----------------------------------------------------------------------------
Kinds == {"none", "STAY"} \cup Moving

\* The registry has each atom in exactly one of its two ledgers, at every
\* moment of every engine.
LedgerIsPartition ==
  \A q \in Atoms : (zoneSeat[q] = Nowhere) # (storageSite[q] = Nowhere)

Settled == pc \in {"plan", "done"}

\* "Who is where" across the rounds: between two rounds the registry and the
\* stream agree on every atom.  "match" is left out: what its repair changes
\* after decide_lazy never reaches the registry.
RegistryFollowsStream ==
  Settled /\ engine # "match" => \A q \in Atoms : Pos(q) = LastOf(mapping)[q]

\* _assert_contract: no mapping of the stream seats two atoms on one site.
EveryMappingInjective == \A i \in DOMAIN mapping : Injective(mapping[i])

\* The contract holds all along for the engines that keep their registry in
\* step: whatever double bookings the valve and the menus permit, the repair
\* has removed before the commit.
NeverDoubleBooked == engine # "match" => EveryMappingInjective

\* The legs that the repair found clean are the legs that the router will
\* see: between the positions of two consecutive mappings no leg sweeps over
\* an atom, wherever that atom is before and after the phase.
CleanPhase(before, after) ==
  \A q, a \in Atoms :
    q # a => /\ ~Hits(before[q], after[q], before[a])
             /\ ~Hits(before[q], after[q], after[a])
LastLegsClean ==
  LET n == Len(mapping) IN
  n >= 3 => CleanPhase(mapping[n - 2], mapping[n - 1]) /\ CleanPhase(mapping[n - 1], mapping[n])

ExecutedLegsClean == pc = "plan" /\ engine # "match" /\ ~native => LastLegsClean

\* "Every leg on its own must not hit any standing atom" (_repair_ghosts), of
\* every engine's legs and the terminal ones too.
EveryLegClean == Settled /\ ~native => LastLegsClean

\* The rent a resident pays counts the pulses since its last gate: not one
\* more, whatever it was reseated, and none for an atom in storage.
RentCountsIdlePulses ==
  Settled => \A q \in Atoms :
    idle[q] = IF zoneSeat[q] = Nowhere THEN 0
              ELSE layer - CHOOSE r \in 0..layer : /\ q \in Participants(r)
                                                   /\ \A e \in (r + 1)..layer :
                                                        q \notin Participants(e)

\* After every round but the first the seats taken are within the capacity,
\* or only the atoms of the gates are left in the zone.  "ga" is left out: its
\* valve does not reach residents without a use to come.
CapacityHeld ==
  pc = "plan" /\ layer >= 1 /\ engine # "ga" =>
    Cardinality(Residents) <= theta \/ Residents = Participants(layer)

\* What the audited scheduler commits, boundary by boundary, is what the
\* candidates were evaluated with: the audit never refuses a run.
AuditAgrees == failure # "audit"
=============================================================================
