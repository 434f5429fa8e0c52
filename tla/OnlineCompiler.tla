--------------------------- MODULE OnlineCompiler ---------------------------
(***************************************************************************)
(* compile_large_streaming (streaming/large_compiler.py): the compiler     *)
(* that keeps no more than one dependency layer of a circuit in memory.    *)
(* It reads the layer store, decides group by group which atoms wait in    *)
(* the entanglement zone, moves one atom at a time, writes the trace as it *)
(* goes and checkpoints between layers, so that another process can go on. *)
(*                                                                         *)
(* Each atom has a storage site of its own, Home; the sites of the zone    *)
(* come in pairs, 2p - 1 and 2p.  mapping is also what the code keeps a    *)
(* second and a third time, as site_owner and residents: _move_atom alone  *)
(* changes the three.  Paths and times are left out, and so are costs:     *)
(* where a stay is weighed against exposures the model may decide either.  *)
(***************************************************************************)
EXTENDS LayerStore

CONSTANTS
  NPairs,
  Circuits,       \* the circuits, as sequences of gates
  Methods,        \* the methods offered
  Horizon,        \* what M4 sees beyond the next CZ layer
  Interval,       \* the cadence of checkpoints, in layers
  Limits,         \* values of max_layers_per_invocation, 0 for None
  Longest,        \* the depth of the deepest circuit
  MaxKills        \* processes that end before their time

ASSUME CompilerAssumption ==
  /\ NAtoms \in Nat /\ NPairs \in Nat \ {0}
  /\ Circuits \subseteq Seq(Gate)
  /\ \A c \in Circuits : \A i \in DOMAIN c : Len(c[i]) = 2 => c[i][1] # c[i][2]
  /\ \A c \in Circuits : Len(c) <= Longest
  /\ Methods \subseteq {"M1", "M2", "M3", "M4"}
  /\ Horizon \in Nat /\ Interval \in Nat \ {0}
  /\ Limits \subseteq Nat /\ Longest \in Nat /\ MaxKills \in Nat

Pairs == 1..NPairs
Home == 0
Sites == 1..(2 * NPairs)

VARIABLES
  store, method, limit,  \* the call
  pc,             \* "idle" without a process, "done" and "failed" for good
  failure,        \* the error that was raised
  mapping,        \* the site of every atom
  nextLayer, processed,  \* dependency layers compiled, and in this process
  rest,           \* two-qubit rows of the layer that are in no group yet
  boundary,       \* the CZ layer of the group
  pending,        \* its rows still to be looked at, which is done in order
  remaining,      \* those no pair was free for
  chunk,          \* those placed for the next pulse: row and pair
  lastSaved,      \* CheckpointController._last_layer
  trace,          \* the file: for each event its rows, none for the first
  saved,          \* checkpoint.json
  result,         \* result.json
  kills

call == <<store, method, limit>>
group == <<rest, boundary, pending, remaining, chunk>>
disk == <<saved, result>>
vars == <<call, pc, failure, mapping, nextLayer, processed, group, lastSaved, trace, disk, kills>>

AllHome == [q \in Atoms |-> Home]
NoCheckpoint == [layer |-> -1, mapping |-> AllHome, trace |-> <<>>]
HasCheckpoint == saved.layer >= 0
NoResult == <<>>
InitEvent == {}

Fail(why) == pc' = "failed" /\ failure' = why

Residents == {q \in Atoms : mapping[q] # Home}
PairOf(site) == (site + 1) \div 2
SitesOf(p) == {2 * p - 1, 2 * p}

\* Mutant: the neighbour is always on the right.
OtherNext(site) == site + 1

\* The other site of a pair.
Other(site) == IF site % 2 = 1 THEN site + 1 ELSE site - 1

\* _return_home.
Returned(m, atoms) == [q \in Atoms |-> IF q \in atoms THEN Home ELSE m[q]]

AtomsIn(rows) == UNION {AtomsOf(store[i]) : i \in rows}

-----------------------------------------------------------------------------
Init ==
  /\ store \in {Stored(c) : c \in Circuits} /\ method \in Methods /\ limit \in Limits
  /\ pc = "idle" /\ failure = "none"
  /\ mapping = AllHome
  /\ nextLayer = 0 /\ processed = 0
  /\ rest = {} /\ boundary = 0 /\ pending = {} /\ remaining = {} /\ chunk = {}
  /\ lastSaved = 0
  /\ trace = <<>>
  /\ saved = NoCheckpoint /\ result = NoResult
  /\ kills = 0

\* _start_fresh: nothing of an earlier compile may be there, not even a trace.
StartFresh ==
  /\ pc = "idle"
  /\ trace = <<>> /\ ~HasCheckpoint
  /\ mapping' = AllHome
  /\ trace' = <<InitEvent>>
  /\ nextLayer' = 0 /\ lastSaved' = 0 /\ processed' = 0
  /\ pc' = "layer"
  /\ UNCHANGED <<call, failure, group, disk, kills>>

SeatsAlone(m) == \A a, b \in Atoms : m[a] = m[b] /\ m[a] # Home => a = b
Begins(part, whole) == Len(part) <= Len(whole) /\ SubSeq(whole, 1, Len(part)) = part

\* Mutant: the uncommitted suffix stays in the trace.
CutAppending == trace

\* The trace is cut back to the size the checkpoint names.
Cut == SubSeq(trace, 1, Len(saved.trace))

\* _resume: the trace must then be the one that the checkpoint counts, and the
\* mapping must seat everybody alone.
Resume ==
  /\ pc = "idle"
  /\ HasCheckpoint
  /\ mapping' = saved.mapping
  /\ nextLayer' = saved.layer /\ lastSaved' = saved.layer /\ processed' = 0
  /\ IF Begins(saved.trace, trace) /\ SeatsAlone(saved.mapping)
     THEN trace' = Cut /\ pc' = "layer" /\ UNCHANGED failure
     ELSE Fail("resume") /\ UNCHANGED trace
  /\ UNCHANGED <<call, group, disk, kills>>

-----------------------------------------------------------------------------
(* The residency policy: the answers it may give.                          *)

SeenAhead == IF method = "M4" THEN Horizon ELSE 0

\* The CZ layers from lower on that use q, as far as the window shows at b.
UsesOf(q, b, lower) ==
  {store[i].cz : i \in {r \in Window(store, b, SeenAhead) \cap OfAtom(store, q) :
                          store[r].cz >= lower}}

\* _physical_stay_decision: without a use in sight there is no reason to stay,
\* without a pulse before it there is none to go.
Weighed(uses, b) ==
  IF uses = {} THEN {FALSE}
  ELSE IF \E l \in uses : l <= b + 1 THEN {TRUE}
  ELSE BOOLEAN

\* Mutant: M2 waits for any gate to come.
StayAfterGateAny(q, b) ==
  LET uses == UsesOf(q, b, b + 1) IN
  CASE method = "M1" -> {FALSE}
    [] method = "M2" -> {\E i \in Czs(store) \cap OfAtom(store, q) : store[i].cz > b}
    [] OTHER -> IF b >= LastCzLayer(store) THEN {TRUE} ELSE Weighed(uses, b)

\* _should_stay_after_gate.
StayAfterGate(q, b) ==
  LET uses == UsesOf(q, b, b + 1) IN
  CASE method = "M1" -> {FALSE}
    [] method = "M2" -> {b + 1 \in uses}
    [] OTHER -> IF b >= LastCzLayer(store) THEN {TRUE} ELSE Weighed(uses, b)

\* _should_idle_resident_stay.
StayIdle(q, b) ==
  LET uses == UsesOf(q, b, b) IN
  CASE method = "M1" -> {FALSE}
    [] method = "M2" -> {b \in uses}
    [] OTHER -> Weighed(uses, b)

-----------------------------------------------------------------------------
(* A dependency layer.                                                     *)

\* The one-qubit gates at once, wherever their atoms are, then the CZs group
\* by group.
BeginLayer ==
  /\ pc = "layer"
  /\ nextLayer < Depth(store)
  /\ limit # 0 => processed < limit
  /\ LET batch == Batch(store, nextLayer)
         ones == InOrder(batch \ Czs(store))
     IN /\ trace' = trace \o [k \in DOMAIN ones |-> {ones[k]}]
        /\ rest' = batch \cap Czs(store)
  /\ pc' = "groups"
  /\ UNCHANGED <<call, failure, mapping, nextLayer, processed,
                 boundary, pending, remaining, chunk, lastSaved, disk, kills>>

\* _compile_cz_group begins: residents without a gate in the group are asked
\* again whether they stay.
BeginGroup ==
  /\ pc = "groups"
  /\ \E b \in {store[i].cz : i \in rest} :
       LET rows == {i \in rest : store[i].cz = b}
           idlers == Residents \ AtomsIn(rows)
       IN /\ \A i \in rest : b <= store[i].cz
          /\ boundary' = b
          /\ pending' = rows
          /\ rest' = rest \ rows
          /\ \E stays \in [idlers -> BOOLEAN] :
               /\ \A q \in idlers : stays[q] \in StayIdle(q, b)
               /\ mapping' = Returned(mapping, {q \in idlers : ~stays[q]})
  /\ pc' = "pass"
  /\ UNCHANGED <<call, failure, nextLayer, processed, remaining, chunk, lastSaved,
                 trace, disk, kills>>

UsedPairs == {g.pair : g \in chunk}
FreePairs(m) == {p \in Pairs \ UsedPairs : \A q \in Atoms : m[q] \notin SitesOf(p)}

\* Two residents on different pairs: one of them goes home first.
BroughtTogether(a, b) ==
  IF mapping[a] # Home /\ mapping[b] # Home /\ PairOf(mapping[a]) # PairOf(mapping[b])
  THEN Returned(mapping, {Largest({a, b})})
  ELSE mapping

\* The pairs of which _assign_gate_pair takes the first: the one of an atom
\* already seated, else the free ones.
Assignments(m, a, b) ==
  LET seated == {PairOf(m[q]) : q \in {p \in {a, b} : m[p] # Home}} \ UsedPairs
  IN IF seated # {} THEN seated ELSE FreePairs(m)

\* Mutant: whoever sits beside the resident stays there.
ClearedNot(m, a, b, p) == m

\* Whoever else sits on the pair of a seated atom goes home.
Cleared(m, a, b, p) ==
  IF {m[a], m[b]} \cap SitesOf(p) = {} THEN m
  ELSE Returned(m, {q \in Atoms \ {a, b} : m[q] \in SitesOf(p)})

\* _place_gate: the one that is on the pair keeps its site.
SiteFor(m, a, b, p) ==
  IF m[a] \in SitesOf(p) THEN m[a]
  ELSE IF m[b] \in SitesOf(p) THEN Other(m[b])
  ELSE 2 * p - 1

PlaceGate ==
  /\ pc = "pass"
  /\ \E g \in pending :
       LET a == store[g].atoms[1]
           b == store[g].atoms[2]
           m == BroughtTogether(a, b)
       IN /\ \A other \in pending : g <= other
          /\ pending' = pending \ {g}
          /\ \/ /\ Assignments(m, a, b) = {}
                /\ mapping' = m
                /\ remaining' = remaining \cup {g}
                /\ UNCHANGED <<pc, failure, chunk>>
             \/ \E p \in Assignments(m, a, b) :
                  LET cleared == Cleared(m, a, b, p)
                      site == SiteFor(cleared, a, b, p)
                  IN /\ \A r \in Assignments(m, a, b) : p <= r
                     /\ UNCHANGED remaining
                     /\ IF \E q \in Atoms \ {a, b} : cleared[q] \in SitesOf(p)
                        THEN Fail("occupied") /\ UNCHANGED <<mapping, chunk>>
                        ELSE /\ mapping' = [cleared EXCEPT ![a] = site, ![b] = Other(site)]
                             /\ chunk' = chunk \cup {[row |-> g, pair |-> p]}
                             /\ UNCHANGED <<pc, failure>>
  /\ UNCHANGED <<call, nextLayer, processed, rest, boundary, lastSaved, trace, disk, kills>>

\* _evict_resident: who does not wait for a gate, the last of them.
Victims(protected) ==
  {q \in Residents \ protected : \A p \in Residents \ protected : p <= q}

\* No gate of the pass found a pair: room is made for the next pass, by
\* somebody else or by one of two atoms that sit apart.
MakeRoom ==
  /\ pc = "pass" /\ pending = {} /\ chunk = {}
  /\ LET protected == AtomsIn(remaining)
         apart == AtomsOf(store[CHOOSE g \in remaining : \A h \in remaining : g <= h])
                    \cap Residents
     IN IF Residents \subseteq protected /\ Cardinality(apart) < 2
        THEN Fail("room") /\ UNCHANGED mapping
        ELSE /\ mapping' = Returned(mapping, IF Residents \subseteq protected
                                            THEN {Largest(apart)} ELSE Victims(protected))
             /\ UNCHANGED <<pc, failure>>
  /\ pending' = remaining /\ remaining' = {}
  /\ UNCHANGED <<call, nextLayer, processed, rest, boundary, chunk, lastSaved, trace, disk, kills>>

ChunkRows == {g.row : g \in chunk}
Pulsed == AtomsIn(ChunkRows)

\* _emit_cz_chunk, then each atom of the chunk stays or goes.
Pulse ==
  /\ pc = "pass" /\ pending = {} /\ chunk # {}
  /\ trace' = Append(trace, ChunkRows)
  /\ \E stays \in [Pulsed -> BOOLEAN] :
       /\ \A q \in Pulsed : stays[q] \in StayAfterGate(q, boundary)
       /\ mapping' = Returned(mapping, {q \in Pulsed : ~stays[q]})
  /\ pending' = remaining /\ remaining' = {} /\ chunk' = {}
  /\ pc' = IF remaining = {} THEN "groups" ELSE "pass"
  /\ UNCHANGED <<call, failure, nextLayer, processed, rest, boundary, lastSaved, disk, kills>>

EndLayer ==
  /\ pc = "groups" /\ rest = {}
  /\ nextLayer' = nextLayer + 1 /\ processed' = processed + 1
  /\ pc' = "cadence"
  /\ UNCHANGED <<call, failure, mapping, group, lastSaved, trace, disk, kills>>

-----------------------------------------------------------------------------
(* Checkpoints and the end.                                                *)

\* Mutant: the checkpoint counts the layer it is in.
SaveAhead ==
  /\ saved' = [layer |-> nextLayer + 1, mapping |-> mapping, trace |-> trace]
  /\ lastSaved' = nextLayer

\* Mutant: the checkpoint names the layer of the one before.
SaveLastLayer ==
  /\ saved' = [layer |-> lastSaved, mapping |-> mapping, trace |-> trace]
  /\ lastSaved' = nextLayer

\* The factory's checkpoint, saved; the writer was closed for it.
Save ==
  /\ saved' = [layer |-> nextLayer, mapping |-> mapping, trace |-> trace]
  /\ lastSaved' = nextLayer

\* _maybe_checkpoint after a layer: by the count of layers, or by the clock.
Cadence ==
  /\ pc = "cadence"
  /\ \/ Save
     \/ nextLayer - lastSaved < Interval /\ UNCHANGED <<saved, lastSaved>>
  /\ pc' = "layer"
  /\ UNCHANGED <<call, failure, mapping, nextLayer, processed, group, trace, result, kills>>

\* Mutant: the invocation ends with the checkpoint it last happened to make.
PauseUnsaved ==
  /\ pc = "layer"
  /\ nextLayer < Depth(store)
  /\ limit # 0 /\ processed >= limit
  /\ pc' = "idle"
  /\ UNCHANGED <<call, failure, mapping, nextLayer, processed, group, lastSaved,
                 trace, saved, result, kills>>

\* The layers of this invocation are done, those of the circuit are not.
Pause ==
  /\ pc = "layer"
  /\ nextLayer < Depth(store)
  /\ limit # 0 /\ processed >= limit
  /\ Save
  /\ pc' = "idle"
  /\ UNCHANGED <<call, failure, mapping, nextLayer, processed, group, trace, result, kills>>

Finish ==
  /\ pc = "layer"
  /\ nextLayer >= Depth(store)
  /\ Save
  /\ pc' = "verify"
  /\ UNCHANGED <<call, failure, mapping, nextLayer, processed, group, trace, result, kills>>

\* The gates of a trace on one atom, in its order, and those of the circuit.
GatesOn(q, t) ==
  LET hits == InOrder({n \in DOMAIN t : q \in AtomsIn(t[n])})
  IN [k \in DOMAIN hits |-> CHOOSE i \in t[hits[k]] : q \in AtomsOf(store[i])]
Ledger(q) == InOrder(OfAtom(store, q))

Complete(t) == \A q \in Atoms : GatesOn(q, t) = Ledger(q)

\* _verify_final_result, then the result is put in place.
Publish ==
  /\ pc = "verify"
  /\ IF Complete(trace) /\ saved.trace = trace
     THEN result' = trace /\ pc' = "done" /\ UNCHANGED failure
     ELSE Fail("verify") /\ UNCHANGED result
  /\ UNCHANGED <<call, mapping, nextLayer, processed, group, lastSaved, trace, saved, kills>>

\* The process ends: what was not flushed is lost, and all of its memory.  The
\* file itself stays, and so does, in the model, its first event.
Kill ==
  /\ pc \notin {"idle", "done", "failed"}
  /\ kills < MaxKills /\ kills' = kills + 1
  /\ \E n \in Largest({1, Len(saved.trace)})..Len(trace) : trace' = SubSeq(trace, 1, n)
  /\ pc' = "idle"
  /\ mapping' = AllHome /\ nextLayer' = 0 /\ processed' = 0 /\ lastSaved' = 0
  /\ rest' = {} /\ boundary' = 0 /\ pending' = {} /\ remaining' = {} /\ chunk' = {}
  /\ UNCHANGED <<call, failure, disk>>

Compile ==
  \/ BeginLayer \/ BeginGroup \/ PlaceGate \/ MakeRoom \/ Pulse \/ EndLayer
  \/ Cadence \/ Pause \/ Finish \/ Publish

Next == StartFresh \/ Resume \/ Compile \/ Kill

Spec == Init /\ [][Next]_vars

\* A running process goes on, and a compile that was interrupted is resumed.
Fairness == WF_vars(Compile) /\ WF_vars(Resume)
FairSpec == Spec /\ Fairness

-----------------------------------------------------------------------------
\* Each row has two atoms or no CZ layer, and its layers are the earliest
\* there are: that of all gates, and that of the CZs among themselves.
StoreIsSound ==
  /\ store \in Seq(Row)
  /\ \A i \in Czs(store) :
       \E p, q \in Atoms : p # q /\ store[i].atoms = <<p, q>>
  /\ Asap(store, DOMAIN store, [i \in DOMAIN store |-> store[i].layer])
  /\ Asap(store, Czs(store), [i \in DOMAIN store |-> store[i].cz])

\* "no free entanglement pair and no evictable resident" and "target SLM site
\* is occupied" are never raised, however the residents and the gates of a
\* group lie: there is always somebody to send home, and who sits on a pair
\* that a gate takes has left it.
NeverOutOfRoom == failure \notin {"room", "occupied"}

\* No checkpoint is refused by the process that goes on from it, and no
\* finished trace by _verify_final_result.
NeverRefused == failure \notin {"resume", "verify"}

\* At every moment, over all the processes of a compile, the trace has the
\* gates of each atom once each and in the order of the circuit: neither
\* deferred gates nor the layers compiled again after a kill are out of place.
LedgerKept ==
  /\ \A q \in Atoms : Begins(GatesOn(q, trace), Ledger(q))
  /\ result # NoResult => Complete(result)

\* The gates of a chunk stay on their pairs while the later ones are placed:
\* each on a pair of its own, and at the pulse on both of its sites.
ChunkStaysPlaced ==
  /\ \A g, h \in chunk : g.pair = h.pair => g = h
  /\ \A g \in chunk : {mapping[q] : q \in AtomsOf(store[g.row])} = SitesOf(g.pair)

AboutToPulse == pc = "pass" /\ pending = {} /\ chunk # {}

\* The CZs of q that are still to come, after those of the chunk.
CzsToCome(q) ==
  (Czs(store) \cap OfAtom(store, q)) \ ((UNION {trace[n] : n \in DOMAIN trace}) \cup ChunkRows)

\* An atom that is lit without a gate has one among the layers from the
\* group's on that the method sees: to come, or consumed layers ago.  A gate
\* of this very layer is no reason, and M1 exposes nobody.  After the last CZ
\* layer M3 and M4 spare themselves the way home.
LitForAReason ==
  AboutToPulse =>
    \A q \in Residents \ Pulsed :
      /\ method # "M1"
      /\ \/ \E i \in Window(store, boundary, SeenAhead) \cap OfAtom(store, q) :
              i \in CzsToCome(q) \/ store[i].layer < nextLayer
         \/ method \in {"M3", "M4"} /\ boundary = LastCzLayer(store)

\* A checkpoint owns its layers: its trace has their gates and no others.
CheckpointOwnsItsLayers ==
  HasCheckpoint =>
    UNION {saved.trace[n] : n \in DOMAIN saved.trace} = {i \in DOMAIN store : store[i].layer < saved.layer}

\* What the output directory promises, counted so that the last layer of
\* every circuit is the same stage.
Log == INSTANCE ResumableLog WITH
  LastStage <- Longest, Full <- "complete", NoResult <- "none",
  saved <- IF HasCheckpoint THEN Longest - Depth(store) + saved.layer ELSE -1,
  result <- IF result = NoResult THEN "none"
            ELSE IF Complete(result) THEN "complete" ELSE "broken"

\* Whatever is killed and resumed, checkpoints only move forward and the
\* result appears once and complete.
ImplementsLog == Log!Spec

\* A compile that has begun is published: no group keeps making room for
\* ever and every invocation gets further.  One that was killed before its
\* first checkpoint has to be started anew in an empty directory.
StartedIsPublished ==
  pc = "layer" ~> (pc = "done" \/ (pc = "idle" /\ ~HasCheckpoint))
=============================================================================
