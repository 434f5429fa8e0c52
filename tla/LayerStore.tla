----------------------------- MODULE LayerStore -----------------------------
(***************************************************************************)
(* The layer store (streaming/qasm_sqlite.py): a circuit is read gate by   *)
(* gate, and each gate becomes a row with two layers.  The dependency      *)
(* layer counts the gates before it on its atoms, the CZ layer only the    *)
(* two-qubit ones.  The compilers read the rows back by either of them.    *)
(***************************************************************************)
EXTENDS Integers, Sequences, FiniteSets

CONSTANT NAtoms

Atoms == 0..(NAtoms - 1)

\* A gate is the sequence of its atoms.
Gate == {<<q>> : q \in Atoms} \cup {<<p, q>> : p, q \in Atoms}

NoLayer == -1

Row == [atoms : Gate, layer : Nat, cz : Nat \cup {NoLayer}]

AtomsOf(row) == {row.atoms[k] : k \in DOMAIN row.atoms}

Largest(S) == CHOOSE x \in S : \A y \in S : y <= x

\* The counters of the atoms, next_layer and next_two_qubit_layer, and the
\* rows written so far.
EmptyStore == [next |-> [q \in Atoms |-> 0], nextCz |-> [q \in Atoms |-> 0], rows |-> <<>>]

\* Mutant: a one-qubit gate moves its atom on to the next CZ layer.
LayerEventCounting(acc, gate) ==
  LET touched == {gate[k] : k \in DOMAIN gate}
      layer == Largest({acc.next[q] : q \in touched})
      cz == Largest({acc.nextCz[q] : q \in touched})
      row == [atoms |-> gate, layer |-> layer, cz |-> IF Len(gate) = 2 THEN cz ELSE NoLayer]
  IN [next |-> [q \in Atoms |-> IF q \in touched THEN layer + 1 ELSE acc.next[q]],
      nextCz |-> [q \in Atoms |-> IF q \in touched THEN cz + 1 ELSE acc.nextCz[q]],
      rows |-> Append(acc.rows, row)]

\* Mutant: the layer is that of the first atom.
LayerEventFirst(acc, gate) ==
  LET touched == {gate[k] : k \in DOMAIN gate}
      layer == acc.next[gate[1]]
      cz == Largest({acc.nextCz[q] : q \in touched})
      row == [atoms |-> gate, layer |-> layer, cz |-> IF Len(gate) = 2 THEN cz ELSE NoLayer]
  IN [next |-> [q \in Atoms |-> IF q \in touched THEN layer + 1 ELSE acc.next[q]],
      nextCz |-> [q \in Atoms |-> IF q \in touched /\ Len(gate) = 2 THEN cz + 1
                                  ELSE acc.nextCz[q]],
      rows |-> Append(acc.rows, row)]

\* One statement of the circuit.
LayerEvent(acc, gate) ==
  LET touched == {gate[k] : k \in DOMAIN gate}
      layer == Largest({acc.next[q] : q \in touched})
      cz == Largest({acc.nextCz[q] : q \in touched})
      row == [atoms |-> gate, layer |-> layer, cz |-> IF Len(gate) = 2 THEN cz ELSE NoLayer]
  IN [next |-> [q \in Atoms |-> IF q \in touched THEN layer + 1 ELSE acc.next[q]],
      nextCz |-> [q \in Atoms |-> IF q \in touched /\ Len(gate) = 2 THEN cz + 1
                                  ELSE acc.nextCz[q]],
      rows |-> Append(acc.rows, row)]

\* build_layer_store: the rows of a circuit, a row's index being its seq.
Stored(gates) ==
  LET scan[n \in 0..Len(gates)] ==
        IF n = 0 THEN EmptyStore ELSE LayerEvent(scan[n - 1], gates[n])
  IN scan[Len(gates)].rows

Czs(store) == {i \in DOMAIN store : store[i].cz # NoLayer}
OfAtom(store, q) == {i \in DOMAIN store : q \in AtomsOf(store[i])}

\* The number of dependency layers, max_layer + 1.
Depth(store) == 1 + Largest({-1} \cup {store[i].layer : i \in DOMAIN store})
LastCzLayer(store) == Largest({-1} \cup {store[i].cz : i \in DOMAIN store})

\* iter_dependency_layers: the batch of one layer.
Batch(store, l) == {i \in DOMAIN store : store[i].layer = l}

\* two_qubit_window.
Window(store, b, horizon) == {i \in Czs(store) : store[i].cz \in b..(b + horizon + 1)}

\* ORDER BY seq: the k-th of some numbers has k of them up to itself.
InOrder(rows) ==
  [k \in 1..Cardinality(rows) |-> CHOOSE i \in rows : Cardinality({j \in rows : j <= i}) = k]

-----------------------------------------------------------------------------
\* The gates of earlier that share an atom with row i.
Before(store, i, earlier) ==
  {j \in earlier : j < i /\ AtomsOf(store[j]) \cap AtomsOf(store[i]) # {}}

\* As soon as possible: above every gate it waits for, and directly above one
\* of them or at the bottom.
Asap(store, rows, layer) ==
  \A i \in rows :
    /\ \A j \in Before(store, i, rows) : layer[j] < layer[i]
    /\ layer[i] = 0 \/ \E j \in Before(store, i, rows) : layer[j] = layer[i] - 1
=============================================================================
