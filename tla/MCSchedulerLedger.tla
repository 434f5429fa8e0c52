--------------------------- MODULE MCSchedulerLedger ---------------------------
(* A small ledger: two atoms, two AODs, one zone.  The jobs are a plain    *)
(* one-row move and a two-row move whose second row is loaded after a      *)
(* parking move; the first block names one atom twice, as the router may.  *)
EXTENDS SchedulerLedger

CONSTANTS a1, a2

MCBlocks == {<<a1, a1>>, <<a2>>}
MCPulses == {<<a1, a2>>}

Leg(kind, start, stop, atoms) ==
  [kind |-> kind, start |-> start, stop |-> stop, atoms |-> atoms]

OneRow(a) == <<Leg("load", 0, 1, <<a>>), Leg("move", 1, 2, <<a>>),
               Leg("store", 2, 3, <<a>>)>>
TwoRows == <<Leg("load", 0, 1, <<a1>>), Leg("move", 1, 2, <<a1>>),
             Leg("load", 2, 3, <<a2>>), Leg("move", 3, 3, <<a1, a2>>),
             Leg("store", 3, 4, <<a1, a2>>)>>

MCJobs == {OneRow(a1), TwoRows}
================================================================================
