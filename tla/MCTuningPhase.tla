---------------------------- MODULE MCTuningPhase ----------------------------
(* Two trials; one worker launched on the whole schedule and one on a shard  *)
(* of it, as happens when workers are launched with different counts.        *)
EXTENDS TuningPhase

TwoTrials == <<"t1", "t2">>
Overlapping == [w \in {"w1", "w2"} |-> IF w = "w1" THEN <<"t1", "t2">> ELSE <<"t2">>]
=============================================================================
