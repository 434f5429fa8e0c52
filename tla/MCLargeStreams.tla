--------------------------- MODULE MCLargeStreams ---------------------------
(* Small instances of LargeStreams. *)
EXTENDS LargeStreams

\* The native stream takes part in every stage, the route stream may get two
\* records from one, the decision stream has no initial record.
MCStreamOrder == <<"native", "decisions", "route">>
MCEntries ==
  [s \in 0..LastStage |->
     IF s = 0 THEN <<"native">>
     ELSE IF s = 1 THEN <<"native", "native", "decisions", "route", "route">>
     ELSE <<"native", "decisions", "route">>]
=============================================================================
