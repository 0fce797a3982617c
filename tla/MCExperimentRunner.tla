------------------------- MODULE MCExperimentRunner -------------------------
(* Small instances of ExperimentRunner for TLC: r1 is run twice with two   *)
(* variations, r2 and r3 once with one.                                    *)
EXTENDS ExperimentRunner

CONSTANTS r1, r2, r3, ea, eb, ec, ed

MCRuns       == [r \in Requests |-> IF r = r1 THEN 2 ELSE 1]
MCVariations == [r \in Requests |->
                   IF r = r1 THEN <<ea, eb>> ELSE IF r = r2 THEN <<ec>> ELSE <<ed>>]
NoneFaulty   == {}
AllFaulty    == Stages \ {"settle"}
=============================================================================
