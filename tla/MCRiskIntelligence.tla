------------------------ MODULE MCRiskIntelligence ------------------------
(* Three models; a supplier with the worst features and one that is unknown; an
   indicator whose thresholds are given the wrong way round, and an inverted one. *)
EXTENDS RiskIntelligence, TLC

CONSTANTS m1, m2, m3, a1, a2, c1, t1, s1, s2, k1, k2, q1, w1, w2

MCFeatures ==
    s1 :> [known |-> TRUE, measured |-> TRUE, bought |-> TRUE, fill |-> 1, defect |-> 100,
           invoice |-> 1, age |-> 400, red |-> 7, kri |-> 100, country |-> 95,
           activeCerts |-> 0, expired |-> 5, spend |-> 95]
    @@ s2 :> [known |-> FALSE, measured |-> FALSE, bought |-> FALSE, fill |-> 50, defect |-> 0,
              invoice |-> 100, age |-> 999, red |-> 0, kri |-> 50, country |-> 30,
              activeCerts |-> 0, expired |-> 0, spend |-> 0]
MCOtdRates == {{}, {0}, {1}}
MCModelScore == m1 :> 2000 @@ m2 :> 9000 @@ m3 :> 5000
MCDefinition ==
    k1 :> [green |-> 2, amber |-> 1, inverted |-> FALSE, auto |-> TRUE]
    @@ k2 :> [green |-> 1, amber |-> 2, inverted |-> TRUE, auto |-> TRUE]
=============================================================================
