-------------------------- MODULE RiskIntelligence --------------------------
(***************************************************************************)
(* The risk intelligence service: scores, the models that make them, and   *)
(* key risk indicators.  Scoring only reads what indicators write, as a    *)
(* feature that may have any value, so the two are checked one at a time:  *)
(* "focus" is chosen at the start.  Under "models" the registry moves and  *)
(* requests score one supplier; under "scores" the models are at rest.     *)
(***************************************************************************)
EXTENDS RiskScoring, KeyRiskIndicators

VARIABLE focus  \* the part of the service that takes steps

vars == <<registryVars, scoringVars, kriVars, focus>>

Foci == {"models", "scores", "indicators"}

TypeOK ==
    /\ RegistryTypeOK /\ ScoringTypeOK /\ KrisTypeOK
    /\ focus \in Foci

Init ==
    /\ focus \in Foci
    /\ RegistryInit /\ ScoringInit /\ KrisInit

Registering ==
    focus = "models" /\ RegistryNext /\ UNCHANGED <<scoringVars, kriVars>>
Scoring ==
    /\ UNCHANGED <<registryVars, kriVars>>
    /\ \/ focus = "scores" /\ ScoringNext
       \/ focus = "models" /\ \E q \in Calls :
             \/ \E s \in Counted : StartCall(q, s, TRUE)
             \/ Score(q, {}) \/ CommitScore(q)
Indicating ==
    focus = "indicators" /\ KrisNext /\ UNCHANGED <<registryVars, scoringVars>>

Next == UNCHANGED focus /\ (Registering \/ Scoring \/ Indicating)

Spec == Init /\ [][Next]_vars

=============================================================================
