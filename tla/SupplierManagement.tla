------------------------- MODULE SupplierManagement -------------------------
(***************************************************************************)
(* The supplier-management service: its registry, documents, certification *)
(* sweep and scorecards.  They write disjoint tables, so the service is    *)
(* checked one part at a time: "focus" is chosen at the start and only the *)
(* part it names takes steps.                                              *)
(***************************************************************************)
EXTENDS SupplierRegistry, SupplierDocuments, CertificationExpiry, Scorecards

VARIABLE focus  \* the part of the service that takes steps

vars == <<registryVars, documentVars, expiryVars, cardVars, focus>>

Parts == {"registry", "documents", "expiry", "scorecards"}

TypeOK ==
    /\ RegistryTypeOK /\ DocumentsTypeOK /\ ExpiryTypeOK /\ ScorecardsTypeOK
    /\ focus \in Parts

Init ==
    /\ focus \in Parts
    /\ RegistryInit /\ DocumentsInit /\ ExpiryInit /\ ScorecardsInit
    /\ focus # "registry" => \A s \in Suppliers : ~supplier[s].exists

Registry ==
    focus = "registry" /\ RegistryNext /\ UNCHANGED <<documentVars, expiryVars, cardVars>>
Documenting ==
    focus = "documents" /\ DocumentsNext /\ UNCHANGED <<registryVars, expiryVars, cardVars>>
Expiry ==
    focus = "expiry" /\ ExpiryNext /\ UNCHANGED <<registryVars, documentVars, cardVars>>
Scoring ==
    focus = "scorecards" /\ ScorecardsNext /\ UNCHANGED <<registryVars, documentVars, expiryVars>>

Next == UNCHANGED focus /\ (Registry \/ Documenting \/ Expiry \/ Scoring)

Spec == Init /\ [][Next]_vars /\ DocumentsFairness

=============================================================================
