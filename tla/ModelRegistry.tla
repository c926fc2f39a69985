--------------------------- MODULE ModelRegistry ---------------------------
(***************************************************************************)
(* model_registry_service: the models that score suppliers and the one of  *)
(* them that is the champion.                                              *)
(*                                                                         *)
(* A promotion reads its model, demotes with one UPDATE the champions that *)
(* the statement sees, and writes the model at the router's commit.  The   *)
(* UPDATE waits for rows that another transaction holds and looks at them  *)
(* again; a champion that was committed after it started it does not see.  *)
(* Nothing reads the model again before it is written.                     *)
(***************************************************************************)
EXTENDS Integers, FiniteSets

CONSTANTS
    Models,     \* ids of models
    Admins,     \* requests of ML administrators that can be in flight together
    MaxChanges  \* bound: promotions and archivals begun

ASSUME RegistryAssumption == MaxChanges \in Nat /\ IsFiniteSet(Admins) /\ IsFiniteSet(Models)

VARIABLES
    model,    \* model[m]: its committed row; "promoted" is promoted_at, 0 for NULL
    change,   \* change[q]: the promotion or archival that q is making
    begun,    \* changes begun
    stamped,  \* promotions that have taken their promoted_at
    commits,  \* changes committed
    settled   \* nothing overlapped the last promotion or what followed it

registryVars == <<model, change, begun, stamped, commits, settled>>

ModelStatus == {"staging", "champion", "challenger", "archived", "failed"}
NoModel == [status |-> "none", champion |-> FALSE, promoted |-> 0]
NoChange == [kind |-> "none"]

RegistryTypeOK ==
    /\ model \in [Models -> {NoModel} \cup
          [status : ModelStatus, champion : BOOLEAN, promoted : 0..MaxChanges]]
    /\ \A q \in Admins : change[q] # NoChange => change[q].model \in Models
    /\ {begun, stamped, commits} \subseteq 0..MaxChanges
    /\ settled \in BOOLEAN

RegistryInit ==
    /\ model = [m \in Models |-> NoModel]
    /\ change = [q \in Admins |-> NoChange]
    /\ begun = 0 /\ stamped = 0 /\ commits = 0
    /\ settled = TRUE

RegisterModel(m) ==
    /\ model[m] = NoModel
    /\ model' = [model EXCEPT ![m] = [NoModel EXCEPT !.status = "staging"]]
    /\ UNCHANGED <<change, begun, stamped, commits, settled>>

Begin(q, kind, m) ==
    /\ change[q] = NoChange /\ begun < MaxChanges
    /\ begun' = begun + 1
    /\ change' = [change EXCEPT ![q] =
          [kind |-> kind, model |-> m, step |-> "read", victims |-> {},
           promoted |-> 0, commits |-> commits]]
    /\ UNCHANGED <<model, stamped, commits, settled>>

BeginPromotion(q, m) == model[m].status \in {"staging", "challenger"} /\ Begin(q, "promote", m)
BeginArchival(q, m) ==
    /\ model[m] # NoModel /\ ~model[m].champion
    /\ Begin(q, "archive", m)

(* Mutant: the UPDATE looks for the status instead of the flag. *)
ChampionsByStatus(m) == {c \in Models \ {m} : model[c].status = "champion"}

(* The champions that the UPDATE of the promotion of m sees. *)
Champions(m) == {c \in Models \ {m} : model[c].champion}

SeeChampions(q) ==
    /\ change[q].kind = "promote" /\ change[q].step = "read"
    /\ change' = [change EXCEPT ![q].step = "demoting",
                                ![q].victims = Champions(change[q].model)]
    /\ UNCHANGED <<model, begun, stamped, commits, settled>>

(* Rows that the UPDATE of another transaction holds until it ends. *)
Held(q) == UNION {change[r].victims : r \in {r \in Admins \ {q} :
              change[r].kind = "promote" /\ change[r].step = "demoted"}}

(* The UPDATE has all its rows and keeps those that are still champions. *)
DemoteChampions(q) ==
    /\ change[q].kind = "promote" /\ change[q].step = "demoting"
    /\ change[q].victims \cap Held(q) = {}
    /\ stamped' = stamped + 1
    /\ change' = [change EXCEPT ![q].step = "demoted", ![q].promoted = stamped',
                                ![q].victims = {c \in @ : model[c].champion}]
    /\ UNCHANGED <<model, begun, commits, settled>>

Committed(q) ==
    /\ change[q].model \notin Held(q)
    /\ commits' = commits + 1
    /\ change' = [change EXCEPT ![q] = NoChange]
    /\ UNCHANGED <<begun, stamped>>

(* No change was committed since that of q began. *)
Alone(q) == change[q].commits = commits

CommitPromotion(q) ==
    LET x == change[q] IN
    /\ x.kind = "promote" /\ x.step = "demoted"
    /\ model' = [m \in Models |->
          IF m = x.model THEN [status |-> "champion", champion |-> TRUE, promoted |-> x.promoted]
          ELSE IF m \in x.victims THEN [model[m] EXCEPT !.status = "archived", !.champion = FALSE]
          ELSE model[m]]
    /\ settled' = Alone(q)
    /\ Committed(q)

(* is_champion was read FALSE and stays FALSE in the session: only the status is
   in the UPDATE. *)
CommitArchival(q) ==
    /\ change[q].kind = "archive"
    /\ model' = [model EXCEPT ![change[q].model].status = "archived"]
    /\ settled' = (settled /\ Alone(q))
    /\ Committed(q)

FailChange(q) ==
    /\ change[q] # NoChange
    /\ change' = [change EXCEPT ![q] = NoChange]
    /\ UNCHANGED <<model, begun, stamped, commits, settled>>

RegistryNext ==
    \/ \E m \in Models : RegisterModel(m)
    \/ \E q \in Admins, m \in Models : BeginPromotion(q, m) \/ BeginArchival(q, m)
    \/ \E q \in Admins : \/ SeeChampions(q) \/ DemoteChampions(q) \/ CommitPromotion(q)
                         \/ CommitArchival(q) \/ FailChange(q)

-----------------------------------------------------------------------------
(* Reads. *)

(* list_models shows what is not archived. *)
Listed == {m \in Models : model[m].status \notin {"none", "archived"}}

(* The champion that scoring finds, if it finds one. *)
Active == {m \in Models : model[m].champion /\ model[m].status = "champion"}
ChampionModel ==
    {m \in Active : \A c \in Active : model[c].promoted <= model[m].promoted}

-----------------------------------------------------------------------------
(* Properties. *)

(* A promotion that nothing overlapped puts the registry in order, whatever
   overlapping changes left behind: one champion, which is listed and which scoring
   finds; archivals that overlap nothing keep it so. *)
OneChampion ==
    settled => LET flagged == {m \in Models : model[m].champion} IN
       /\ flagged = ChampionModel /\ flagged \subseteq Listed
       /\ Cardinality(flagged) = IF \E m \in Models : model[m].promoted > 0 THEN 1 ELSE 0

=============================================================================
