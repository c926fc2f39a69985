---------------------------- MODULE RiskScoring ----------------------------
(***************************************************************************)
(* risk_scoring_service and risk_score_worker: the risk scores of          *)
(* suppliers.                                                              *)
(*                                                                         *)
(* A computation looks for a fresh score, finds the champion, scores the   *)
(* features, reads the score before it, inserts the row and publishes the  *)
(* event, all in one transaction that is committed last.  Requests and     *)
(* Celery tasks overlap freely; a task that fails is retried, and one      *)
(* whose worker dies before it acknowledges is delivered again.            *)
(*                                                                         *)
(* Scores are in hundredths of a point, 0..MaxScore.                       *)
(***************************************************************************)
EXTENDS ModelRegistry, Sequences

MaxScore == 10000

CONSTANTS
    Suppliers,    \* suppliers that requests name
    Counted,      \* suppliers in the tenant's count: not deleted, not inactive
    Calls,        \* synchronous requests that can be in flight together
    Tasks,        \* ids of Celery tasks
    OtdRates,     \* on-time delivery rates of a scorecard: {} for no scorecard, {0}, {50}, ...
    Features,     \* Features[s]: its other features, rates of 0 already taken for missing
    ModelScore,   \* ModelScore[m]: what the trained model m predicts
    Ttl,          \* _SCORE_TTL_HOURS, in units of the clock
    MaxRetries,   \* max_retries of the task
    MaxTime,      \* bound: instants
    MaxLost       \* bound: tasks delivered again

ASSUME ScoringAssumption ==
    /\ Counted \subseteq Suppliers
    /\ \A o \in OtdRates : Cardinality(o) <= 1 /\ o \subseteq 0..100
    /\ IsFiniteSet(Suppliers) /\ Calls \cap Tasks = {}
    /\ {Ttl, MaxRetries, MaxTime, MaxLost} \subseteq Nat
    /\ ModelScore \in [Models -> 0..MaxScore]

(* SupplierFeatures: whether it exists, has a KRI composite and a share of the
   spend, and its rates and counts. *)
SupplierFeatures ==
    [known : BOOLEAN, measured : BOOLEAN, bought : BOOLEAN, fill : 0..100,
     defect : 0..100, invoice : 0..100, age : Int, red : Nat, kri : 0..100,
     country : 0..100, activeCerts : Nat, expired : Nat, spend : 0..100]

ASSUME FeaturesAssumption == Features \in [Suppliers -> SupplierFeatures]

VARIABLES
    scores,   \* scores[s]: committed rows of s, in commit order
    work,     \* work[w]: the computation that w, a request or a task, is making
    task,     \* task[t]: what the queue knows of t
    sent,     \* sent[s]: computed_at of the events published for s
    now,      \* time; every score takes an instant of its own
    lost      \* tasks delivered again so far

scoringVars == <<scores, work, task, sent, now, lost>>

NoWork == [step |-> "none"]
NoTask == [state |-> "none"]
Workers == Calls \cup Tasks

-----------------------------------------------------------------------------
(* Scoring. *)

AtMost(x, high) == IF x > high THEN high ELSE x
Clip(x, low, high) == IF x < low THEN low ELSE IF x > high THEN high ELSE x

(* A rate of 0 is taken for a missing one. *)
OtdRate(otd) == IF otd = {} \/ otd = {0} THEN 50 ELSE CHOOSE x \in otd : TRUE

Sole(f) == f.activeCerts = 0 /\ f.spend > 80

(* Mutant: the weights and the sole-source surcharge may add up to more than 1. *)
RuleBasedUnclipped(otd, f) ==
    (100 - OtdRate(otd)) * 25 + (100 - f.fill) * 20 + f.defect * 15
    + (AtMost(f.age, 365) * 1000) \div 365 + AtMost(f.red, 5) * 300
    + f.country * 10 + (IF Sole(f) THEN 1000 ELSE 0)

(* _RuleBasedModel. *)
RuleBased(otd, f) ==
    Clip((100 - OtdRate(otd)) * 25 + (100 - f.fill) * 20 + f.defect * 15
         + (AtMost(f.age, 365) * 1000) \div 365 + AtMost(f.red, 5) * 300
         + f.country * 10 + (IF Sole(f) THEN 1000 ELSE 0),
         0, MaxScore)

(* The parts of a score that the response explains, in points. *)
Components(otd, f) ==
    [operational |-> ((100 - OtdRate(otd)) * 35 + (100 - f.fill) * 25
                      + f.defect * 25 + (100 - f.invoice) * 15) \div 100,
     kri |-> f.kri,
     geopolitical |-> f.country,
     compliance |-> Clip(Clip(f.expired * 15, 0, 60) + (IF f.activeCerts = 0 THEN 20 ELSE 0), 0, 100),
     concentration |-> (IF Sole(f) THEN 40 ELSE 0) + Clip(((f.spend - 30) * 3) \div 2, 0, 50)]

ScoreToLevel(score) ==
    IF score >= 8000 THEN "critical" ELSE IF score >= 6000 THEN "high"
    ELSE IF score >= 4000 THEN "medium" ELSE IF score >= 2000 THEN "low" ELSE "minimal"

RiskLevels == {"critical", "high", "medium", "low", "minimal"}

(* The features of a supplier that exists need a KRI composite and a share of the
   spend: AVG and SUM over no rows are NULL, and float(None) raises. *)
Assembles(s) == Features[s].known => Features[s].measured /\ Features[s].bought

-----------------------------------------------------------------------------
ScoringTypeOK ==
    /\ \A s \in Suppliers :
          /\ sent[s] \subseteq 1..MaxTime
          /\ \A i \in DOMAIN scores[s] :
                /\ scores[s][i].value \in 0..MaxScore /\ scores[s][i].level \in RiskLevels
                /\ scores[s][i].model \subseteq Models
    /\ \A t \in Tasks : task[t] # NoTask =>
          task[t].state \in {"queued", "running", "ok", "failed"} /\ task[t].tries \in 0..MaxRetries
    /\ now \in 0..MaxTime /\ lost \in 0..MaxLost

ScoringInit ==
    /\ scores = [s \in Suppliers |-> <<>>]
    /\ work = [w \in Workers |-> NoWork]
    /\ task = [t \in Tasks |-> NoTask]
    /\ sent = [s \in Suppliers |-> {}]
    /\ now = 0 /\ lost = 0

Tick ==
    /\ now < MaxTime
    /\ now' = now + 1
    /\ UNCHANGED <<scores, work, task, sent, lost>>

(* bulk_compute_risk_scores names any supplier, the nightly batch the active ones
   and it never forces. *)
Enqueue(t, s, force) ==
    /\ task[t] = NoTask
    /\ task' = [task EXCEPT ![t] = [state |-> "queued", supplier |-> s, force |-> force, tries |-> 0]]
    /\ UNCHANGED <<scores, work, sent, now, lost>>

Fresh(s) == {i \in DOMAIN scores[s] : scores[s][i].until > now}
Stale(s) == Fresh(s) = {}

Starts(w, s, force) ==
    work' = [work EXCEPT ![w] = IF force \/ Stale(s)
       THEN [step |-> "checked", supplier |-> s, force |-> force, checked |-> Len(scores[s])]
       ELSE NoWork]

(* compute_risk_score over HTTP.  A request that finds a fresh score only reads. *)
StartCall(q, s, force) ==
    /\ work[q] = NoWork /\ (force \/ Stale(s)) /\ now < MaxTime
    /\ Starts(q, s, force)
    /\ UNCHANGED <<scores, task, sent, now, lost>>

StartTask(t) ==
    /\ task[t].state = "queued"
    /\ Starts(t, task[t].supplier, task[t].force)
    /\ task' = [task EXCEPT ![t].state = IF work'[t] = NoWork THEN "ok" ELSE "running"]
    /\ UNCHANGED <<scores, sent, now, lost>>

(* The row computed last, of those committed. *)
LatestOf(s) ==
    {i \in DOMAIN scores[s] : \A j \in DOMAIN scores[s] : scores[s][j].at <= scores[s][i].at}

Predicted(m, s, otd) ==
    IF m = {} THEN RuleBased(otd, Features[s]) ELSE CHOOSE x \in {ModelScore[c] : c \in m} : TRUE

(* Champion, features, prediction, previous score, INSERT and event. *)
Score(w, otd) ==
    LET x == work[w]
        s == x.supplier
        value == Predicted(ChampionModel, s, otd) IN
    /\ x.step = "checked" /\ now < MaxTime /\ Assembles(s)
    /\ now' = now + 1
    /\ work' = [work EXCEPT ![w] =
          [step |-> "scored", supplier |-> s,
           row |-> [at |-> now', until |-> now' + Ttl, value |-> value,
                    level |-> ScoreToLevel(value),
                    previous |-> {scores[s][i].value : i \in LatestOf(s)},
                    model |-> ChampionModel, force |-> x.force,
                    checked |-> x.checked, seen |-> Len(scores[s]),
                    settled |-> settled, promoted |-> \E m \in Models : model[m].promoted > 0]]]
    /\ sent' = [sent EXCEPT ![s] = @ \cup {now'}]
    /\ UNCHANGED <<scores, task, lost>>

(* A task that ends is acknowledged, unless its worker dies first: then the queue
   delivers it again as it was. *)
Ended(w, state, tries) ==
    IF w \notin Tasks THEN UNCHANGED <<task, lost>>
    ELSE \/ /\ task' = [task EXCEPT ![w].state = state, ![w].tries = tries]
            /\ UNCHANGED lost
         \/ /\ lost < MaxLost /\ lost' = lost + 1
            /\ task' = [task EXCEPT ![w].state = "queued"]

CommitScore(w) ==
    /\ work[w].step = "scored"
    /\ scores' = [scores EXCEPT ![work[w].supplier] = Append(@, work[w].row)]
    /\ work' = [work EXCEPT ![w] = NoWork]
    /\ Ended(w, "ok", IF w \in Tasks THEN task[w].tries ELSE 0)
    /\ UNCHANGED <<sent, now>>

(* The artifact cannot be loaded, a feature is missing, Kafka or the database
   fails: the transaction is rolled back, whether or not the event is out. *)
FailScore(w) ==
    /\ work[w] # NoWork
    /\ work' = [work EXCEPT ![w] = NoWork]
    /\ LET again == w \in Tasks /\ task[w].tries < MaxRetries IN
       Ended(w, IF again THEN "queued" ELSE "failed",
             IF again THEN task[w].tries + 1 ELSE MaxRetries)
    /\ UNCHANGED <<scores, sent, now>>

ScoringNext ==
    \/ Tick
    \/ \E t \in Tasks : \/ \E s \in Suppliers, force \in BOOLEAN : Enqueue(t, s, force)
                        \/ StartTask(t)
    \/ \E q \in Calls, s \in Suppliers, force \in BOOLEAN : StartCall(q, s, force)
    \/ \E w \in Workers : \/ \E otd \in OtdRates : Score(w, otd)
                          \/ CommitScore(w) \/ FailScore(w)

-----------------------------------------------------------------------------
(* get_tenant_risk_summary: the levels of the latest scores, and how many of the
   counted suppliers have none. *)
Summary ==
    LET at(level) == Cardinality({s \in Suppliers :
            \E i \in LatestOf(s) : scores[s][i].level = level})
        scored == at("critical") + at("high") + at("medium") + at("low") + at("minimal")
        short == Cardinality(Counted) - scored
    IN  [critical |-> at("critical"), scored |-> scored,
         unscored |-> IF short < 0 THEN 0 ELSE short]

-----------------------------------------------------------------------------
(* Properties. *)

Before(s, i) == {j \in DOMAIN scores[s] : scores[s][j].at < scores[s][i].at}

(* The score a row names as the one before it is that of the row computed just
   before it, unless that row was committed after the look at it. *)
ScoresChained ==
    \A s \in Suppliers : \A i \in DOMAIN scores[s] :
       (\A j \in Before(s, i) : j <= scores[s][i].seen) =>
          scores[s][i].previous =
             {scores[s][j].value : j \in {j \in Before(s, i) :
                 \A l \in Before(s, i) : scores[s][l].at <= scores[s][j].at}}

(* However often a task is retried or delivered again, a supplier is scored without
   force only when every score that was committed at the check had expired. *)
ScoredOncePerTtl ==
    \A s \in Suppliers : \A i, j \in DOMAIN scores[s] :
       (~scores[s][i].force /\ scores[s][j].at < scores[s][i].at
          /\ scores[s][i].at < scores[s][j].until) => j > scores[s][i].checked

(* Every score was announced before it was committed. *)
ScoresAnnounced ==
    \A s \in Suppliers : {scores[s][i].at : i \in DOMAIN scores[s]} \subseteq sent[s]

(* Once a model has been promoted the rules score nothing, unless changes of the
   registry have overlapped since. *)
ChampionScores ==
    \A s \in Suppliers : \A i \in DOMAIN scores[s] : scores[s][i].settled =>
       (scores[s][i].model # {} <=> scores[s][i].promoted)

(* The rules score a better delivery rate no higher, unless it is 0, and every part
   of the explanation stays within 0 and 100. *)
RulesSound ==
    \A s \in Suppliers : \A o \in OtdRates :
       /\ \A p \in OtdRates \ {{0}} :
             (o # {0} /\ OtdRate(o) <= OtdRate(p)) =>
                RuleBased(o, Features[s]) >= RuleBased(p, Features[s])
       /\ LET c == Components(o, Features[s]) IN \A part \in DOMAIN c : c[part] \in 0..100

(* The summary misses suppliers without a score only by those that have one and are
   not counted. *)
SummaryAccounted ==
    LET scored == {s \in Suppliers : scores[s] # <<>>} IN
    /\ Summary.scored = Cardinality(scored)
    /\ Summary.unscored <= Cardinality(Counted \ scored)
    /\ Summary.unscored + Cardinality(scored \ Counted) >= Cardinality(Counted \ scored)

(* The history of a supplier's scores accounts for itself under overlapping
   requests, retries and redelivered tasks, and for the model that made it. *)
ScoresAccounted ==
    /\ OneChampion /\ ChampionScores
    /\ ScoresChained /\ ScoredOncePerTtl /\ ScoresAnnounced
    /\ RulesSound /\ SummaryAccounted

=============================================================================
