----------------------------- MODULE Scorecards -----------------------------
(***************************************************************************)
(* scorecard_service and compute_supplier_scorecard: the scorecards of one *)
(* supplier.  Rates and scores are in hundredths of a percent.             *)
(*                                                                         *)
(* A person submits a scorecard or a worker computes one from the orders   *)
(* of a period.  The worker commits before it acknowledges, and nothing    *)
(* makes a period unique, so that a redelivered job inserts a second row.  *)
(***************************************************************************)
EXTENDS Integers, Sequences, FiniteSets

CONSTANTS
    Deliveries,   \* <<on time, in all>>: counts of deliveries
    Quantities,   \* <<returned, received, ordered>>: counts of items
    Invoices,     \* <<raised less disputed, raised>>: counts of invoices
    MaxCards,     \* bound: scorecards in all
    MaxRedeliveries \* bound: jobs of dead workers given to another

ASSUME ScorecardAssumption ==
    /\ \A d \in Deliveries : d \in Nat \X Nat /\ d[1] <= d[2]
    /\ Quantities \subseteq Int \X Int \X Int /\ Invoices \subseteq Int \X Int
    /\ MaxCards \in Nat /\ MaxRedeliveries \in Nat

VARIABLES
    card,         \* the committed scorecards, in the order of their insertion
    job,          \* the worker's job: the row it computed and its stage
    redelivered   \* jobs delivered again so far

cardVars == <<card, job, redelivered>>

(* What a scorecard is computed from.  The schema bounds only the deliveries: its
   validators look at the items_ fields, and the service reads the quantity_ fields
   beside them, of any sign and in any order. *)
Measures == [deliveries : Deliveries, quantities : Quantities, invoices : Invoices]

(* _safe_rate: two decimals; the rate of nothing is 0. *)
Rounded(n, d) == (2 * 10000 * n + d) \div (2 * d)
SafeRate(n, d) == IF d = 0 THEN 0 ELSE IF d > 0 THEN Rounded(n, d) ELSE Rounded(-n, -d)

OnTime(m) == SafeRate(m.deliveries[1], m.deliveries[2])
Filled(m) == SafeRate(m.quantities[2], m.quantities[3])
Defects(m) == SafeRate(m.quantities[1], m.quantities[2])
Accuracy(m) == SafeRate(m.invoices[1], m.invoices[2])

Scores == 0..10000
Bound(x) == IF x < 0 THEN 0 ELSE IF x > 10000 THEN 10000 ELSE x

(* Mutant: defects raise the score. *)
OverallWithDefects(otd, fill, defect, accuracy) ==
    Bound((35 * otd + 25 * fill + 25 * defect + 15 * accuracy + 50) \div 100)

(* _compute_overall. *)
Overall(otd, fill, defect, accuracy) ==
    Bound((35 * otd + 25 * fill + 25 * (10000 - defect) + 15 * accuracy + 50) \div 100)

(* _compute_grade. *)
Grade(score) == IF score >= 8500 THEN "A" ELSE IF score >= 7000 THEN "B"
                ELSE IF score >= 5500 THEN "C" ELSE "D"

Card(by, m, accuracy) ==
    LET overall == Overall(OnTime(m), Filled(m), Defects(m), accuracy) IN
    [by |-> by, measures |-> m, overall |-> overall, grade |-> Grade(overall)]

(* create_scorecard: no invoices count as no accuracy. *)
ServiceCard(m) == Card("service", m, Accuracy(m))

(* compute_supplier_scorecard: nothing is returned and every invoice is right. *)
WorkerCard(d, n) ==
    Card("worker", [deliveries |-> d, quantities |-> n, invoices |-> <<0, 0>>], 10000)

NoJob == [stage |-> "none", row |-> <<>>]

ScorecardsTypeOK ==
    /\ Len(card) <= MaxCards
    /\ \A i \in DOMAIN card :
          /\ card[i].by \in {"service", "worker"}
          /\ card[i].overall \in Scores /\ card[i].grade \in {"A", "B", "C", "D"}
    /\ job.stage \in {"none", "queued", "computed", "committed", "done"}
    /\ redelivered \in 0..MaxRedeliveries

ScorecardsInit ==
    card = <<>> /\ job = [NoJob EXCEPT !.stage = "queued"] /\ redelivered = 0

-----------------------------------------------------------------------------

(* create_scorecard and the router's commit. *)
CreateScorecard(m) ==
    /\ Len(card) < MaxCards
    /\ card' = Append(card, ServiceCard(m))
    /\ UNCHANGED <<job, redelivered>>

(* The aggregates of the period; without a delivery there is no scorecard.  Here the
   validators see the quantities: more received than ordered fails the task. *)
Compute(d, n) ==
    /\ job.stage = "queued"
    /\ n[1] = 0 /\ 0 <= n[2] /\ n[2] <= n[3]
    /\ job' = IF d[2] = 0 THEN [NoJob EXCEPT !.stage = "done"]
              ELSE [stage |-> "computed", row |-> <<WorkerCard(d, n)>>]
    /\ UNCHANGED <<card, redelivered>>

InsertCard ==
    /\ job.stage = "computed" /\ Len(card) < MaxCards
    /\ card' = card \o job.row
    /\ job' = [NoJob EXCEPT !.stage = "committed"]
    /\ UNCHANGED redelivered

AcknowledgeJob ==
    /\ job.stage = "committed"
    /\ job' = [NoJob EXCEPT !.stage = "done"]
    /\ UNCHANGED <<card, redelivered>>

(* An error ends the task, which is not retried. *)
FailJob ==
    /\ job.stage \in {"queued", "computed"}
    /\ job' = [NoJob EXCEPT !.stage = "done"]
    /\ UNCHANGED <<card, redelivered>>

WorkerDies ==
    /\ job.stage \in {"computed", "committed"} /\ redelivered < MaxRedeliveries
    /\ job' = [NoJob EXCEPT !.stage = "queued"]
    /\ redelivered' = redelivered + 1
    /\ UNCHANGED card

ScorecardsNext ==
    \/ \E m \in Measures : CreateScorecard(m)
    \/ \E d \in Deliveries, n \in Quantities : Compute(d, n)
    \/ InsertCard \/ AcknowledgeJob \/ FailJob \/ WorkerDies

-----------------------------------------------------------------------------
(* Properties. *)

AtLeast(m, n) == /\ OnTime(m) >= OnTime(n) /\ Filled(m) >= Filled(n)
                 /\ Defects(m) <= Defects(n) /\ Accuracy(m) >= Accuracy(n)

(* Of two scorecards from the same path, the one that is at least as good in
   every rate has at least the score and not the worse grade; a period has as
   many computed scorecards as its job had deliveries at most (the weights and
   the defect's sign in _compute_overall, the thresholds of _compute_grade, the
   commit before the acknowledgement). *)
ScorecardsFair ==
    /\ \A i, j \in DOMAIN card :
          (card[i].by = card[j].by /\ AtLeast(card[i].measures, card[j].measures))
             => /\ card[i].overall >= card[j].overall
                /\ card[i].grade = "D" => card[j].grade = "D"
                /\ card[j].grade = "A" => card[i].grade = "A"
    /\ Cardinality({i \in DOMAIN card : card[i].by = "worker"}) <= 1 + redelivered

=============================================================================
