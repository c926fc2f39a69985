------------------------- MODULE KeyRiskIndicators -------------------------
(***************************************************************************)
(* kri_service and kri_evaluation_worker: measurements of risk indicators, *)
(* their status, and the breach that is announced when a status worsens.   *)
(*                                                                         *)
(* A snapshot compares itself with the committed one that was measured     *)
(* last.  After it has scheduled the outbox row of a breach the service    *)
(* also sends it directly, with an argument that SCVRIProducer.send does   *)
(* not take: the call raises.  A request is rolled back by that; the sweep *)
(* goes on and commits the snapshot and the outbox row.                    *)
(***************************************************************************)
EXTENDS Integers, Sequences, FiniteSets

CONSTANTS
    Watched,      \* suppliers that are active
    Kris,         \* ids of definitions
    Definition,   \* Definition[k]: thresholds and direction; "auto" if the sweep has a value for k
    Values,       \* values that are measured
    Recorders,    \* requests that record a snapshot
    Sweeps,       \* sweeps that can overlap
    MaxSnapshots  \* bound: snapshots measured

ASSUME KriAssumption ==
    Values \subseteq Int /\ MaxSnapshots \in Nat /\ IsFiniteSet(Kris)

VARIABLES
    kri,        \* definitions that exist
    snapshots,  \* snapshots[p]: committed snapshots of the pair p, in commit order
    record,     \* record[q]: the snapshot that request q has flushed
    sweep,      \* sweep[w]: the pairs left and the snapshots that w has flushed
    measured    \* instants taken for measured_at

kriVars == <<kri, snapshots, record, sweep, measured>>

Pairs == Watched \X Kris
KRIStatus == {"green", "amber", "red"}
Rank == [green |-> 0, amber |-> 1, red |-> 2]
NoRecord == [pair |-> <<>>]
NoSweep == [open |-> FALSE, todo |-> {}, rows |-> {}]

KrisTypeOK ==
    /\ kri \subseteq Kris
    /\ \A p \in Pairs : \A i \in DOMAIN snapshots[p] : snapshots[p][i].status \in KRIStatus
    /\ \A w \in Sweeps : sweep[w].todo \subseteq Pairs
    /\ measured \in 0..MaxSnapshots

KrisInit ==
    /\ kri = {}
    /\ snapshots = [p \in Pairs |-> <<>>]
    /\ record = [q \in Recorders |-> NoRecord]
    /\ sweep = [w \in Sweeps |-> NoSweep]
    /\ measured = 0

(* The thresholds may be given in either order. *)
EvaluateThreshold(value, k) ==
    LET d == Definition[k]
        lower == IF d.green < d.amber THEN d.green ELSE d.amber
        upper == IF d.green < d.amber THEN d.amber ELSE d.green
    IN  IF value > upper THEN IF d.inverted THEN "green" ELSE "red"
        ELSE IF value <= lower THEN IF d.inverted THEN "red" ELSE "green"
        ELSE "amber"

(* Mutant: any change of status is a breach. *)
WorsenedOrImproved(new, old) == new # old

Worsened(new, old) == Rank[new] > Rank[old]

(* The snapshot of p measured last, of those committed. *)
Latest(p) ==
    {i \in DOMAIN snapshots[p] : \A j \in DOMAIN snapshots[p] :
        snapshots[p][j].at <= snapshots[p][i].at}

Breach(p, status) == \E i \in Latest(p) : Worsened(status, snapshots[p][i].status)

Snapshot(p, value) ==
    LET status == EvaluateThreshold(value, p[2]) IN
    [status |-> status, at |-> measured + 1, breach |-> Breach(p, status),
     seen |-> Len(snapshots[p])]

CreateKri(k) ==
    /\ k \notin kri
    /\ kri' = kri \cup {k}
    /\ UNCHANGED <<snapshots, record, sweep, measured>>

Measure == measured < MaxSnapshots /\ measured' = measured + 1

(* A request flushes its snapshot.  If that is a breach the request fails. *)
RecordSnapshot(q, p, value) ==
    /\ record[q] = NoRecord /\ p[2] \in kri /\ Measure
    /\ ~Snapshot(p, value).breach
    /\ record' = [record EXCEPT ![q] = [pair |-> p, row |-> Snapshot(p, value)]]
    /\ UNCHANGED <<kri, snapshots, sweep>>

CommitRecord(q) ==
    /\ record[q] # NoRecord
    /\ snapshots' = [snapshots EXCEPT ![record[q].pair] = Append(@, record[q].row)]
    /\ record' = [record EXCEPT ![q] = NoRecord]
    /\ UNCHANGED <<kri, sweep, measured>>

FailRecord(q) ==
    /\ record[q] # NoRecord
    /\ record' = [record EXCEPT ![q] = NoRecord]
    /\ UNCHANGED <<kri, snapshots, sweep, measured>>

StartSweep(w) ==
    /\ ~sweep[w].open
    /\ sweep' = [sweep EXCEPT ![w] =
          [open |-> TRUE, todo |-> Watched \X {k \in kri : Definition[k].auto}, rows |-> {}]]
    /\ UNCHANGED <<kri, snapshots, record, measured>>

(* The scorecard of the supplier has a value; a breach raises, which is caught. *)
SweepSnapshot(w, p, value) ==
    /\ p \in sweep[w].todo /\ Measure
    /\ sweep' = [sweep EXCEPT ![w].todo = @ \ {p},
                              ![w].rows = @ \cup {[pair |-> p, row |-> Snapshot(p, value)]}]
    /\ UNCHANGED <<kri, snapshots, record>>

SweepSkip(w, p) ==
    /\ p \in sweep[w].todo
    /\ sweep' = [sweep EXCEPT ![w].todo = @ \ {p}]
    /\ UNCHANGED <<kri, snapshots, record, measured>>

CommitSweep(w) ==
    /\ sweep[w].open /\ sweep[w].todo = {}
    /\ snapshots' = [p \in Pairs |->
          LET mine == {x \in sweep[w].rows : x.pair = p} IN
          IF mine = {} THEN snapshots[p]
          ELSE Append(snapshots[p], (CHOOSE x \in mine : TRUE).row)]
    /\ sweep' = [sweep EXCEPT ![w] = NoSweep]
    /\ UNCHANGED <<kri, record, measured>>

FailSweep(w) ==
    /\ sweep[w].open
    /\ sweep' = [sweep EXCEPT ![w] = NoSweep]
    /\ UNCHANGED <<kri, snapshots, record, measured>>

KrisNext ==
    \/ \E k \in Kris : CreateKri(k)
    \/ \E q \in Recorders : \/ \E p \in Pairs, v \in Values : RecordSnapshot(q, p, v)
                            \/ CommitRecord(q) \/ FailRecord(q)
    \/ \E w \in Sweeps :
          \/ StartSweep(w) \/ CommitSweep(w) \/ FailSweep(w)
          \/ \E p \in sweep[w].todo : SweepSkip(w, p) \/ \E v \in Values : SweepSnapshot(w, p, v)

-----------------------------------------------------------------------------
(* The dashboard counts the statuses measured last. *)
Dashboard(s) ==
    LET having(status) == Cardinality({k \in Kris :
            \E i \in Latest(<<s, k>>) : snapshots[<<s, k>>][i].status = status})
    IN  [red |-> having("red"), amber |-> having("amber"), green |-> having("green")]

-----------------------------------------------------------------------------
(* Properties. *)

Earlier(p, i) == {j \in DOMAIN snapshots[p] : snapshots[p][j].at < snapshots[p][i].at}

(* Snapshot i was measured when one that is earlier than it was not committed. *)
Unseen(p, i) == \E j \in Earlier(p, i) : j > snapshots[p][i].seen

(* A snapshot is announced exactly if it is worse than the one measured just before
   it, unless that one was committed later. *)
BreachIffWorse ==
    \A p \in Pairs : \A i \in DOMAIN snapshots[p] : ~Unseen(p, i) =>
       (snapshots[p][i].breach <=>
          \E j \in Earlier(p, i) :
             /\ \A l \in Earlier(p, i) : snapshots[p][l].at <= snapshots[p][j].at
             /\ Rank[snapshots[p][i].status] > Rank[snapshots[p][j].status])

(* Every indicator that the dashboard shows amber or red was so when it was first
   measured, or a breach was announced, or measurements overlapped. *)
DashboardExplained ==
    \A s \in Watched : Dashboard(s).red + Dashboard(s).amber <=
       Cardinality({k \in Kris : LET p == <<s, k>> IN
          \E i \in DOMAIN snapshots[p] :
             \/ snapshots[p][i].breach \/ Unseen(p, i)
             \/ Earlier(p, i) = {} /\ snapshots[p][i].status # "green"})

(* What worsens is announced, by the sweep, and nothing else is. *)
BreachesReported == BreachIffWorse /\ DashboardExplained

=============================================================================
