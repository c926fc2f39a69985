----------------------------- MODULE AlertRules -----------------------------
(***************************************************************************)
(* The rule engine: replicas of the alert engine that read events from     *)
(* Kafka and raise an alert for each active rule an event matches, at most *)
(* one per cooldown.                                                       *)
(*                                                                         *)
(* The consumer never commits an offset, so a partition that changes hands *)
(* is read again from its start.  An evaluation reads the rules once; each *)
(* firing is two transactions, the alert and then the rule's statistics,   *)
(* and an exception between them is logged and swallowed.                  *)
(***************************************************************************)
EXTENDS Integers, Sequences, FiniteSets

CONSTANTS
    Rules,
    Partitions,
    Log,         \* Log[p]: the events of partition p, oldest first
    Matches,     \* pairs <<r, e>>: topic, type and conditions of r match e
    OfficeRules, \* rules with suppress_outside_hours
    Replicas,    \* alert-engine pods, each running run_consumers
    MaxMoves     \* bound: crashes, and partitions taken from a running replica

Events == UNION {{Log[p][i] : i \in 1..Len(Log[p])} : p \in Partitions}

NoEvent == "no event"
NoRule == "no rule"
Update == "statistics"

ASSUME InputsAssumption ==
    /\ NoRule \notin Rules /\ NoEvent \notin Events /\ Update \notin Events
    /\ \A p \in Partitions : Len(Log[p]) \in Nat
    /\ Matches \subseteq Rules \X Events
    /\ OfficeRules \subseteq Rules
    /\ IsFiniteSet(Replicas)
    /\ MaxMoves \in Nat

VARIABLES
    active,     \* rules whose status is 'active'
    fireCount,  \* fireCount[r]: the column; n > 0 also names last_fired_at
    recent,     \* recent[r]: alerts of r and updates of its statistics, oldest
                \* first, that are not older than r's cooldown_seconds
    office,     \* the hour is within the rules' suppression bounds
    up,         \* replicas whose consumer loop runs
    owner,      \* owner[p]: the replica partition p is assigned to
    pos,        \* pos[p]: messages of p its owner has fetched
    event,      \* event[c]: what replica c evaluates, or NoEvent
    todo,       \* todo[c]: rules of the evaluation not yet passed
    seen,       \* seen[c][r]: fireCount of r when the rules were read
    fired,      \* fired[c]: the rule whose alert is committed, or NoRule
    outcome,    \* history: outcome[e] of the evaluations of e so far
    unrecorded, \* history: alerts of r whose statistics never followed
    moves       \* number of crashes and forced rebalances

ruleVars  == <<active, fireCount, recent, office>>
groupVars == <<up, owner, pos, moves>>
evalVars  == <<event, todo, seen, fired>>
histVars  == <<outcome, unrecorded>>
vars == <<ruleVars, groupVars, evalVars, histVars>>

TypeOK ==
    /\ active \subseteq Rules
    /\ fireCount \in [Rules -> Nat]
    /\ recent \in [Rules -> Seq(Events \cup {Update})]
    /\ office \in BOOLEAN
    /\ up \subseteq Replicas
    /\ owner \in [Partitions -> Replicas]
    /\ pos \in [Partitions -> Nat]
    /\ moves \in 0..MaxMoves
    /\ event \in [Replicas -> Events \cup {NoEvent}]
    /\ todo \in [Replicas -> SUBSET Rules]
    /\ seen \in [Replicas -> [Rules -> Nat]]
    /\ fired \in [Replicas -> Rules \cup {NoRule}]
    /\ outcome \in [Events -> SUBSET {"evaluated", "failed"}]
    /\ unrecorded \in [Rules -> Nat]

Times(x, s) == Cardinality({i \in DOMAIN s : s[i] = x})

NothingSeen == [r \in Rules |-> 0]

Init ==
    /\ active = Rules
    /\ fireCount = [r \in Rules |-> 0]
    /\ recent = [r \in Rules |-> <<>>]
    /\ office = TRUE
    /\ up = Replicas
    /\ owner \in [Partitions -> Replicas]
    /\ pos = [p \in Partitions |-> 0]
    /\ moves = 0
    /\ event = [c \in Replicas |-> NoEvent]
    /\ todo = [c \in Replicas |-> {}]
    /\ seen = [c \in Replicas |-> NothingSeen]
    /\ fired = [c \in Replicas |-> NoRule]
    /\ outcome = [e \in Events |-> {}]
    /\ unrecorded = [r \in Rules |-> 0]

-----------------------------------------------------------------------------
(* One evaluation: handle_event and evaluate_event_rules. *)

(* The next message of a partition is fetched and the tenant's rules on its
   topic and type are read, with their last_fired_at. *)
Poll(c, p) ==
    /\ c \in up /\ owner[p] = c /\ event[c] = NoEvent
    /\ pos[p] < Len(Log[p])
    /\ pos' = [pos EXCEPT ![p] = @ + 1]
    /\ LET e == Log[p][pos[p] + 1]
       IN  /\ event' = [event EXCEPT ![c] = e]
           /\ todo' = [todo EXCEPT ![c] = {r \in active : <<r, e>> \in Matches}]
    /\ seen' = [seen EXCEPT ![c] = fireCount]
    /\ UNCHANGED <<ruleVars, up, owner, moves, fired, histVars>>

(* Mutant: the cooldown is not checked. *)
NeverCooling(c, r) == FALSE

(* The cooldown check compares the last_fired_at that was read to the clock:
   is the update it names still recent? *)
Cooling(c, r) == seen[c][r] > fireCount[r] - Times(Update, recent[r])

Suppressed(r) == r \in OfficeRules /\ ~office

Skip(c, r) ==
    /\ r \in todo[c] /\ fired[c] = NoRule
    /\ Cooling(c, r) \/ Suppressed(r)
    /\ todo' = [todo EXCEPT ![c] = @ \ {r}]
    /\ UNCHANGED <<ruleVars, groupVars, event, seen, fired, histVars>>

(* create_alert and its commit. *)
Fire(c, r) ==
    /\ r \in todo[c] /\ fired[c] = NoRule
    /\ ~Cooling(c, r) /\ ~Suppressed(r)
    /\ fired' = [fired EXCEPT ![c] = r]
    /\ recent' = [recent EXCEPT ![r] = Append(@, event[c])]
    /\ UNCHANGED <<active, fireCount, office, groupVars, event, todo, seen, histVars>>

(* UPDATE alert_rules SET fire_count, last_fired_at, and its commit. *)
Record(c) ==
    /\ fired[c] # NoRule
    /\ fireCount' = [fireCount EXCEPT ![fired[c]] = @ + 1]
    /\ recent' = [recent EXCEPT ![fired[c]] = Append(@, Update)]
    /\ todo' = [todo EXCEPT ![c] = @ \ {fired[c]}]
    /\ fired' = [fired EXCEPT ![c] = NoRule]
    /\ UNCHANGED <<active, office, groupVars, event, seen, histVars>>

Leave(c) ==
    /\ event' = [event EXCEPT ![c] = NoEvent]
    /\ todo' = [todo EXCEPT ![c] = {}]
    /\ seen' = [seen EXCEPT ![c] = NothingSeen]
    /\ fired' = [fired EXCEPT ![c] = NoRule]
    /\ unrecorded' = [r \in Rules |->
                        unrecorded[r] + IF fired[c] = r THEN 1 ELSE 0]

Finish(c) ==
    /\ event[c] # NoEvent /\ todo[c] = {}
    /\ outcome' = [outcome EXCEPT ![event[c]] = @ \cup {"evaluated"}]
    /\ Leave(c)
    /\ UNCHANGED <<ruleVars, groupVars>>

(* An exception: handle_event logs it and the loop goes on to the next
   message.  The consumer's session was opened by session.begin(), and
   create_alert commits it: the statement that follows the commit raises. *)
Abort(c) ==
    /\ event[c] # NoEvent /\ todo[c] # {}
    /\ outcome' = [outcome EXCEPT ![event[c]] = @ \cup {"failed"}]
    /\ Leave(c)
    /\ UNCHANGED <<ruleVars, groupVars>>

-----------------------------------------------------------------------------
(* Replicas and the consumer group. *)

(* The process dies, or a Kafka error ends its consumer loop. *)
Crash(c) ==
    /\ c \in up
    /\ moves < MaxMoves /\ moves' = moves + 1
    /\ up' = up \ {c}
    /\ Leave(c)
    /\ UNCHANGED <<ruleVars, owner, pos, outcome>>

(* Mutant: the offset of a fetched message is committed at once, as with
   enable_auto_commit. *)
ResumeAtFetched(p) == pos[p]

(* Where a new owner starts: there is no committed offset and
   auto_offset_reset is earliest. *)
Resume(p) == 0

(* The replica joins the group anew, here before its partitions were given
   away. *)
Restart(c) ==
    /\ c \notin up
    /\ up' = up \cup {c}
    /\ pos' = [p \in Partitions |-> IF owner[p] = c THEN Resume(p) ELSE pos[p]]
    /\ UNCHANGED <<ruleVars, owner, moves, evalVars, histVars>>

(* The group takes p from a replica that is gone, or rebalances it away from
   one that may still be evaluating a message of p. *)
Assign(p, c) ==
    /\ c \in up /\ owner[p] # c
    /\ IF owner[p] \in up
       THEN moves < MaxMoves /\ moves' = moves + 1
       ELSE UNCHANGED moves
    /\ owner' = [owner EXCEPT ![p] = c]
    /\ pos' = [pos EXCEPT ![p] = Resume(p)]
    /\ UNCHANGED <<ruleVars, up, evalVars, histVars>>

-----------------------------------------------------------------------------
(* Rules and the clock. *)

(* delete_rule and update_rule set a rule's status. *)
SetStatus(r) ==
    /\ active' = IF r \in active THEN active \ {r} ELSE active \cup {r}
    /\ UNCHANGED <<fireCount, recent, office, groupVars, evalVars, histVars>>

(* Time passes: what happened first is now older than the cooldown. *)
Elapse(r) ==
    /\ recent[r] # <<>>
    /\ recent' = [recent EXCEPT ![r] = Tail(@)]
    /\ UNCHANGED <<active, fireCount, office, groupVars, evalVars, histVars>>

Hour ==
    /\ OfficeRules # {}
    /\ office' = ~office
    /\ UNCHANGED <<active, fireCount, recent, groupVars, evalVars, histVars>>

Step(c) ==
    \/ \E p \in Partitions : Poll(c, p)
    \/ \E r \in Rules : Skip(c, r) \/ Fire(c, r)
    \/ Record(c) \/ Finish(c) \/ Abort(c)

Next ==
    \/ \E c \in Replicas : Step(c) \/ Crash(c) \/ Restart(c)
    \/ \E p \in Partitions, c \in Replicas : Assign(p, c)
    \/ \E r \in Rules : SetStatus(r) \/ Elapse(r)
    \/ Hour

Spec == Init /\ [][Next]_vars

-----------------------------------------------------------------------------
(* Properties. *)

AlertsInWindow(r) == Len(recent[r]) - Times(Update, recent[r])

(* In any period as long as a rule's cooldown each replica raises at most one alert for
   it, on top of those whose statistics were lost: a replica that recorded
   its firing sees it at its next evaluation.  This is all the cooldown
   gives: two replicas that read the rule together both fire. *)
AlertsPerCooldownBounded ==
    \A r \in Rules : AlertsInWindow(r) <= Cardinality(Replicas) + unrecorded[r]

(* testing_strategy.yaml: the same event arriving twice within the window
   raises exactly one alert. *)
ReplayedEventAlertsOnce ==
    \A r \in Rules, e \in Events : Times(e, recent[r]) <= 1
=============================================================================
