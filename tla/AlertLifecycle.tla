--------------------------- MODULE AlertLifecycle ---------------------------
(***************************************************************************)
(* The alerts of the alert engine: the calls that create, acknowledge,     *)
(* resolve, suppress and escalate them, the sweep that escalates stale     *)
(* ones, and the notification jobs both leave behind.                      *)
(*                                                                         *)
(* A call reads the alert, checks its status, and later updates it by id   *)
(* alone: the UPDATE does not look at the status again.  What follows the  *)
(* commit (a second read, the Celery job, the Kafka event) may fail and    *)
(* leaves the commit behind.                                               *)
(***************************************************************************)
EXTENDS Integers, FiniteSets

CONSTANTS
    Alerts,     \* ids of alerts
    Users,      \* ids of users; both kinds of id are UUIDs
    Calls,      \* calls of the service, each made once
    Sweepers    \* runs of auto_escalate_alerts_task that may overlap

ASSUME IdsAssumption ==
    /\ Alerts # {} /\ Alerts \cap Users = {}
    /\ IsFiniteSet(Calls) /\ IsFiniteSet(Sweepers)

VARIABLES
    status,     \* status[a]: the alert row; "none" before it is inserted
    due,        \* alerts older than their rule's auto_escalate_minutes
    call,       \* call[q]: the call in progress
    pending,    \* pending[s]: alerts sweep s escalated and has yet to report
    jobs,       \* jobs[a][c]: dispatch tasks enqueued for a with cause c
    resolvedEvents, \* resolvedEvents[a]: alert.resolved events published
    version,    \* history: status writes of a
    swept,      \* history: times a sweep escalated a
    writes,     \* history: writes[a][c], commits that cause c reports
    lost        \* history: lost[a][c], reports that died with their process

rowVars == <<status, version, writes>>
outVars == <<jobs, resolvedEvents, lost>>
vars == <<rowVars, due, call, pending, outVars, swept>>

Status == {"none", "open", "acknowledged", "resolved", "suppressed", "escalated"}
Terminal == {"resolved", "suppressed"}
Cause == {"alert_created", "alert_escalated", "alert_resolved"}
Transition == {"acknowledge", "resolve", "suppress", "escalate"}
Op == Transition \cup {"create"}
Phase == {"idle", "validated", "written", "notified", "done",
          "rejected", "not_found", "died"}

(* Mutant: a resolved alert may be acknowledged. *)
AllowedResolved ==
    [acknowledge |-> {"open", "escalated", "resolved"},
     resolve     |-> {"open", "acknowledged", "escalated"},
     suppress    |-> {"open", "acknowledged", "escalated"},
     escalate    |-> {"open", "acknowledged"}]

(* The allowed_statuses each transition passes to _fetch_and_validate. *)
Allowed ==
    [acknowledge |-> {"open", "escalated"},
     resolve     |-> {"open", "acknowledged", "escalated"},
     suppress    |-> {"open", "acknowledged", "escalated"},
     escalate    |-> {"open", "acknowledged"}]

(* Mutant: acknowledging writes a status of the design document that the
   AlertStatus literal does not have. *)
TargetOfDesign ==
    [create |-> "open", acknowledge |-> "assigned", resolve |-> "resolved",
     suppress |-> "suppressed", escalate |-> "escalated"]

(* The status each operation writes. *)
Target ==
    [create |-> "open", acknowledge |-> "acknowledged", resolve |-> "resolved",
     suppress |-> "suppressed", escalate |-> "escalated"]

(* The cause of the dispatch task an operation enqueues, if it does. *)
Causes ==
    [create |-> {"alert_created"}, acknowledge |-> {},
     resolve |-> {"alert_resolved"}, suppress |-> {},
     escalate |-> {"alert_escalated"}]

(* path is the alert of the URL, id the id the service looks up. *)
Call == [op : Op, path : Alerts, id : Alerts \cup Users, phase : Phase, seen : Nat]

NoCall == [op |-> "create", path |-> CHOOSE a \in Alerts : TRUE,
           id |-> CHOOSE a \in Alerts : TRUE, phase |-> "idle", seen |-> 0]

NoCount == [a \in Alerts |-> [c \in Cause |-> 0]]

TypeOK ==
    /\ status \in [Alerts -> Status]
    /\ due \subseteq Alerts
    /\ call \in [Calls -> Call]
    /\ pending \in [Sweepers -> SUBSET Alerts]
    /\ jobs \in [Alerts -> [Cause -> Nat]]
    /\ resolvedEvents \in [Alerts -> Nat]
    /\ version \in [Alerts -> Nat]
    /\ swept \in [Alerts -> Nat]
    /\ writes \in [Alerts -> [Cause -> Nat]]
    /\ lost \in [Alerts -> [Cause -> Nat]]

Init ==
    /\ status = [a \in Alerts |-> "none"]
    /\ due = {}
    /\ call = [q \in Calls |-> NoCall]
    /\ pending = [s \in Sweepers |-> {}]
    /\ jobs = NoCount
    /\ resolvedEvents = [a \in Alerts |-> 0]
    /\ version = [a \in Alerts |-> 0]
    /\ swept = [a \in Alerts |-> 0]
    /\ writes = NoCount
    /\ lost = NoCount

-----------------------------------------------------------------------------
(* Calls. *)

AddToAll(count, as, causes) ==
    [a \in Alerts |-> [c \in Cause |->
        count[a][c] + IF a \in as /\ c \in causes THEN 1 ELSE 0]]

AddTo(count, a, causes) == AddToAll(count, {a}, causes)

(* The row write of operation op on alert a, with its commit. *)
WriteRow(op, a) ==
    /\ status' = [status EXCEPT ![a] = Target[op]]
    /\ version' = [version EXCEPT ![a] = @ + 1]
    /\ writes' = AddTo(writes, a, Causes[op])

Advance(q, phase) ==
    call' = [call EXCEPT ![q] = [op |-> call[q].op, path |-> call[q].path,
                                 id |-> call[q].id, phase |-> phase,
                                 seen |-> call[q].seen]]

(* create_alert, up to its commit: a fresh id is inserted. *)
Create(q, a) ==
    /\ call[q].phase = "idle"
    /\ status[a] = "none"
    /\ WriteRow("create", a)
    /\ call' = [call EXCEPT ![q] = [op |-> "create", path |-> a, id |-> a,
                                    phase |-> "written", seen |-> 0]]
    /\ UNCHANGED <<due, pending, outVars, swept>>

(* _fetch_and_validate: what the lookup of an id finds. *)
Outcome(op, id) ==
    IF ~ \E a \in Alerts : a = id /\ status[a] # "none" THEN "not_found"
    ELSE IF status[id] \in Allowed[op] THEN "validated" ELSE "rejected"

Fetch(q, op, path, id) ==
    /\ call[q].phase = "idle"
    /\ call' = [call EXCEPT ![q] = [op |-> op, path |-> path, id |-> id,
                                    phase |-> Outcome(op, id),
                                    seen |-> version[path]]]
    /\ UNCHANGED <<rowVars, due, pending, outVars, swept>>

(* A caller that passes the service its arguments in their order. *)
ServiceCall(q, op, a) == Fetch(q, op, a, a)

(* The endpoints of routers/alerts.py pass (db, tenant_id, alert_id,
   user_id, data) to functions that take (db, tenant_id, user_id, alert_id,
   data): the id the service looks up is the caller's. *)
RouterCall(q, op, a, user) == Fetch(q, op, a, user)

(* Mutant: the job is enqueued inside the transaction, whose commit then
   fails. *)
WriteEnqueuesFirst(q) ==
    /\ call[q].phase = "validated"
    /\ jobs' = AddTo(jobs, call[q].id, Causes[call[q].op])
    /\ Advance(q, "done")
    /\ UNCHANGED <<rowVars, due, pending, resolvedEvents, lost, swept>>

(* The UPDATE by id and its commit, whatever the status is by now. *)
Write(q) ==
    /\ call[q].phase = "validated"
    /\ WriteRow(call[q].op, call[q].id)
    /\ Advance(q, IF Causes[call[q].op] = {} THEN "done" ELSE "written")
    /\ UNCHANGED <<due, pending, outVars, swept>>

(* dispatch_alert_notifications_task.delay, after the commit. *)
Enqueue(q) ==
    /\ call[q].phase = "written"
    /\ jobs' = AddTo(jobs, call[q].id, Causes[call[q].op])
    /\ Advance(q, IF call[q].op = "resolve" THEN "notified" ELSE "done")
    /\ UNCHANGED <<rowVars, due, pending, resolvedEvents, lost, swept>>

(* resolve_alert last publishes alert.resolved, which may raise. *)
PublishResolved(q) ==
    /\ call[q].phase = "notified"
    /\ \E sent \in {0, 1} :
          resolvedEvents' = [resolvedEvents EXCEPT ![call[q].id] = @ + sent]
    /\ Advance(q, "done")
    /\ UNCHANGED <<rowVars, due, pending, jobs, lost, swept>>

(* The call ends early: its process dies or one of its awaits raises. *)
Die(q) ==
    /\ call[q].phase \in {"validated", "written", "notified"}
    /\ lost' = IF call[q].phase = "written"
               THEN AddTo(lost, call[q].id, Causes[call[q].op]) ELSE lost
    /\ Advance(q, "died")
    /\ UNCHANGED <<rowVars, due, pending, jobs, resolvedEvents, swept>>

-----------------------------------------------------------------------------
(* auto_escalate_stale_alerts. *)

(* Time passes: an alert outlives the window of the rule that raised it. *)
Age(a) ==
    /\ status[a] # "none" /\ a \notin due
    /\ due' = due \cup {a}
    /\ UNCHANGED <<rowVars, call, pending, outVars, swept>>

(* Mutant: the UPDATE does not test a.status = 'open'. *)
StaleAny == {a \in due : status[a] # "none"}

Stale == {a \in due : status[a] = "open"}

(* One UPDATE ... RETURNING over the tenant, and its commit. *)
Sweep(s) ==
    /\ pending[s] = {} /\ Stale # {}
    /\ pending' = [pending EXCEPT ![s] = Stale]
    /\ status' = [a \in Alerts |-> IF a \in Stale THEN "escalated" ELSE status[a]]
    /\ version' = [a \in Alerts |-> version[a] + IF a \in Stale THEN 1 ELSE 0]
    /\ swept' = [a \in Alerts |-> swept[a] + IF a \in Stale THEN 1 ELSE 0]
    /\ writes' = AddToAll(writes, Stale, {"alert_escalated"})
    /\ UNCHANGED <<due, call, outVars>>

SweepEnqueue(s, a) ==
    /\ a \in pending[s]
    /\ jobs' = AddTo(jobs, a, {"alert_escalated"})
    /\ pending' = [pending EXCEPT ![s] = @ \ {a}]
    /\ UNCHANGED <<rowVars, due, call, resolvedEvents, lost, swept>>

(* The sweep's process dies between its commit and its last delay. *)
SweepDies(s) ==
    /\ pending[s] # {}
    /\ lost' = AddToAll(lost, pending[s], {"alert_escalated"})
    /\ pending' = [pending EXCEPT ![s] = {}]
    /\ UNCHANGED <<rowVars, due, call, jobs, resolvedEvents, swept>>

-----------------------------------------------------------------------------
Next ==
    \/ \E q \in Calls, a \in Alerts :
          \/ Create(q, a)
          \/ \E op \in Transition : ServiceCall(q, op, a)
          \/ \E op \in Transition, u \in Users : RouterCall(q, op, a, u)
    \/ \E q \in Calls : Write(q) \/ Enqueue(q) \/ PublishResolved(q) \/ Die(q)
    \/ \E a \in Alerts : Age(a)
    \/ \E s \in Sweepers : Sweep(s) \/ SweepDies(s)
    \/ \E s \in Sweepers, a \in Alerts : SweepEnqueue(s, a)

Spec == Init /\ [][Next]_vars

-----------------------------------------------------------------------------
(* Properties. *)

(* Resolved and suppressed alerts are left only by a call that had read the
   alert before it was closed: one that starts afterwards is rejected, and
   the sweep never touches them. *)
TerminalLeftOnlyByOverlap ==
    [][\A a \in Alerts :
         status[a] \in Terminal /\ status'[a] # status[a]
            => \E q \in Calls : /\ call[q].phase = "validated"
                                /\ call[q].id = a
                                /\ call[q].seen < version[a]]_vars

(* Overlapping sweeps, and sweeps racing user calls, escalate an alert once
   in its life: the UPDATE takes open alerts and nothing reopens one. *)
SweptOnce == \A a \in Alerts : swept[a] <= 1

(* Why these hold.  A swept alert never gets back to open, and a call that is
   about to write either still sees the alert it validated or has been
   overtaken by a later version of it. *)
SweptStaysClosed ==
    \A a \in Alerts : swept[a] > 0 => status[a] \notin {"none", "open"}

CallsInOrder ==
    \A q \in Calls :
        /\ call[q].phase \in {"validated", "written", "notified"}
              => call[q].id \in Alerts
        /\ call[q].phase = "validated" =>
              /\ call[q].op \in Transition
              /\ call[q].seen <= version[call[q].id]
              /\ status[call[q].id] # "none"
              /\ call[q].seen = version[call[q].id]
                    => status[call[q].id] \in Allowed[call[q].op]

IInv == TypeOK /\ SweptOnce /\ SweptStaysClosed /\ CallsInOrder

(* Every committed change that is to be notified has its job, or is about to
   get it, or lost it with the process that made the change: no job reports
   a change that did not commit, and none is enqueued twice. *)
Waiting(a, c) ==
    Cardinality({q \in Calls : /\ call[q].phase = "written"
                               /\ call[q].id = a
                               /\ c \in Causes[call[q].op]})
    + IF c = "alert_escalated"
      THEN Cardinality({s \in Sweepers : a \in pending[s]}) ELSE 0

NoticesAccounted ==
    \A a \in Alerts :
        /\ \A c \in Cause :
              writes[a][c] = jobs[a][c] + Waiting(a, c) + lost[a][c]
        /\ resolvedEvents[a] <= jobs[a]["alert_resolved"]

(* The docstrings of routers/alerts.py: an endpoint acts on the alert of its
   path.  Only an alert that does not exist should be answered 404. *)
EndpointFindsAlert ==
    \A q \in Calls : call[q].phase = "not_found" => call[q].seen = 0
=============================================================================
