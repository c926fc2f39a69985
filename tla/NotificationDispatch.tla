------------------------ MODULE NotificationDispatch ------------------------
(***************************************************************************)
(* dispatch_alert_notifications_task: Celery workers that send an alert to *)
(* the channels it is eligible for.                                        *)
(*                                                                         *)
(* A run is one database transaction: for each channel it sends, inserts a *)
(* log row and increments the channel's counters, and commits only after   *)
(* the last one.  The counter updates hold the channels' row locks until   *)
(* then.  What was mailed stays mailed when the run is undone, and the     *)
(* broker gives the task to a worker again when it was not acknowledged.   *)
(* A child process that dies is acknowledged all the same by its parent.   *)
(***************************************************************************)
EXTENDS Integers, FiniteSets, Functions

CONSTANTS
    Jobs,       \* enqueued tasks, one per alert and cause
    Workers,    \* Celery worker processes
    External,   \* email, slack and webhook channels
    InApp,      \* in_app channels: rows of the run's own transaction
    Unsupported,\* channels of any other type
    Eligible,   \* pairs <<j, ch>>: ch is active and passes j's filters
    MaxRetries, \* max_retries of the task
    MaxFaults   \* bound: crashed workers and visibility timeouts

Channels == External \cup InApp \cup Unsupported
NoJob == "no job"

ASSUME KindsAssumption ==
    /\ IsFiniteSet(Jobs) /\ IsFiniteSet(Workers) /\ IsFiniteSet(Channels)
    /\ NoJob \notin Jobs
    /\ External \cap InApp = {} /\ (External \cup InApp) \cap Unsupported = {}
    /\ Eligible \subseteq Jobs \X Channels
    /\ MaxRetries \in Nat /\ MaxFaults \in Nat

VARIABLES
    ready,      \* ready[j][n]: messages of task j with n retries to be taken
    orphans,    \* orphans[j][n]: those whose worker died unacknowledged
    job,        \* job[w]: the task worker w runs, or NoJob
    tries,      \* tries[w]: self.request.retries of w's message
    left,       \* left[w]: channels the loop has not reached
    at,         \* at[w]: the channel sent to but not logged, or NoChannel
    result,     \* result[w][ch]: uncommitted outcome of the run for ch
    committed,  \* committed[w]: the run's commit is done
    log,        \* log[j][ch]: committed log rows, by status
    counter,    \* counter[ch]: the columns sent_count and failed_count
    noticeCount,\* noticeCount[j]: what j added to notification_count
    delivered,  \* delivered[j][ch]: notices that reached the channel
    settled,    \* tasks that ended, by success or by exhausted retries
    forgotten,  \* tasks a message of which was acknowledged for a dead child
    unlogged,   \* history: unlogged[j][ch], notices whose log row is not "sent"
    faults      \* crashes and visibility timeouts so far

queueVars == <<ready, orphans, settled, forgotten>>
runVars   == <<job, tries, left, at, result, committed>>
dbVars    == <<log, counter, noticeCount>>
dispatchVars == <<queueVars, runVars, dbVars, delivered, unlogged, faults>>

NoChannel == "no channel"
LogStatus == {"sent", "failed", "skipped"}
NoResult == [ch \in Channels |-> "none"]
NoticeTable == [Jobs -> [Channels -> Nat]]

DispatchTypeOK ==
    /\ ready \in [Jobs -> [0..MaxRetries -> Nat]]
    /\ orphans \in [Jobs -> [0..MaxRetries -> Nat]]
    /\ job \in [Workers -> Jobs \cup {NoJob}]
    /\ tries \in [Workers -> 0..MaxRetries]
    /\ left \in [Workers -> SUBSET Channels]
    /\ at \in [Workers -> Channels \cup {NoChannel}]
    /\ result \in [Workers -> [Channels -> LogStatus \cup {"none"}]]
    /\ committed \in [Workers -> BOOLEAN]
    /\ log \in [Jobs -> [Channels -> [LogStatus -> Nat]]]
    /\ counter \in [Channels -> [sent : Nat, failed : Nat]]
    /\ noticeCount \in [Jobs -> Nat]
    /\ delivered \in NoticeTable
    /\ settled \subseteq Jobs /\ forgotten \subseteq Jobs
    /\ unlogged \in NoticeTable
    /\ faults \in 0..MaxFaults

NoNotice == [j \in Jobs |-> [ch \in Channels |-> 0]]

DispatchInit ==
    /\ ready = [j \in Jobs |-> [n \in 0..MaxRetries |-> IF n = 0 THEN 1 ELSE 0]]
    /\ orphans = [j \in Jobs |-> [n \in 0..MaxRetries |-> 0]]
    /\ job = [w \in Workers |-> NoJob]
    /\ tries = [w \in Workers |-> 0]
    /\ left = [w \in Workers |-> {}]
    /\ at = [w \in Workers |-> NoChannel]
    /\ result = [w \in Workers |-> NoResult]
    /\ committed = [w \in Workers |-> FALSE]
    /\ log = [j \in Jobs |-> [ch \in Channels |-> [s \in LogStatus |-> 0]]]
    /\ counter = [ch \in Channels |-> [sent |-> 0, failed |-> 0]]
    /\ noticeCount = [j \in Jobs |-> 0]
    /\ delivered = NoNotice
    /\ settled = {} /\ forgotten = {}
    /\ unlogged = NoNotice
    /\ faults = 0

-----------------------------------------------------------------------------
(* A run. *)

(* A worker takes a message; the run reads the alert and the channels. *)
Take(w, j, n) ==
    /\ job[w] = NoJob /\ ready[j][n] > 0
    /\ ready' = [ready EXCEPT ![j][n] = @ - 1]
    /\ job' = [job EXCEPT ![w] = j]
    /\ tries' = [tries EXCEPT ![w] = n]
    /\ left' = [left EXCEPT ![w] = {ch \in Channels : <<j, ch>> \in Eligible}]
    /\ UNCHANGED <<orphans, settled, forgotten, at, result, committed, dbVars,
                   delivered, unlogged, faults>>

(* The channels whose counters the run has updated: their rows stay locked
   until the run ends. *)
LockedBy(w) == {ch \in Channels : result[w][ch] # "none"} \ {at[w]}

Sending(w, ch) ==
    /\ job[w] # NoJob /\ ch \in left[w] /\ at[w] = NoChannel
    /\ at' = [at EXCEPT ![w] = ch]
    /\ left' = [left EXCEPT ![w] = @ \ {ch}]
    /\ UNCHANGED <<queueVars, job, tries, committed, dbVars, faults>>

(* The sender returns.  An in-app notice is a row that commits with the run. *)
SendOk(w, ch) ==
    /\ ch \notin Unsupported
    /\ Sending(w, ch)
    /\ result' = [result EXCEPT ![w][ch] = "sent"]
    /\ delivered' = IF ch \in External
                    THEN [delivered EXCEPT ![job[w]][ch] = @ + 1] ELSE delivered
    /\ UNCHANGED unlogged

(* The sender raises: nothing was sent, or the answer was lost. *)
SendRaises(w, ch) ==
    /\ ch \in External
    /\ Sending(w, ch)
    /\ result' = [result EXCEPT ![w][ch] = "failed"]
    /\ \E n \in {0, 1} :
          /\ delivered' = [delivered EXCEPT ![job[w]][ch] = @ + n]
          /\ unlogged' = [unlogged EXCEPT ![job[w]][ch] = @ + n]

SendSkips(w, ch) ==
    /\ ch \in Unsupported
    /\ Sending(w, ch)
    /\ result' = [result EXCEPT ![w][ch] = "skipped"]
    /\ UNCHANGED <<delivered, unlogged>>

(* The log row and the counter UPDATE, which waits for the channel's lock. *)
LogResult(w) ==
    /\ at[w] # NoChannel
    /\ \A v \in Workers \ {w} : at[w] \notin LockedBy(v)
    /\ at' = [at EXCEPT ![w] = NoChannel]
    /\ UNCHANGED <<queueVars, job, tries, left, result, committed, dbVars,
                   delivered, unlogged, faults>>

(* One row more with status r. *)
Logged(c, r) == [c EXCEPT ![r] = @ + 1]

(* counter_col: whatever is not "sent" counts as failed. *)
Counted(c, r) ==
    [sent |-> c.sent + IF r = "sent" THEN 1 ELSE 0,
     failed |-> c.failed + IF r \in {"failed", "skipped"} THEN 1 ELSE 0]

(* notification_count, and the commit of the whole run. *)
Commit(w) ==
    /\ job[w] # NoJob /\ ~committed[w] /\ left[w] = {} /\ at[w] = NoChannel
    /\ LET j == job[w]
           rows == {ch \in Channels : result[w][ch] # "none"}
       IN  /\ log' = [log EXCEPT ![j] = [ch \in Channels |->
                        IF ch \in rows
                        THEN Logged(@[ch], result[w][ch]) ELSE @[ch]]]
           /\ counter' = [ch \in Channels |->
                            IF ch \in rows THEN Counted(counter[ch], result[w][ch])
                            ELSE counter[ch]]
           /\ noticeCount' = [noticeCount EXCEPT ![j] =
                @ + Cardinality({ch \in rows : result[w][ch] \in {"sent", "skipped"}})]
           /\ delivered' = [delivered EXCEPT ![j] = [ch \in Channels |->
                IF ch \in rows \cap InApp THEN @[ch] + 1 ELSE @[ch]]]
    /\ committed' = [committed EXCEPT ![w] = TRUE]
    /\ result' = [result EXCEPT ![w] = NoResult]
    /\ UNCHANGED <<queueVars, job, tries, left, at, unlogged, faults>>

EndRun(w) ==
    /\ job' = [job EXCEPT ![w] = NoJob]
    /\ tries' = [tries EXCEPT ![w] = 0]
    /\ left' = [left EXCEPT ![w] = {}]
    /\ at' = [at EXCEPT ![w] = NoChannel]
    /\ result' = [result EXCEPT ![w] = NoResult]
    /\ committed' = [committed EXCEPT ![w] = FALSE]

(* The task returned and its message is acknowledged. *)
Ack(w) ==
    /\ job[w] # NoJob /\ committed[w]
    /\ settled' = settled \cup {job[w]}
    /\ EndRun(w)
    /\ UNCHANGED <<ready, orphans, forgotten, dbVars, delivered, unlogged, faults>>

(* The notices of an undone run that no log row will ever tell of. *)
Undo(w) ==
    unlogged' = [unlogged EXCEPT ![job[w]] = [ch \in Channels |->
        @[ch] + IF ch \in External /\ result[w][ch] = "sent" THEN 1 ELSE 0]]

(* self.retry: the message is sent again with one retry more, or the task
   fails for good. *)
Retry(w) ==
    LET j == job[w]
        n == tries[w]
    IN  IF n < MaxRetries
        THEN /\ ready' = [ready EXCEPT ![j][n + 1] = @ + 1]
             /\ UNCHANGED settled
        ELSE /\ settled' = settled \cup {j}
             /\ UNCHANGED ready

(* Mutant: an exception after the commit also retries. *)
AbortAnywhere(w) ==
    /\ job[w] # NoJob
    /\ Undo(w) /\ Retry(w) /\ EndRun(w)
    /\ UNCHANGED <<orphans, forgotten, dbVars, delivered, faults>>

(* A statement raises, PostgreSQL picks the run as a deadlock's victim, or
   the commit fails: rollback, then self.retry. *)
AbortRun(w) ==
    /\ job[w] # NoJob /\ ~committed[w]
    /\ Undo(w) /\ Retry(w) /\ EndRun(w)
    /\ UNCHANGED <<orphans, forgotten, dbVars, delivered, faults>>

-----------------------------------------------------------------------------
(* Faults: task_acks_late and the broker's visibility_timeout. *)

(* The whole worker is lost, and its message stays unacknowledged. *)
LoseWorker(w) ==
    /\ job[w] # NoJob /\ faults < MaxFaults
    /\ faults' = faults + 1
    /\ Undo(w)
    /\ orphans' = [orphans EXCEPT ![job[w]][tries[w]] = @ + 1]
    /\ EndRun(w)
    /\ UNCHANGED <<ready, settled, forgotten, dbVars, delivered>>

(* The child process of the run is lost.  Without task_reject_on_worker_lost
   its parent acknowledges the message, and the task is not run again. *)
LoseChild(w) ==
    /\ job[w] # NoJob /\ faults < MaxFaults
    /\ faults' = faults + 1
    /\ Undo(w)
    /\ forgotten' = forgotten \cup {job[w]}
    /\ EndRun(w)
    /\ UNCHANGED <<ready, orphans, settled, dbVars, delivered>>

(* Mutant: a message is restored although nobody holds it. *)
RedeliverUnheld(j, n) ==
    /\ orphans' = [orphans EXCEPT ![j][n] = @ - 1]
    /\ ready' = [ready EXCEPT ![j][n] = @ + 1]
    /\ UNCHANGED <<settled, forgotten, runVars, dbVars, delivered, unlogged, faults>>

Redeliver(j, n) ==
    /\ orphans[j][n] > 0
    /\ orphans' = [orphans EXCEPT ![j][n] = @ - 1]
    /\ ready' = [ready EXCEPT ![j][n] = @ + 1]
    /\ UNCHANGED <<settled, forgotten, runVars, dbVars, delivered, unlogged, faults>>

(* A run outlives the visibility timeout and the message is handed out again
   while it goes on. *)
Overrun(w) ==
    /\ job[w] # NoJob /\ faults < MaxFaults
    /\ faults' = faults + 1
    /\ ready' = [ready EXCEPT ![job[w]][tries[w]] = @ + 1]
    /\ UNCHANGED <<orphans, settled, forgotten, runVars, dbVars, delivered, unlogged>>

-----------------------------------------------------------------------------
Deadlocked(w) ==
    /\ at[w] # NoChannel
    /\ \E v \in Workers \ {w} : /\ at[w] \in LockedBy(v)
                                /\ at[v] \in LockedBy(w)

Run(w) ==
    \/ \E j \in Jobs, n \in 0..MaxRetries : Take(w, j, n)
    \/ \E ch \in Channels : SendOk(w, ch) \/ SendRaises(w, ch) \/ SendSkips(w, ch)
    \/ LogResult(w) \/ Commit(w) \/ Ack(w)

DispatchNext ==
    \/ \E w \in Workers :
          Run(w) \/ AbortRun(w) \/ LoseWorker(w) \/ LoseChild(w) \/ Overrun(w)
    \/ \E j \in Jobs, n \in 0..MaxRetries : Redeliver(j, n)

DispatchSpec == DispatchInit /\ [][DispatchNext]_dispatchVars

-----------------------------------------------------------------------------
(* Properties. *)

Rows(ch, s) == SumFunction([j \in Jobs |-> log[j][ch][s]])

(* The columns a channel and an alert keep agree with the log, however many
   runs update them at once: they commit in the transaction of the log rows
   they count. *)
CountersMatchLog ==
    /\ \A ch \in Channels :
          /\ counter[ch].sent = Rows(ch, "sent")
          /\ counter[ch].failed = Rows(ch, "failed") + Rows(ch, "skipped")
    /\ \A j \in Jobs :
          noticeCount[j] = SumFunction(
              [ch \in Channels |-> log[j][ch]["sent"] + log[j][ch]["skipped"]])

(* Every notice that went out is a "sent" row of the log, or is about to be
   one, or belongs to a run that was undone or to an answer that was lost. *)
Pending(j, ch) ==
    Cardinality({w \in Workers : /\ job[w] = j /\ ch \in External
                                 /\ result[w][ch] = "sent"})

EveryNoticeTraced ==
    \A j \in Jobs, ch \in Channels :
        delivered[j][ch] = log[j][ch]["sent"] + Pending(j, ch) + unlogged[j][ch]

(* A channel gets a notice again only when the log does not know of the first
   (its run was undone, or its answer lost) or when a crash or a visibility
   timeout handed out a task again: retries alone repeat no logged notice. *)
RepeatsExcused ==
    \A j \in Jobs, ch \in Channels :
        delivered[j][ch] <= 1 + unlogged[j][ch] + faults

(* The books of the dispatch balance: notices, log and counters. *)
DispatchAccounted == CountersMatchLog /\ EveryNoticeTraced /\ RepeatsExcused
=============================================================================
