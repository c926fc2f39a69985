------------------------------ MODULE ErpSync ------------------------------
(***************************************************************************)
(* The pull of one entity type from one tenant's ERP: the beat's message   *)
(* is run, soon or late, and dispatches a task that looks back from that   *)
(* hour; a worker pages through what the ERP lists while the ERP changes   *)
(* under it, and offers every record to Kafka once.                        *)
(*                                                                         *)
(* The ERP is asked for records stamped after a time, in pages by offset:  *)
(* SAP in an order of its own, Oracle last changed first.  The stamp is    *)
(* the time of the last change, and of goods receipts the date under which *)
(* they are booked.  Time is in units of which the beat's 6 hours are      *)
(* Period and the 7 hours it looks back are LookBack.                      *)
(***************************************************************************)
EXTENDS Integers, FiniteSetsExt

CONSTANTS
    Records,        \* rows of the entity in the ERP
    SyncWorkers,    \* worker processes
    SyncRequests,   \* requests to the sync endpoint, one pull each
    Period, LookBack, PageSize,
    PullTries,      \* max_retries of sync_erp_tenant
    MaxHours, MaxVersions, MaxEdits, MaxBreaks
                    \* bounds: time, changes of a record and in all, faults

ASSUME ErpAssumption ==
    /\ IsFiniteSet(Records)
    /\ Period \in Nat \ {0} /\ LookBack \in Nat /\ LookBack > Period
    /\ PageSize \in Nat \ {0}
    /\ PullTries \in Nat
    /\ MaxHours \in Nat /\ MaxHours > Period /\ MaxVersions \in Nat
    /\ MaxEdits \in Nat /\ MaxBreaks \in Nat

VARIABLES
    system,     \* the connection's ERP, "none" before there is one
    dated,      \* whether records are stamped with the date they are booked under
    hours,
    listing,    \* <<x, r>>: the ERP lists x no later than r
    stamp,      \* stamp[r]: what the ERP's filter compares
    changed,    \* changed[r]: when r last changed
    edition,    \* edition[r]: how often it has, 0 before it exists
    beats,      \* how many messages of the beat are in the broker
    syncTasks,  \* tasks in the broker
    pull,       \* pull[w]: what a worker is at
    offered,    \* editions that are on integration.erp.events
    lastWord,   \* lastWord[r]: the edition of r that is there last
    breaks,
    synced,     \* history: the runs of the dispatch, each the hour it is at, for
                \* which a pull has finished that no deletion shifted
    unpublished \* history: editions whose publish or normalisation failed

recordVars == <<dated, listing, stamp, changed, edition>>
brokerVars == <<beats, syncTasks>>
topicVars == <<offered, lastWord>>
erpVars == <<system, hours, recordVars, brokerVars, pull, topicVars, breaks, synced,
             unpublished>>

Pullers == SyncWorkers \cup SyncRequests
Runs == 1..MaxHours
Editions == Records \X (1..MaxVersions)

(* run: 0 for a sync on request.  got: what it is to publish, each edition with
   the place it was fetched from.  met: history, whether another pull was under
   way meanwhile; shifted: whether the ERP dropped a record meanwhile. *)
Pull == [stage : {"idle", "fetching", "publishing", "over"}, run : {0} \cup Runs,
         tries : 0..PullTries, page : Nat \ {0}, got : SUBSET (Nat \X Editions),
         met : BOOLEAN, shifted : BOOLEAN]
NoPull == [stage |-> "idle", run |-> 0, tries |-> 0, page |-> 1, got |-> {},
           met |-> FALSE, shifted |-> FALSE]
Over == [NoPull EXCEPT !.stage = "over"]

Listed == {r \in Records : <<r, r>> \in listing}

ErpTypeOK ==
    /\ system \in {"none", "sap", "oracle", "generic"}
    /\ dated \in BOOLEAN
    /\ hours \in 0..MaxHours
    /\ listing \subseteq Listed \X Listed
    /\ \A x, r \in Listed : <<x, r>> \in listing \/ <<r, x>> \in listing
    /\ \A x, y, r \in Listed : <<x, y>> \in listing /\ <<y, r>> \in listing =>
          <<x, r>> \in listing /\ (x = r => x = y)
    /\ stamp \in [Records -> 0..MaxHours] /\ changed \in [Records -> 0..MaxHours]
    /\ edition \in [Records -> 0..MaxVersions]
    /\ beats \in Nat /\ (beats > 0 => hours \in Runs)
    /\ syncTasks \subseteq [run : Runs, tries : 0..PullTries]
    /\ pull \in [Pullers -> Pull]
    /\ offered \subseteq Editions
    /\ lastWord \in [Records -> 0..MaxVersions]
    /\ breaks \in 0..MaxBreaks
    /\ synced \subseteq Runs
    /\ unpublished \subseteq Editions

(* Any hour, with or without a message of the beat, and with any number of the
   faults and requests spent. *)
ErpInit ==
    /\ system = "none"
    /\ dated \in BOOLEAN
    /\ hours \in 0..MaxHours
    /\ listing = {}
    /\ stamp = [r \in Records |-> 0]
    /\ changed = [r \in Records |-> 0]
    /\ edition = [r \in Records |-> 0]
    /\ beats \in {0, 1} /\ (beats > 0 => hours \in Runs)
    /\ syncTasks = {}
    /\ pull \in [Pullers -> {NoPull, Over}]
    /\ \A w \in SyncWorkers : pull[w] = NoPull
    /\ offered = {}
    /\ lastWord = [r \in Records |-> 0]
    /\ breaks \in 0..MaxBreaks
    /\ synced = {}
    /\ unpublished = {}

Break == breaks < MaxBreaks /\ breaks' = breaks + 1

-----------------------------------------------------------------------------
(* The ERP, and the connection to it. *)

(* upsert_erp_connection; nothing deactivates a connection. *)
Connect(s) ==
    /\ system = "none"
    /\ system' = s
    /\ UNCHANGED <<hours, recordVars, brokerVars, pull, topicVars, breaks, synced,
                   unpublished>>

Without(r) == {p \in listing : r \notin {p[1], p[2]}}

(* Oracle lists it first; otherwise a record stays where it is, a new one is the
   last. *)
Moved(r) ==
    IF system = "oracle" THEN Without(r) \cup ({r} \X (Listed \cup {r}))
    ELSE IF r \in Listed THEN listing
    ELSE listing \cup ((Listed \cup {r}) \X {r})

(* A date to book under is given once, and may be past; the time of a change is
   not given. *)
FilterDates(r) ==
    IF ~dated THEN {hours} ELSE IF edition[r] > 0 THEN {stamp[r]} ELSE 0..hours

(* A user of the ERP creates or changes a record. *)
Change(r) ==
    /\ system # "none"
    /\ edition[r] < MaxVersions /\ MapThenSumSet(LAMBDA x : edition[x], Records) < MaxEdits
    /\ edition[r] > 0 => r \in Listed
    /\ edition' = [edition EXCEPT ![r] = @ + 1]
    /\ changed' = [changed EXCEPT ![r] = hours]
    /\ \E s \in FilterDates(r) : stamp' = [stamp EXCEPT ![r] = s]
    /\ listing' = Moved(r)
    /\ UNCHANGED <<system, dated, hours, brokerVars, pull, topicVars, breaks, synced,
                   unpublished>>

(* ... or deletes one, and the records after it move up. *)
Delete(r) ==
    /\ r \in Listed
    /\ listing' = Without(r)
    /\ pull' = [w \in Pullers |->
                  [pull[w] EXCEPT !.shifted = @ \/ pull[w].stage = "fetching"]]
    /\ UNCHANGED <<system, dated, hours, stamp, changed, edition, brokerVars, topicVars,
                   breaks, synced, unpublished>>

(* Time does not wait for what is in the broker. *)
Hour ==
    /\ hours < MaxHours
    /\ hours' = hours + 1
    /\ beats' = IF hours' % Period = 0 THEN beats + 1 ELSE beats
    /\ UNCHANGED <<system, recordVars, syncTasks, pull, topicVars, breaks, synced,
                   unpublished>>

-----------------------------------------------------------------------------
(* Dispatch. *)

(* Mutant: the look-back is as long as the beat is apart, less one. *)
SinceShort(run) == run - (Period - 1)

(* since, which a task keeps through its retries. *)
Since(run) == run - LookBack

Send == syncTasks' = syncTasks \cup {[run |-> hours, tries |-> 0]}

(* scheduled_erp_sync_all_tenants, whenever it is run: a task for an active
   connection. *)
Dispatch ==
    /\ beats > 0
    /\ beats' = beats - 1
    /\ IF system = "none" THEN UNCHANGED syncTasks ELSE Send
    /\ UNCHANGED <<system, hours, recordVars, pull, topicVars, breaks, synced, unpublished>>

(* One that fails at a later connection's task is retried from the first, one
   that is not acknowledged is given out again. *)
DispatchAgain ==
    /\ beats > 0 /\ system # "none"
    /\ Break
    /\ Send
    /\ UNCHANGED <<system, hours, recordVars, beats, pull, topicVars, synced, unpublished>>

(* The beat is down, the worker's child process dies, or the retries are used
   up. *)
Miss ==
    /\ beats > 0
    /\ Break
    /\ beats' = beats - 1
    /\ UNCHANGED <<system, hours, recordVars, syncTasks, pull, topicVars, synced,
                   unpublished>>

-----------------------------------------------------------------------------
(* sync_erp_entities, by a task or on request. *)

Busy(w) == pull[w].stage \in {"fetching", "publishing"}

Start(w, run, tries) ==
    LET met == \E x \in Pullers : Busy(x)
        new == [stage |-> "fetching", run |-> run, tries |-> tries, page |-> 1,
                got |-> {}, met |-> met, shifted |-> FALSE]
    IN  /\ pull[w].stage = "idle"
        /\ pull' = [x \in Pullers |->
                      IF x = w THEN new ELSE [pull[x] EXCEPT !.met = Busy(x)]]

TakeSync(w, t) ==
    /\ t \in syncTasks
    /\ syncTasks' = syncTasks \ {t}
    /\ Start(w, t.run, t.tries)
    /\ UNCHANGED <<system, hours, recordVars, beats, topicVars, breaks, synced,
                   unpublished>>

(* trigger_sync; without a "since" it asks for every record. *)
Trigger(w) ==
    /\ system # "none"
    /\ Start(w, 0, 0)
    /\ UNCHANGED <<system, hours, recordVars, brokerVars, topicVars, breaks, synced,
                   unpublished>>

(* The ERP's filter: SAP's is "gt", Oracle's ">=". *)
Matches(r, run) ==
    \/ run = 0
    \/ stamp[r] > Since(run)
    \/ system = "oracle" /\ stamp[r] = Since(run)

Found(run) == {r \in Listed : Matches(r, run)}
Place(r, run) == Cardinality({x \in Found(run) : <<x, r>> \in listing})

PageOf(run, page) ==
    {<<Place(r, run), <<r, edition[r]>>>> : r \in
        {x \in Found(run) : /\ Place(x, run) > (page - 1) * PageSize
                            /\ Place(x, run) <= page * PageSize}}

(* A page is full if there are as many as it and those before it hold. *)
Full(run, page) == Cardinality(Found(run)) >= page * PageSize

(* fetch_entities and normalise, which skips what it cannot read; a short
   page is the last. *)
Fetch(w) ==
    LET records == PageOf(pull[w].run, pull[w].page)
        full == Full(pull[w].run, pull[w].page)
    IN  /\ pull[w].stage = "fetching"
        /\ system # "generic"
        /\ \E bad \in {{}} \cup {{m} : m \in records} :
              /\ IF bad = {} THEN UNCHANGED breaks ELSE Break
              /\ unpublished' = unpublished \cup {m[2] : m \in bad}
              /\ pull' = [pull EXCEPT
                    ![w].got = @ \cup (records \ bad),
                    ![w].page = IF full THEN @ + 1 ELSE 1,
                    ![w].stage = IF full THEN @ ELSE "publishing"]
        /\ UNCHANGED <<system, hours, recordVars, brokerVars, topicVars, synced>>

(* with_retry starts over, from the first page. *)
PullAgain(w) ==
    /\ pull[w].stage = "fetching"
    /\ pull[w].page > 1
    /\ Break
    /\ pull' = [pull EXCEPT ![w].page = 1, ![w].got = {}, ![w].shifted = FALSE]
    /\ UNCHANGED <<system, hours, recordVars, brokerVars, topicVars, synced, unpublished>>

Stop(w) ==
    pull' = [pull EXCEPT ![w] = IF w \in SyncWorkers THEN NoPull ELSE Over]

Requeue(w, tries) == syncTasks' = syncTasks \cup {[run |-> pull[w].run, tries |-> tries]}

(* The ERP refuses the client, answers with an error three times or not at
   all, has no connector, or its breaker is open: the task is tried again
   until its retries are used up, a request is answered with an error. *)
PullFails(w) ==
    /\ pull[w].stage = "fetching"
    /\ IF system = "generic" THEN UNCHANGED breaks ELSE Break
    /\ Stop(w)
    /\ IF pull[w].run # 0 /\ pull[w].tries < PullTries
       THEN Requeue(w, pull[w].tries + 1)
       ELSE UNCHANGED syncTasks
    /\ UNCHANGED <<system, hours, recordVars, beats, topicVars, synced, unpublished>>

Offer(e) ==
    /\ offered' = offered \cup {e}
    /\ lastWord' = [lastWord EXCEPT ![e[1]] = e[2]]

(* publish_erp_event, one record after the other.  None, for a KafkaError, is
   counted in "errors" and not tried again; the record may be on the topic. *)
PublishNext(w) ==
    /\ pull[w].stage = "publishing"
    /\ \E m \in pull[w].got :
          /\ \A n \in pull[w].got : m[1] <= n[1]
          /\ \/ Offer(m[2]) /\ UNCHANGED <<breaks, unpublished>>
             \/ /\ Break
                /\ unpublished' = unpublished \cup {m[2]}
                /\ Offer(m[2]) \/ UNCHANGED topicVars
          /\ pull' = [pull EXCEPT ![w].got = @ \ {m}]
    /\ UNCHANGED <<system, hours, recordVars, brokerVars, synced>>

Finish(w) ==
    /\ pull[w].stage = "publishing"
    /\ pull[w].got = {}
    /\ Stop(w)
    /\ synced' = IF pull[w].run = 0 \/ pull[w].shifted THEN synced ELSE synced \cup {pull[w].run}
    /\ UNCHANGED <<system, hours, recordVars, brokerVars, topicVars, breaks, unpublished>>

(* The worker dies: the broker gives the task out again if its connection is
   lost, and takes it for done if only the child process dies. *)
CrashPuller(w) ==
    /\ Busy(w)
    /\ Break
    /\ Stop(w)
    /\ \/ UNCHANGED syncTasks
       \/ pull[w].run # 0 /\ Requeue(w, pull[w].tries)
    /\ UNCHANGED <<system, hours, recordVars, beats, topicVars, synced, unpublished>>

(* The broker gives a task out again that is not acknowledged within its
   visibility timeout. *)
Redeliver(w) ==
    /\ Busy(w) /\ pull[w].run # 0
    /\ Break
    /\ Requeue(w, pull[w].tries)
    /\ UNCHANGED <<system, hours, recordVars, beats, pull, topicVars, synced, unpublished>>

ErpNext ==
    \/ \E s \in {"sap", "oracle", "generic"} : Connect(s)
    \/ \E r \in Records : Change(r) \/ Delete(r)
    \/ Hour
    \/ Dispatch \/ DispatchAgain \/ Miss
    \/ \E w \in SyncWorkers, t \in syncTasks : TakeSync(w, t)
    \/ \E w \in SyncRequests : Trigger(w)
    \/ \E w \in Pullers :
          \/ Fetch(w) \/ PullAgain(w) \/ PullFails(w)
          \/ PublishNext(w) \/ Finish(w) \/ CrashPuller(w) \/ Redeliver(w)

-----------------------------------------------------------------------------
(* Properties. *)

(* From one run to the other, each is less than the look-back after one before it. *)
SyncedThrough(a, b) ==
    /\ a \in synced /\ b \in synced
    /\ \A x \in synced : a < x /\ x <= b =>
          \E y \in synced : a <= y /\ y < x /\ x < y + LookBack

(* Once the tasks of dispatches have finished that were run less than the
   look-back apart, however late and whatever they went through, a record that
   last changed in the time they look back on and before the last of them, and is
   stamped with that change, has been published as it is, or its publish has
   failed.  A change under a pull can hide a record from it (Oracle lists it
   first from then on), and is then the next dispatch's; only a deletion under a
   pull can lose the change of another record. *)
NothingMissed ==
    \A a, b \in Runs : a <= b /\ SyncedThrough(a, b) =>
        \A r \in Listed :
            stamp[r] = changed[r] /\ a - LookBack < stamp[r] /\ stamp[r] < b
                => <<r, edition[r]>> \in offered \cup unpublished

(* The topic's last word on a record goes back to an older edition only by a
   pull that another one overlapped. *)
StaleOnlyByOverlap ==
    \A w \in Pullers, r \in Records :
        lastWord'[r] < lastWord[r] /\ pull'[w] # pull[w] => pull[w].met

ErpKept == [][NothingMissed' /\ StaleOnlyByOverlap]_erpVars
=============================================================================
