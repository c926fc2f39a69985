---------------------------- MODULE OutboxRelay ----------------------------
(***************************************************************************)
(* The transactional outbox of scvri_shared: handlers that add an outbox   *)
(* row inside their business transaction, relay workers that publish the   *)
(* rows, and the producer's retry and dead-letter path.                    *)
(*                                                                         *)
(* Events are numbered by created_at, the order in which a relay picks     *)
(* them.  PostgreSQL gives row locks with SKIP LOCKED and transactions     *)
(* whose uncommitted changes vanish with the session; Kafka may store a    *)
(* record whose acknowledgement never reaches the producer.                *)
(***************************************************************************)
EXTENDS Integers, FiniteSets

CONSTANTS
    Events,           \* outbox rows, numbered in created_at order
    Relays,           \* OutboxRelay workers
    MaxRetries,       \* OutboxRelay.max_retries
    BatchSize,        \* OutboxRelay.batch_size
    PublishAttempts,  \* SCVRIProducer.publish(retries = ...)
    MaxRollbacks,     \* bound: relay crashes and failed batch commits
    MaxLostAcks       \* bound: records stored whose send_and_wait raised

ASSUME EventsAssumption == Events \subseteq Nat
ASSUME LimitsAssumption ==
    /\ MaxRetries \in Nat \ {0}
    /\ BatchSize \in Nat \ {0}
    /\ PublishAttempts \in Nat \ {0}
    /\ MaxRollbacks \in Nat
    /\ MaxLostAcks \in Nat

VARIABLES
    txn,       \* txn[e]: the business transaction that schedules e
    row,       \* row[e]: the committed outbox row
    running,   \* relays whose stop event is not set
    batch,     \* batch[r]: rows relay r holds FOR UPDATE
    todo,      \* todo[r]: rows of the batch the loop has not reached
    mem,       \* mem[r]: the ORM objects of r's session, uncommitted
    attempt,   \* attempt[r]: failed sends of the current publish call
    copies,    \* copies[e]: records of e on its topic
    dlq,       \* dlq[e]: records of e on <topic>.dlq
    excuse,    \* history: lost acks and rolled-back sends of e
    rollbacks, \* number of rollbacks so far
    lostAcks   \* number of lost acknowledgements so far

dbVars     == <<txn, row>>
relayVars  == <<running, batch, todo, mem, attempt>>
brokerVars == <<copies, dlq>>
envVars    == <<excuse, rollbacks, lostAcks>>
vars == <<dbVars, relayVars, brokerVars, envVars>>

RowStatus == {"absent", "pending", "published", "failed"}
Row == [status : RowStatus, retries : 0..MaxRetries]
NoRow == [status |-> "absent", retries |-> 0]
NewRow == [status |-> "pending", retries |-> 0]
NoSession == [e \in Events |-> NoRow]

TypeOK ==
    /\ txn \in [Events -> {"none", "open", "committed", "rolledback"}]
    /\ row \in [Events -> Row]
    /\ running \subseteq Relays
    /\ batch \in [Relays -> SUBSET Events]
    /\ todo \in [Relays -> SUBSET Events]
    /\ mem \in [Relays -> [Events -> Row]]
    /\ attempt \in [Relays -> 0..PublishAttempts]
    /\ copies \in [Events -> Nat]
    /\ dlq \in [Events -> Nat]
    /\ excuse \in [Events -> Nat]
    /\ rollbacks \in 0..MaxRollbacks
    /\ lostAcks \in 0..MaxLostAcks

Init ==
    /\ txn = [e \in Events |-> "none"]
    /\ row = [e \in Events |-> NoRow]
    /\ running = Relays
    /\ batch = [r \in Relays |-> {}]
    /\ todo = [r \in Relays |-> {}]
    /\ mem = [r \in Relays |-> NoSession]
    /\ attempt = [r \in Relays |-> 0]
    /\ copies = [e \in Events |-> 0]
    /\ dlq = [e \in Events |-> 0]
    /\ excuse = [e \in Events |-> 0]
    /\ rollbacks = 0
    /\ lostAcks = 0

-----------------------------------------------------------------------------
(* Business handlers. *)

(* Mutant: the helper commits the row by itself. *)
ScheduleCommitsAtOnce(e) ==
    /\ txn[e] = "none"
    /\ txn' = [txn EXCEPT ![e] = "open"]
    /\ row' = [row EXCEPT ![e] = NewRow]
    /\ UNCHANGED <<relayVars, brokerVars, envVars>>

(* schedule_outbox_event: the row joins the caller's session and is not
   committed, so no other session sees it. *)
Schedule(e) ==
    /\ txn[e] = "none"
    /\ txn' = [txn EXCEPT ![e] = "open"]
    /\ UNCHANGED <<row, relayVars, brokerVars, envVars>>

(* The request's session commits: business change and row together. *)
Commit(e) ==
    /\ txn[e] = "open"
    /\ txn' = [txn EXCEPT ![e] = "committed"]
    /\ row' = [row EXCEPT ![e] = NewRow]
    /\ UNCHANGED <<relayVars, brokerVars, envVars>>

(* The request's session rolls back. *)
Rollback(e) ==
    /\ txn[e] = "open"
    /\ txn' = [txn EXCEPT ![e] = "rolledback"]
    /\ UNCHANGED <<row, relayVars, brokerVars, envVars>>

-----------------------------------------------------------------------------
(* Relay workers: process_batch. *)

(* Mutant: failed rows are retried whatever their retry count. *)
RetryableForever(e) == row[e].status \in {"pending", "failed"}

Retryable(e) ==
    \/ row[e].status = "pending"
    \/ row[e].status = "failed" /\ row[e].retries < MaxRetries

Locked(e) == \E r \in Relays : e \in batch[r]

Oldest(S, n) == {e \in S : Cardinality({f \in S : f < e}) < n}

(* Mutant: a plain SELECT, without FOR UPDATE SKIP LOCKED. *)
FetchUnlocked(r) ==
    /\ r \in running /\ batch[r] = {}
    /\ LET rows == Oldest({e \in Events : Retryable(e)}, BatchSize)
       IN  /\ rows # {}
           /\ batch' = [batch EXCEPT ![r] = rows]
           /\ todo' = [todo EXCEPT ![r] = rows]
           /\ mem' = [mem EXCEPT ![r] = row]
    /\ UNCHANGED <<dbVars, running, attempt, brokerVars, envVars>>

(* One poll of the loop that finds rows; an empty poll changes nothing. *)
Fetch(r) ==
    /\ r \in running /\ batch[r] = {}
    /\ LET rows == Oldest({e \in Events : Retryable(e) /\ ~Locked(e)}, BatchSize)
       IN  /\ rows # {}
           /\ batch' = [batch EXCEPT ![r] = rows]
           /\ todo' = [todo EXCEPT ![r] = rows]
           /\ mem' = [mem EXCEPT ![r] = row]
    /\ UNCHANGED <<dbVars, running, attempt, brokerVars, envVars>>

(* The event the for loop is at. *)
Current(r, e) == e \in todo[r] /\ \A f \in todo[r] : e <= f

AfterSuccess(old) == [status |-> "published", retries |-> old.retries]

(* send_and_wait returns: the row is marked published in the session. *)
SendAcked(r, e) ==
    /\ Current(r, e) /\ attempt[r] < PublishAttempts
    /\ copies' = [copies EXCEPT ![e] = @ + 1]
    /\ mem' = [mem EXCEPT ![r][e] = AfterSuccess(@)]
    /\ todo' = [todo EXCEPT ![r] = @ \ {e}]
    /\ attempt' = [attempt EXCEPT ![r] = 0]
    /\ UNCHANGED <<dbVars, running, batch, dlq, envVars>>

(* send_and_wait raises and the broker has nothing. *)
SendFails(r, e) ==
    /\ Current(r, e) /\ attempt[r] < PublishAttempts
    /\ attempt' = [attempt EXCEPT ![r] = @ + 1]
    /\ UNCHANGED <<dbVars, running, batch, todo, mem, brokerVars, envVars>>

(* send_and_wait raises although the broker stored the record. *)
SendAckLost(r, e) ==
    /\ Current(r, e) /\ attempt[r] < PublishAttempts
    /\ lostAcks < MaxLostAcks
    /\ lostAcks' = lostAcks + 1
    /\ copies' = [copies EXCEPT ![e] = @ + 1]
    /\ excuse' = [excuse EXCEPT ![e] = @ + 1]
    /\ attempt' = [attempt EXCEPT ![r] = @ + 1]
    /\ UNCHANGED <<dbVars, running, batch, todo, mem, dlq, rollbacks>>

(* Mutant: the exhausted publish call only logs, so the relay takes it for
   a success. *)
AfterFailureSwallowed(old) == AfterSuccess(old)

(* Mutant: "more than" where the code has "at least". *)
AfterFailureOffByOne(old) ==
    [status  |-> IF old.retries >= MaxRetries THEN "failed" ELSE "pending",
     retries |-> IF old.retries >= MaxRetries THEN old.retries ELSE old.retries + 1]

(* The except branch of the loop. *)
AfterFailure(old) ==
    [status  |-> IF old.retries + 1 >= MaxRetries THEN "failed" ELSE "pending",
     retries |-> old.retries + 1]

(* Mutant: the exception leaves the loop and the batch is never committed. *)
PublishExhaustedEscapes(r, e) ==
    /\ Current(r, e) /\ attempt[r] = PublishAttempts
    /\ batch' = [batch EXCEPT ![r] = {}]
    /\ todo' = [todo EXCEPT ![r] = {}]
    /\ mem' = [mem EXCEPT ![r] = NoSession]
    /\ attempt' = [attempt EXCEPT ![r] = 0]
    /\ UNCHANGED <<dbVars, running, brokerVars, envVars>>

(* All sends failed: publish tries the dead-letter topic, whose failure it
   only logs, and raises in both cases. *)
PublishExhausted(r, e) ==
    /\ Current(r, e) /\ attempt[r] = PublishAttempts
    /\ \E routed \in {0, 1} : dlq' = [dlq EXCEPT ![e] = @ + routed]
    /\ mem' = [mem EXCEPT ![r][e] = AfterFailure(@)]
    /\ todo' = [todo EXCEPT ![r] = @ \ {e}]
    /\ attempt' = [attempt EXCEPT ![r] = 0]
    /\ UNCHANGED <<dbVars, running, batch, copies, envVars>>

(* The single session.commit of the batch; the locks go with it. *)
CommitBatch(r) ==
    /\ batch[r] # {} /\ todo[r] = {}
    /\ row' = [e \in Events |-> IF e \in batch[r] THEN mem[r][e] ELSE row[e]]
    /\ batch' = [batch EXCEPT ![r] = {}]
    /\ mem' = [mem EXCEPT ![r] = NoSession]
    /\ UNCHANGED <<txn, running, todo, attempt, brokerVars, envVars>>

(* The relay dies inside the batch, or the commit fails and the loop logs
   it: PostgreSQL undoes the session and Kafka keeps what it was sent. *)
LoseBatch(r) ==
    /\ batch[r] # {}
    /\ rollbacks < MaxRollbacks
    /\ rollbacks' = rollbacks + 1
    /\ excuse' = [e \in Events |->
                    IF e \in batch[r] /\ mem[r][e].status = "published"
                    THEN excuse[e] + 1 ELSE excuse[e]]
    /\ batch' = [batch EXCEPT ![r] = {}]
    /\ todo' = [todo EXCEPT ![r] = {}]
    /\ mem' = [mem EXCEPT ![r] = NoSession]
    /\ attempt' = [attempt EXCEPT ![r] = 0]
    /\ UNCHANGED <<dbVars, running, brokerVars, lostAcks>>

(* stop(): the loop finishes its batch and polls no more. *)
Stop(r) ==
    /\ r \in running
    /\ running' = running \ {r}
    /\ UNCHANGED <<dbVars, batch, todo, mem, attempt, brokerVars, envVars>>

-----------------------------------------------------------------------------
Send(r, e) ==
    \/ SendAcked(r, e)
    \/ SendFails(r, e)
    \/ SendAckLost(r, e)
    \/ PublishExhausted(r, e)

Next ==
    \/ \E e \in Events : Schedule(e) \/ Commit(e) \/ Rollback(e)
    \/ \E r \in Relays, e \in Events : Send(r, e)
    \/ \E r \in Relays : Fetch(r) \/ CommitBatch(r) \/ LoseBatch(r) \/ Stop(r)

(* A relay that is up keeps polling and keeps working at its batch; nothing
   obliges handlers to commit, brokers to answer or relays to stop. *)
Fairness ==
    \A r \in Relays :
        /\ WF_vars(Fetch(r))
        /\ WF_vars(\E e \in Events : Send(r, e))
        /\ WF_vars(CommitBatch(r))

Spec == Init /\ [][Next]_vars
FairSpec == Spec /\ Fairness

-----------------------------------------------------------------------------
(* Properties. *)

(* An event whose business transaction did not commit is on no topic, not
   even the dead-letter one: schedule_outbox_event makes the event commit
   atomically with the business change. *)
NoPhantomEvent ==
    \A e \in Events : copies[e] + dlq[e] > 0 => txn[e] = "committed"

(* An event is on its topic more than once only when an acknowledgement was
   lost or a batch that had sent it was rolled back: two relays polling at
   once, or a relay polling again, never send it twice by themselves. *)
DuplicatesExcused == \A e \in Events : copies[e] <= 1 + excuse[e]

(* The retry counter of process_batch: a row is given up exactly when it has
   failed MaxRetries times, and a row still pending has a try left. *)
GivenUpWhenExhausted ==
    \A e \in Events :
        /\ row[e].status = "failed" => row[e].retries = MaxRetries
        /\ row[e].status = "pending" => row[e].retries < MaxRetries

(* The relay implements what the outbox promises: an event is marked
   published only after a copy reached the topic, a settled event stays
   settled, and nothing sends it again. *)
PhaseOf(e) ==
    IF row[e].status = "pending" THEN "due"
    ELSE IF row[e].status = "failed" THEN "abandoned"
    ELSE row[e].status

Delivery == INSTANCE EventDelivery WITH
    phase <- [e \in Events |-> PhaseOf(e)],
    delivered <- {e \in Events : copies[e] > 0}

ImplementsDelivery == Delivery!Spec

(* Why the properties above hold.  A row is locked by one relay at most, only
   while it is pending, and the loop has either not reached it, so that the
   session holds it as it was read, or sent it, or failed to. *)
BatchesDisjoint ==
    \A r, s \in Relays : r # s => batch[r] \cap batch[s] = {}

RowOfCommittedTxn ==
    \A e \in Events : row[e].status # "absent" <=> txn[e] = "committed"

SessionsConsistent ==
    \A r \in Relays :
        /\ todo[r] \subseteq batch[r]
        /\ \A e \in todo[r] : mem[r][e] = row[e]
        /\ \A e \in batch[r] :
              /\ row[e].status = "pending"
              /\ mem[r][e].status # "absent"
              /\ mem[r][e].status = "published" => copies[e] > 0
              /\ mem[r][e].status = "failed" => mem[r][e].retries = MaxRetries
              /\ mem[r][e].status = "pending" => mem[r][e].retries < MaxRetries

Sent(e) ==
    \/ row[e].status = "published"
    \/ \E r \in Relays : e \in batch[r] /\ mem[r][e].status = "published"

UnsentExcused == \A e \in Events : Sent(e) \/ copies[e] <= excuse[e]

PublishedHasCopy == \A e \in Events : row[e].status = "published" => copies[e] > 0

IInv ==
    /\ TypeOK
    /\ BatchesDisjoint
    /\ RowOfCommittedTxn
    /\ SessionsConsistent
    /\ UnsentExcused
    /\ PublishedHasCopy
    /\ NoPhantomEvent
    /\ DuplicatesExcused
    /\ GivenUpWhenExhausted

(* While a relay is up, every committed event is eventually settled: no
   failing event holds up the others, and no lock outlives its relay. *)
EveryEventSettles ==
    \A e \in Events :
        row[e].status = "pending"
            ~> (row[e].status \in {"published", "failed"} \/ running = {})

(* models/outbox.py promises at-least-once delivery.  An event the relay gave
   up should then be somewhere: on its topic or on its dead-letter topic. *)
AbandonedEventKept ==
    \A e \in Events : row[e].status = "failed" => copies[e] + dlq[e] > 0
=============================================================================
