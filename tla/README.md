# Verification of the SCVRI platform

TLA+ models of the services of SCVRI (supply-chain visibility and risk
intelligence), the TLC configurations that check them on small instances, and
TLAPS proofs that hold for every value of the constants.

SCVRI is six Python services (FastAPI, SQLAlchemy on PostgreSQL, Redis, Kafka
and Celery) over a shared library, and a Next.js frontend.  Almost no logic is
in one process: a request commits a transaction and then enqueues a task,
publishes an event or writes to Redis; workers and consumers act on rows that
they read earlier.  What can go wrong is in the order of these steps, and that
is what the modules are about.

1. Components
2. Modules, and how they correspond to the code
3. Runs: what is checked, bounds, fairness
4. Theorems
5. Where code and documents disagree
6. What is not modelled
7. Plan

File names below are relative to `src/`; `PROJECT.json` maps each definition to
its lines.

## 1. Components

**Transactional outbox** (`shared/.../outbox_relay.py`, `models/outbox.py`,
`kafka.py`).  State: `outbox_events` rows (status, retry_count), Kafka topics and
their dead-letter topics.  Operations: `schedule_outbox_event` inside a business
transaction; `OutboxRelay.process_batch` (SELECT ... FOR UPDATE SKIP LOCKED,
publish each, one commit); `SCVRIProducer.publish` with retries and DLQ.
Hard: two relays, a crash between sends and commit, an acknowledgement that is
lost, retry limits.  Correct when no event of an uncommitted transaction is seen,
each event settles, repeats have a cause.

**Consumer groups** (`kafka.py`, `SCVRIConsumer`).  State: a group's assignment,
positions and stored offsets.  Operations: join, poll, handle, dead-letter, commit, stop;
crash and rebalance.  Hard: `commit()` stores positions of whatever is assigned by then,
`stop()` closes connections under a running handler, a failed start leaves a member that
never reads.  Correct when offsets skip nothing and never go back, repeats have a cause,
and messages end somewhere.

**Alert lifecycle** (`services/alert-engine/.../alert_service.py`).  State: alert
rows, Celery dispatch jobs, `alert.resolved` events.  Operations: create,
acknowledge, resolve, suppress, escalate, the auto-escalation sweep.  Hard: a
transition reads and validates, then updates by id alone; what follows the commit
can be lost.  Correct when closed alerts stay closed, sweeps escalate once, and
each committed change has its notification or lost it with its process.

**Alert rules** (`rule_service.py`, `kafka_consumers.py`).  State: rules with
`last_fired_at` and `fire_count`, a consumer group's assignment and positions.
Operations: evaluate an event (cooldown, office hours, fire, statistics), switch
rules on and off, rebalance.  Hard: no offset is ever committed, replicas overlap,
a firing is two transactions.  Correct when a cooldown bounds the alerts and no
event is skipped.

**Notification dispatch** (`notification_service.py`, `notification_worker.py`).
State: the log of notifications, counters of channels and alerts, Celery messages.
Operations: one task run sends to every eligible channel and commits once.
Hard: sends cannot be undone; runs wait for each other's row locks; tasks are
retried and redelivered.  Correct when counters match the log, every notice is
traced, repeats have a cause, and every task ends.

**Authentication** (`services/iam/.../auth_service.py`, `core/security.py`,
`user_service.py`).  State: user rows (status, MFA), refresh tokens in Redis,
signed access tokens, revocations.  Operations: login in one or two steps, refresh
rotation, logout, TOTP enrolment, administration of users.  Hard: a request reads
one store and writes another; a row changes under way.  Correct when a session has
one refresh token, tokens go to users found admissible, and a deactivation is
undone only knowingly.

**Integration** (`services/integration`).  State: endpoints, delivery attempts,
retry tasks, breakers in each process.  Operations: push an event, retry sweep and
tasks, breaker calls; webhook ingestion, ERP pulls, rate limiting.  Hard: overlapping
calls of one breaker, failures after the POST, rows that never change status.
Correct when breakers follow results in a row, whatever the order in which overlapping
calls bring them, answers match the log, attempts follow failures and no failure is
forgotten.

**Users, roles and SCIM** (`services/iam/.../user_service.py`, `role_service.py`,
`scim_service.py`).  State: users (e-mail, status, password), custom roles, their
permissions and members.  Operations: create, update, deactivate; SCIM's create,
replace, patch and delete; create, update, delete and assign roles.  Hard: a name is
looked up before it is inserted, a role's grants are deleted and inserted in statements
that wait for each other's rows and can deadlock, a patch is many writes.  Correct when
a role has what its last writer gave it, what is left of a deleted role has a cause, an
e-mail has one row, and a patch is done whole or not at all.

**Supplier management** (`services/supplier-management`).  State: suppliers with an
onboarding state machine, contacts, certifications, documents with virus scans,
scorecards; the topic they announce to.  Operations: create, edit, move along
onboarding, bulk updates, contacts, deletion; upload, confirm and scan documents; the
expiry sweep; scorecards by hand and by a worker.  Hard: events go out before the
commit and again after it, transitions are checked on a row read earlier, a scan is enqueued before its
status is committed.  Correct when the rules of the registry break only where requests
could not see each other, no document stays in scanning, an expiry is announced once
per sweep that commits, and a better supplier never gets the worse grade.

**Visibility** (`services/visibility`).  State: purchase orders with quantities, stamps
and outbox rows; shipments with their tracking events; telemetry, fences and devices.
Operations: the order's state machine under requests and ERP messages, tracking events,
ETA and delay risk, readings by Kafka and by REST.  Hard: events apply in arrival order
to a status read earlier, topics are read again by another process while the one before
finishes its message, announcements precede the row they are about.  Correct when an order's row is the sum of its events, a known arrival stays
known, and readings, alerts and rows account for each other.

**Inbound integration** (`services/integration`).  State: webhook registrations, the
sliding window in Redis, ingestion and sync logs, the topics.  Operations: register,
receive; connect, beat, dispatch, pull, page.  Hard: the ERP changes while it is paged
through, a dispatch looks back from the hour at which it is run, a clock is read before
Redis is awaited, one store is written after another with nothing to tie them.  Correct
when the limiter admits too much only by what came late, answers and log agree with the
topic, and pulls that are not too far apart miss no change.

**Risk intelligence** (`services/risk-intelligence`).  State: KRI snapshots, risk
scores, the registry of models.  Operations: measure by request and by sweep; compute
scores by request and by task; register, promote, archive.  Hard: a score or snapshot
compares itself with a predecessor that another one overtakes, two promotions find no
champion, tasks are retried and redelivered.  Correct when one champion follows a
promotion that nothing overlaps, scores form one chain and are made once per TTL, and
exactly what worsens is announced.

**Shared middleware, configuration, migrations, frontend, deployment**: no state
that outlives a request, or none that a step of another actor changes.

Interactions: services announce changes to each other on Kafka (outbox, direct
publication), and hand work to themselves through Celery; alert rules consume what
the others announce and create alerts, whose lifecycle enqueues the dispatch tasks.
A reading moves the shipment it names; deactivating a user is read by the sessions.
Scores choose the champion among the models.  Other parts of one service write tables
that no other part reads, which is why they are checked beside each other (section 2).

## 2. Modules

| module | role |
|---|---|
| `EventDelivery` | abstract specification: what the outbox promises |
| `OutboxRelay` | the outbox, relays, producer; implements `EventDelivery` |
| `ManagedConsumer` | members of a consumer group with a handler, offsets, dead letters |
| `Messaging` | both ends of the event channel |
| `AlertLifecycle` | alerts, calls on them, sweeps, jobs |
| `AlertRules` | replicas evaluating rules on a partitioned log |
| `NotificationDispatch` | Celery workers dispatching notices |
| `AlertSettings` | rules and channels as requests edit them, dry run, digest |
| `AlertEngine` | evaluation, dispatch and settings |
| `AuthSessions` | logins, tokens, TOTP, user status |
| `Roles` | custom roles, permissions, members, with the locks of their statements |
| `Accounts` | users as administrators, SCIM and they themselves change them |
| `Identity` | `AuthSessions`, `Roles` and `Accounts` beside each other |
| `CircuitBreaker` | breakers on their own: results arrive from any number of calls |
| `OutboundDelivery` | pushes, sweep and retries; extends `CircuitBreaker` |
| `SupplierRegistry` | suppliers, onboarding, bulk updates, contacts, the events sent directly and by the relay |
| `SupplierDocuments` | upload, confirmation, scan, deletion |
| `CertificationExpiry` | certificates and the sweep over them |
| `Scorecards` | scorecards, their arithmetic, redelivered jobs |
| `SupplierManagement` | the four parts of the supplier service |
| `PurchaseOrders` | orders, lines, outbox rows, the consumers of the ERP topic and their rebalances |
| `Shipments` | tracking events, arrival, delay risk, what the relay tells |
| `Telemetry` | readings, alerts, fences; extends `Shipments`, which it moves |
| `Webhooks` | registrations, the sliding window, the ingestion pipeline |
| `ErpSync` | beats, dispatches soon or late, tasks, requests, paging through an ERP that changes |
| `Inbound` | the five parts that take input from outside |
| `ModelRegistry` | models, promotion, archival, the champion |
| `RiskScoring` | scores by request and task; extends `ModelRegistry` |
| `KeyRiskIndicators` | snapshots, breaches, sweeps, the dashboard |
| `RiskIntelligence` | scoring and indicators |
| `MC...` | instances for TLC |
| `...Proofs` | theorems and their proofs |

Composition.  Where parts interact, one module extends the other and their actions
share variables (`Telemetry` and `Shipments`, `RiskScoring` and `ModelRegistry`,
`OutboundDelivery` and `CircuitBreaker`).  Parts of one service that share no state are
put beside each other with a variable `focus` (`side` in `Messaging`), chosen at the start, that names the part
that takes steps: a step of one part cannot enable, disable or change another, so the
product of their states would show nothing that each alone does not.  `IdentityProofs`
uses the same fact: it derives `AuthSessions`, `Roles` and `Accounts` from `Identity`.

How state and actions correspond to code:

- A request in progress is a record with a phase.  A step ends where another
  actor can come in between: at an `await` on a database, Redis, Kafka or HTTP, or
  a commit.  Local computation is part of the step that follows it.
- A SELECT and a later UPDATE by id are two steps (`AlertLifecycle.Fetch`, `Write`);
  one UPDATE with its WHERE is one (`Sweep`).  Row locks are state only where they
  are held across steps (`OutboxRelay.batch`, `NotificationDispatch.LockedBy`,
  `Roles.RowFree` and `cleared`, `Accounts.Unlocked`, the locks of `SupplierRegistry`).
- PostgreSQL runs at READ COMMITTED: a statement sees what is committed when it starts,
  waits for rows it finds locked, and looks at them again.  The ORM writes at the
  commit, by id, the columns that differ from what the request read.
- A commit makes changes visible at once.  What comes after it, such as
  `delay()` or `publish`, is a step of its own that may be lost with its process.
- Celery: acknowledged late, so a message is held until its task ends; a retry is a
  new message with the next retry count.  The message of a worker that is lost with its
  connection is handed out again; that of a child process that dies alone is acknowledged
  by its parent and the task is gone, as neither the alert engine nor the integration
  service sets `task_reject_on_worker_lost` (`NotificationDispatch.LoseWorker` and
  `LoseChild`, `OutboundDelivery.CrashWorker`, `ErpSync.CrashPuller`).
- Time is a set of facts that change: a batch ages (`due`), a cooldown passes
  (`recent` is cut), a token expires (`access`, `live`, `challenges`), a breaker has
  rested (`rested`), an attempt turns a day old (`status = "old"`).
- Ids, payloads, templates, passwords and codes are data: model values, or a choice
  of whether they match.
- History variables (named so in each module) hold what a property relates a state
  to: who overlapped whom (`met`, `seen`, `overtaken`, `raced`, `excused`), what was
  lost (`unrecorded`, `unlogged`, `forgotten`, `failed`, `unpublished`), and what was
  said (`topic`, `told`, `announced`).  No guard reads them, except bounds.

Every module keeps variants of some definitions under the comment *Mutant*: the
definition with a plausible bug.  They are not part of the specification;
`PROJECT.json` lists the property each one must break.

Assumptions in which the models follow what the code means to do, where its wiring
does not work as it stands:

- Nothing in `src/` starts an `OutboxRelay`; the tests do.  The module models the
  class.
- `auto_escalate_alerts_task` opens `async with get_engine().begin()` on an engine
  that `db.py:175` makes synchronous.  The sweep is modelled, and nothing is
  assumed about whether it ever runs: it has no fairness.  `send_digest_task` does the
  same.
- Statements that cast a bind in the text of SQL (`:conditions::jsonb`) are taken to bind
  the parameter they name.
- `SET LOCAL scvri.tenant_id = :tid` with a bind parameter (`db.py:97`), and
  `async with get_public_session()` on a plain generator (`iam/routers/auth.py:60`),
  do not run as written; the service functions below them are modelled as if they
  did.
- Under `session.begin()`, `create_alert`'s own commit makes the following statement
  of the rule engine raise.  `AlertRules.Abort` after `Fire` is that case.
- SUSPENDED counts as inactive in IAM; PENDING_MFA may log in but not refresh.
- Service functions are modelled as written.  Tables and request schemas are taken to
  store and carry what the services use, although several ORM classes, enums and DDL
  scripts lack the columns or values (section 5).  Documents are the exception: their
  table matches the service, so that the write of status "deleted", which its enum does
  not have, is rejected in the model too.
- `SCVRIProducer.send` takes keyword arguments only (`kafka.py:143`), and the KRI
  service passes positional ones: the model has the exception, not the send.

## 3. Runs

| run | instance | states | result |
|---|---|---|---|
| `messaging` | outbox: 2 events, 2 relays, 2 retries, 1 rollback, 1 lost ack; group: 2 members, 2 partitions, 3 messages, 1 fault | 364,510 | holds |
| `outbox_abandoned` | 1 relay | | violated (see 5) |
| `alert_lifecycle` | 2 alerts, 3 calls, 2 sweeps | 70,461 | holds |
| `alert_endpoints` | 1 alert, 1 user, 2 calls | | violated (see 5) |
| `alert_engine` | evaluation: 1 rule, 2 partitions, 2 replicas, 1 move; dispatch: 2 tasks, 2 workers, 3 channels, 1 retry, 1 fault; settings: 2 rules, 1 channel, 4 requests, 2 at a time | 648,795 | holds |
| `alert_replay` | the first of these | | violated (see 5) |
| `digest_severity` | 1 channel, 3 severities | | violated (see 5) |
| `identity` | sessions: 1 user, 2 pairs, 2 requests, 2 changes; roles: 2 roles, 2 permissions, 1 member, 3 administrators, 4 calls; accounts: 2 accounts, 1 e-mail, 3 clients, 4 calls | 351,941 | holds |
| `outbound_delivery` | 1 push, 1 endpoint, 1 worker, 2 attempts, 2 faults; 3 pushes at once to one endpoint, thresholds of 2 | 226,579 | holds |
| `supplier_management` | registry: 2 suppliers, 2 countries, 2 contacts, 2 requests; 1 document, 2 confirmations, 1 crash; 1 certificate, 3 sweeps, 2 at a time; 2 scorecards, 1 redelivery | 329,522 | holds |
| `inbound` | orders: 2, with 2 requests or rebalances, 2 consumers of an ERP log; tracking: 3 scans, 2 at a time; telemetry: a reading read twice, 1 posted, 2 fences; webhooks: 3 requests, limit 1 in 2 ms, 1 trouble; ERP: 2 records, pages of 1, 3 hours, with 1 fault, a late beat, booked dates or 1 request | 1,548,103 | holds |
| `risk_intelligence` | 3 models, 3 changes, 2 at a time; a task and a request over 2 suppliers; 2 indicators, 2 sweeps, 1 request, 3 snapshots | 934,575 | holds |

What the passing runs show, beyond types:

- `messaging`.  `NoPhantomEvent`: nothing uncommitted reaches a topic.
  `DuplicatesExcused`: an event is repeated at most once per lost acknowledgement or
  rolled-back send; relays polling together repeat nothing.  `GivenUpWhenExhausted`:
  the retry boundary is exact.  `ImplementsDelivery`: each behaviour is one of
  `EventDelivery`, under the mapping row status to phase and "has a copy" to
  delivered.  `ConsumptionKept`: a stored offset covers only messages that were handled,
  dead-lettered or given up, a message is read again only when its partition was taken
  from its owner, and no commit, however late, moves an offset back.
  `EverythingSettles`: every committed event ends published or failed while a relay is
  up, and every message ends somewhere while a consumer is.
- `alert_lifecycle`.  `TerminalLeftOnlyByOverlap` (an action property): a closed
  alert changes only by a call that validated an earlier version of it.  The code
  does allow that overlap; the property says that nothing else does it.
  `SweptOnce`, and `NoticesAccounted`: commits = jobs + about to be enqueued + died.
- `alert_engine`.  `AlertsPerCooldownBounded`: in one cooldown a rule raises at most
  one alert per replica, plus those whose statistics were lost: the bound the code
  has, not the "one" its design asks for.  `DispatchAccounted`: the counters of channels
  and alerts are what the log adds up to, every notice that left is on the log or its run
  was undone, and a repeat has a retry or a redelivery behind it.  A skipped channel is
  counted as failed by the channel and as sent by the alert; the property says so.
  `SettingsKept`: a column holds what the last committed request that named it asked for,
  and a dry run says what an event would meet, save for a field that is missing.
  `EverythingEnds`: no event is skipped while a replica runs, and every task ends, save one
  that was acknowledged for a child process that died (`forgotten`).
- `identity`.  `OneTokenPerSession`: in Redis, or with one request, or the session
  is over.  `IssuedToAdmitted`, `ReactivatedKnowingly`: what an old check still lets
  through is named, and nothing else gets through.  `DirectoryKept`: a role has exactly
  what its last writer gave it, never a mixture of two updates; two rows have one name,
  and something is left of a deleted role, only where requests overlapped that the code
  does not keep apart; an e-mail has one row; a SCIM patch is done whole or not at all;
  a password is changed by proof of the one it replaces.
- `outbound_delivery`.  `DeliveriesAccounted`: what a caller is told is on record, and
  attempt k + 1 only after attempt k failed.  `BreakerFollowsResults`: a breaker opens only
  on failures in a row and closes only on successes in a row, although results of calls
  that began before reach it when it is open, half open or closed again.
  `FailuresRetried`: a failed attempt below `retry_max`
  gets its successor whatever crashes, unless it turns a day old or its endpoint is
  deleted.
- `supplier_management`.  `RegistryKept` (an action property with a state part):
  onboarding moves along its machine, a deleted supplier stays as it is, a second
  supplier of a country comes from requests that could not see the first or from an update
  of the country, which has no duplicate check, a second primary contact from requests that
  could not see the first or from one body, and when the relay has caught up the last event
  about a supplier tells its status; each exception names the overlap, the rollback or the
  late or lost row behind it.  `ScansSettle` (liveness): a document leaves
  "scanning" unless the enqueue or the verdict was lost.  `ExpiryAnnouncedOnce`,
  `ScorecardsFair`: the figures of a scorecard are compared with those of every other.
- `inbound`.  `OrdersKept`: the outbox rows of an order add up to its row, a terminal
  order is changed only by what had read another status of it (save that a received one
  is disputed), the ERP inserts one order however often its topic is read, except by a
  consumer that looked for the number before a rebalance and inserts after it.
  `ShipmentsKept`: an arrival once known stays known in any order of scans, and the
  message told last is the status unless transactions overlapped.
  `TelemetryAccounted`: rows and announcements account for each other although they are
  not written together.  `WebhooksKept`: of the requests that no later clock and no
  expiry of the set overtook (`overtaken`), no window admits more than the limit; a request
  is refused only by a full window; and answer, log and topic agree.  `ErpKept`: when the
  tasks of dispatches have finished that were run less than the look-back apart, however
  late, no change in the time they look back on is missing, save one that a deletion hides
  or whose record is not stamped with it.
- `risk_intelligence`.  `ScoresAccounted`: one champion after a promotion that nothing
  overlapped, whatever overlapped before; a score names its predecessor; one score per
  TTL through retries and redelivery; the rules are monotone in the delivery rate (but
  for 0, section 5); the summary adds up.  `BreachesReported`: a breach is announced
  exactly when a snapshot is worse than the one before it, by the sweep.

Bounds.  Every counter that could grow for ever is bounded by a named constant
(`MaxRollbacks`, `MaxLostAcks`, `MaxMoves`, `MaxFaults`, `MaxChanges`, `MaxCalls` and
so on), which counts faults, changes or requests, never successes.  The instances hold
the smallest set of actors in which each hazard occurs: two relays for one batch, a late
call and a sweep for one alert, two runs for a deadlock, two holders for one token, two
creations of one name with a third that overtakes both, an update and a deletion of one
role with an assignment between, a promotion over two champions that earlier ones left
behind, a page boundary that a change moves, a window that is full and half empty again.
Retry limits are 2, so that "one left", "none left" and "given up" differ.  `outbound_delivery` is two
instances chosen at the start: one push with everything that can follow it, since what is
delivered, recorded and retried is about one event at one endpoint; and three pushes at
once without retries, the fewest whose last result reaches a breaker of threshold 2 that
the others opened.  Both together would have over 7 million states; the theorems of
`OutboundDelivery` cover that case.  In the same way the theorems of `IdentityProofs` cover
larger directories.  The run `inbound` starts the ERP sync in one of four situations, each
about one thing (`FaultsAlone` and the others in `MCInbound`), where `ErpInit` has any
hour and any number of faults and requests left, and so has the theorem `InboundErp`.
Symmetry is used where the run has no liveness property and the properties treat alike
the members of the sets permuted (`alert_lifecycle`, `identity`, `inbound`).
Deadlock checking is off everywhere: calls are made once and bounded, so every
instance may come to rest.

Fairness.  Weak fairness of a worker's own steps: an asyncio loop or a Celery
process that is up runs its next step (`Fetch`, `Send`, `CommitBatch`; `Step`; `Run`;
`Deliver`; a consumer's `Step`; `Enqueue`, `CommitConfirm` and `Judge` of a document; its scan is taken and its
verdict written under strong fairness, since a busy scanner and a locked row interrupt
them, and the request that holds the row is itself fair).  PostgreSQL breaks
up a deadlock (`Abort` when `Deadlocked`), the broker hands out an unacknowledged
message whose worker is lost (`Redeliver`) and the oldest task first (`Take`, strongly fair per task since a
busy worker interrupts it), a consumer group reassigns the partitions of a replica that
is down or a partition that has none (`Assign`), and puts out a member that misses its
poll interval (`Expire`), the beat fires the retry sweep (`Sweep`; that it finds each row
assumes no more of them than its LIMIT 100).  Nothing is assumed of clients, endpoints,
brokers' answers, faults, time, or the escalation sweep.

## 4. Theorems

Each proof module establishes one inductive invariant per part, by a lemma per action,
and takes the properties from it.  They assume only the named ASSUMEs of their modules:
ranges of limits and measured values, disjointness of kinds of ids, and that there are
finitely many calls, sweeps, tasks, rules, channels, indicators, suppliers, models,
administrators, posting requests and records of an ERP, which is all that is ever counted
or chosen from; and that a dispatch looks back further than the beat's period.  The
assumptions on a scorecard's figures are those of its schema: deliveries on time are no
more than all; the other figures are any integers.

- `MessagingProofs`.  `RelayInvariant`: batches are disjoint; a session holds the
  rows it has not reached as they are; a row exists just for a committed transaction;
  unsent events have excused copies only.  The last one is why `DuplicatesExcused` is
  not inductive by itself: it must know whether the one permitted copy was made.  From
  it: `TypeCorrect`, `NoPhantom`, `Duplicates`, `GivenUp`, and
  `RelayImplementsDelivery`, the refinement of `EventDelivery` step by step.
  `GroupInvariant`: below the position of a partition every message has ended somewhere,
  except the one its owner has in hand; what a member is about to commit is therefore
  covered, also when it comes late.  From it: `NothingSkipped`, `RereadExcused`,
  `OffsetsForward` and `GroupKept`.  `ChannelSafe` puts the two sides together: the steps
  of `Messaging` are steps of one of them that leave the other alone.
- `AlertLifecycleProofs`.  `LifecycleInvariant`: a call about to write saw a version no
  newer than the alert's, and if it is the same, the status allows the transition; a
  swept alert is never open again.  From it: `SweptAtMostOnce`, `TerminalSafe`.
  `NoticesInv` adds the books of an alert (commits = jobs + about to be enqueued + died):
  a call or a sweep changes only its own part of a count (`OneApart`), and an event is
  never ahead of the jobs it stands for.  From it: `NoticesKept`.
- `AlertEngineProofs`.  The three parts, each with an invariant of its own.  `CooldownInv`:
  the alerts of a rule since any moment of its window were raised by different replicas,
  each with its statistics lost or not yet seen by the others, as far as the updates since
  then tell; `AlertsPerCooldownBounded` counts replicas, and follows by an injection.
  `DispatchInv`: a task's runs are in the order of their retries; the counters of channels
  and alerts match the log; every notice can be traced to a row, a run in progress or an
  undone one; sent rows + messages + uncommitted runs stay within 1 + the faults.  A task
  of a lost child leaves no message, which keeps all of this.  None of
  the three parts of `DispatchAccounted` is inductive without the last two.  `SettingsInv`:
  each request in progress asks for what it read or was sent, column by column.  From
  them: `CooldownBounded`, `DispatchBalanced`, `SettingsAreKept` and, through
  `EngineParts`, `EngineTypes`.  The sums over finite sets are set up by induction on
  cardinality from well-foundedness of < on Nat (`LeastNumber`, `NumbersInductive`,
  `PartsExist`, `SumGrows`), which needs no operator parameter.
- `RiskIntelligenceProofs`.  `KrisInv`: a snapshot's comparison was right when it was
  measured, and no two snapshots have one instant; whatever is not green is explained by
  its earliest row that is not, and that row was a worsening: hence `IndicatorsReported`.
  `RegistryInv`: while nothing has been committed since a change of the registry began,
  what it read is still so; hence `ChampionKept`: a promotion that nothing overlapped
  leaves one champion, whatever earlier ones left.  `ScoringInv`: each score committed or
  pending is announced, names the latest of the rows its computation saw, was made without
  force only after those it checked had expired, and by the champion if there was one;
  instants are apart, so that a supplier has one latest score and the summary's levels
  partition the scored.  From it: `ScoresKept`; from all: `RiskTypes`.
- `InboundProofs`.  `HooksInv`: the limiter's set holds every admitted time later than the
  window it was last cut to, and Redis drops it only when all of them are older; a script
  that finds a later cut is overtaken, and the others admit in the order of their clocks,
  so that a later window holds no more than the present one; each request points at the
  stores it has been through.  `ShipmentsInv`: a row has
  the status of its trail's last event and the date of its latest delivery, and rows of the
  outbox are told in the order in which their transactions began unless a send failed: the
  one told last is then the one committed last, if nothing overlapped that.
  `ReadingsInv`: the rows of a reading and the jobs that have a message behind them are
  together as many as its announcements, at least for an alert and at most if nothing
  broke; a job knows of the crossing it is about to store (`TellKeeps`, `BrokenKeeps` and
  `StartKeeps` say so of a send, a failure and a start, whatever is sent).  Hence
  `InboundWebhooks`, `InboundShipments` and `InboundTelemetry`; only a reading that moves
  its shipment touches two parts (`ReportsKeepShipments`).  `OrdersInv`: status,
  quantities and stamps of an order are what its rows add up to (`AddsUp`, kept by each
  event: `TellsApplied`); the events sent and about to be sent are no more than the rows;
  whatever is about to apply an event applies it to the status it read, and of the ERP's
  consumers only the one that has the partition, if it looked for the number since the last
  rebalance, can insert an order that is not late, while there is no other such order
  (`CreateFits`).  Hence `InboundOrders`.
  `TerminalKept` used to excuse only work that had read a
  status that is not terminal.  The proof failed, and TLC finds why with ERP messages that
  ship and receive the order, which the run does not have: one request is about to cancel
  an order it read as confirmed, the ERP completes it, another is about to dispute what it
  read as received, and after the cancellation the dispute overwrites a cancelled order
  that it has read in another terminal status.  The property now excuses whatever had
  read another status than the one it overwrites.  `ErpInv`: a record that a run's pull is
  to find has been published, or is held to be, or has its place behind the pages fetched
  (`Reached`); such a record does not change any more, for it would be stamped with the
  hour of the run or a later one, and what others do only moves places back, unless one is
  deleted (`PlacesHeld`).  What a pull holds of one record is in the order of its editions
  and, if no other pull overlapped it, not older than the topic (`GotFits`).  A change that
  a sequence of finished runs looks back on is then found by the first of them that came
  after it: that is where each must be less than the look-back after one before it, and
  where the stamp must be the time of the change.  A run that is later than that, or a
  stamp that is a date, leaves a gap: TLC finds it as soon as either condition is dropped.
  Hence `InboundErp`, for any records, page size, workers, requests, delays and faults.
  For the sake of this proof the ERP's listing is
  a relation and an offset the number of matching records that are listed no later
  (`Place`), where a sequence would need recursion to select from.  From all parts
  `InboundTypes`.
- `SupplierManagementProofs`.  `RegistryInv` is stated of one request, of two, or of one
  supplier, with the tables as parameters, so that `FitsKept` says once how rows may move
  under requests in flight.  A request that writes a row finds it there, one that inserts
  finds it missing and shares no id with another; rows that two requests have locked are
  apart and stay as they were found; each row in the way of a primary contact is still to
  be demoted, locked, or the work of a request that overlaps; a supplier of the country of
  a creation was inserted by one that overlaps, or moved there; of an unexcused supplier one
  transition is in flight, the newest of its events that wait for the relay tells its
  status, and the topic does when none waits (`TopicAt`).
  None of the four parts of `RegistryKept` follows without it: `RegistryRules`.
  `ExpiryInv`: a certificate announced as expired is expired, or marked by the sweep that
  is to commit it, or excused; hence `ExpiryOnce`.  `CardsInv`: every scorecard is one that
  its path computes, and the worker's rows with the one it has in hand are no more than
  the deliveries; the weights are monotone in each rate (`OverallOrdered`), hence
  `ScorecardsAreFair`, whatever the quantities and invoices are.  From all: `SupplierTypes`.
- `OutboundDeliveryProofs`.  `BreakerInvariant`: a closed breaker's count equals the
  failures in a row, a half-open one's successes are no more than those in a row.  From
  it: `FollowsResults`, for any number of overlapping calls.  `DeliveryInvariant`: each call in progress, queued job
  and tally points at the attempt on record that justifies it.  From it:
  `AnswersRecorded`, `RetriesOrdered`, `DeliveriesOnRecord`.  Both together give
  `DeliveryFollowsResults`: a step of a delivery counts one result of one breaker, however
  many deliveries share it.
- `IdentityProofs`.  `SessionsInvariant`, of `AuthSessions` by itself: what each pair,
  request and MFA token carries was checked on its user's row as it is now or as it was
  before (`CheckedBefore`), and tokens and holders of a session exclude each other.  From
  it: `OneToken`, `OnlyAdmitted`, `Reactivation`.  The steps of `Identity` are steps of its
  parts, so these theorems carry over (`IdentityOneToken`, `IdentityOnlyAdmitted`,
  `IdentityReactivation`), and the invariants `AccountsInv` and `RolesInv` are proved of
  the parts on their own.  `AccountsInv` ties what a patch has written to the last of its
  operations on "active" and a verified password to its row; `IdentityAccountsKept`
  follows.  `RolesInv` says that an update that holds its role's row is alone in that and
  has found all the grants there are, that a deletion has too unless it was overtaken,
  that it has detached everyone who was not assigned too late, and that a creation knows
  of every row of its name unless it was overtaken; none of the three parts of
  `RolesKept` is inductive without it.  From both: `IdentityRolesKept` and
  `IdentityDirectoryKept`, for any number of administrators, roles, members, clients and
  accounts, and `IdentityTypes`.

Only model-checked: liveness (`EverythingSettles`, `EverythingEnds`, `FailuresRetried`,
`ScansSettle`), since fairness and ENABLED are beyond the prover.  Every other property of
a passing run is stated by a theorem.  The four runs that expect a violation are
counterexamples and have nothing to prove.

## 5. Where code and documents disagree

- `outbox_abandoned`: `models/outbox.py:3` promises at-least-once delivery.  After
  `max_retries` a row becomes "failed", the query's branch for failed rows
  (`status = 'failed' AND retry_count < max_retries`) never matches it, and a failing
  dead-letter write is only logged: the event may be nowhere.
- `alert_endpoints`: the lifecycle endpoints pass the user's id where the service
  expects the alert's, and answer 404 for an alert that exists.
- `digest_severity`: `notification_service.py:493` takes the digest's severities "from
  min_severity upward"; the offset into a list that begins with "critical" leaves medium,
  low and info.
- `alert_replay`: the design promises deduplication of replayed events.  The consumer
  never commits offsets and nothing deduplicates: an event read again alerts again.

Met while modelling, in the models as the code has it, with no run of their own:

*Outbound delivery.*  A retry of an attempt never changes the status of the row it
retries, so the sweep queues it again every quarter of an hour for a day, also when a
retry delivered it; `retry_max` bounds the number of an attempt, not how often it is
made.  `with_retry` inside a retry task posts up to `attempt_number` times, though a
comment says it does not retry.  A failed row of an open breaker uses up an attempt
without a POST.  A rate-limited endpoint is counted as failed, has no row and is never
retried.  A crash of the API between endpoints leaves the later ones without row or retry.

*Lost tasks.*  `alert-engine/.../celery_app.py:17-26` and `integration/.../celery_app.py:24`
acknowledge late but do not set `task_reject_on_worker_lost`: the task of a worker child
that is killed (out of memory, say) is acknowledged, and its notices or its pull are gone.

*Alert settings.*  The dry run takes a missing field as no match, where the evaluation
lets `neq`, `eq` null and `contains` of an empty text match.  Deleting a rule that another
tenant made global answers 204 and changes nothing.  Channels cannot be created with
`digest_enabled`: the request schema drops it, only an edit sets it.

*Inbound integration.*  `integration.erp.events` and `integration.webhook.events` have no
consumer in `src/`; visibility listens to `erp.purchase_orders` (`kafka_consumers.py:84`).
`tasks.py:59` computes `since` when the dispatch is run, seven hours back: one that waits
more than an hour longer in the broker than the one before, or is given up, leaves a gap
that no later pull looks at.  Goods receipts are filtered by `PostingDate` (`sap.py:42`) and
`TransactionDate` (`oracle.py:40`), dates under which they are booked: a receipt booked
under an earlier date, or changed later, is not found.  A record that changes during an Oracle pull moves to the front of the listing and is
missed until the next beat; a deletion during a pull shifts the pages and can lose the
change of another record.  A publish that returns nothing is counted and not retried; a
webhook in that case is answered 202 with an unprocessed row that nothing reprocesses.  A
log INSERT that fails after the publish is a 500, and the sender's retry publishes again.
`RateLimitExceeded` has no handler.  `rate_limiter.py:51` says "Maximum number of requests allowed within *window* seconds":
requests of one millisecond share a member of the sorted set, `now_ms` is read (line 81)
before Redis is awaited (line 84), so that a script with a later time may have cut the set
before, and PEXPIRE counts from the moment the script runs; in each of these cases a window
holds more.  Integration runs in at least two pods, so clocks of different hosts add to it.  The breaker of an ERP is shared by tenants.  GENERIC systems have no connector.

*Identity.*  `scim_list_users` leaves out inactive users, so that a deprovisioned one can be
neither found by userName nor created again.  SCIM's PUT and PATCH overwrite "suspended"
and "pending_mfa".  A PATCH that replaces `active` by null activates
(`scim_service.py:203`); a text raises `AttributeError`.  A SCIM creation that loses a race
is an uncaught `IntegrityError`.  `update_role` overlapping `delete_role` leaves permissions
of a role that is gone and answers 404 after its commit; the two can deadlock.
`assign_role` looks at neither the user nor the role.  `change_password` ends no session.

*Suppliers.*  `cert_expiry_worker.py:75` says "exact day match avoids duplicate alerts"; the
sweep runs every four hours (line 3), so that the notice of a window goes out six times that
day.  `delete_document` writes a status that its enum refuses.  Several request schemas lack the
fields that their services read.  `update_supplier` (`supplier_service.py:185`) takes a new
`country_code` with no look for a supplier of that name there; a third one created in that
country then finds two rows and ends with `MultipleResultsFound`, not with the 409 of a
duplicate.  Two contacts of one request to create may both be primary, and stay so until
one is made primary by itself.  The outbox publishes a change that was already sent, perhaps after later ones.  Three
onboarding machines exist: that of the service (`_ONBOARDING_FSM`, lines 79-89, the one
modelled), that of `supplier_management_service_spec.yaml:373-430` and the enum
`001_initial_schema.py:89-92`, which know no "draft", "submitted", "returned", "suspended"
or "inactive"; the service's statuses "pending" and "inactive" are not in the enum of line
93.  The shared `Supplier` has no `name` or `created_by`, which the service sets.  The
scorecard's validators (`schemas/scorecard.py:40-48`) compare `items_*`, the service reads
`quantity_*` (`scorecard_service.py:82-83`), which nothing checks, and two fields the
schema does not have, and the table's class has other columns: `create_scorecard` raises
`AttributeError` as it stands.  The model takes its arithmetic for any integers.

*Visibility.*  `kafka_consumers.py:71` calls the order number an "idempotency key", and line
107 the lookup "Idempotency": with two processes in each of two to eight pods
(`Dockerfile:32`, `infra/k8s/visibility.yaml:14,134`) the old and the new owner of a
partition may both look and then both insert.  No DDL of `visibility.purchase_orders` is in
`src/`; the constraint `UNIQUE (tenant_id, po_number)` belongs to another table
(`001_initial_schema.py:460`).  The model has none; with one, the second insert would fail.
`schemas/purchase_order.py:157` means line quantities for ship and receive;
line updates of any other event are taken too, and add to the received ones.  Nobody emits
`supplier.status.changed` (`kafka_consumers.py:140`).  An order received by resolving a
dispute is missed by the metrics.  Creation over HTTP does not look at the order number.
`telemetry` schema line 65 says the platform fills the previous fence; it comes from the
payload.  A polygon that cannot be parsed hides the bounding box.  Nothing schedules
`erp_sync_worker`.  Direct sends are keyed by tenant, outbox rows by entity.

*Risk.*  The KRI service's direct send raises `TypeError`: a worsened snapshot over HTTP is
always rolled back, the sweep swallows the error and commits.  The dashboard's GROUP BY
makes "composite" that of the first indicator, where `schemas/kri.py:87` says aggregate.
`red_count` counts snapshots.  Missing features raise `TypeError` for a known supplier
without snapshots or purchases; `or 50.0` turns a rate of 0 into 50.  With a TTL of 24
hours and a sweep at 02:00 that does not force, suppliers are often scored every other
night (`celery_app.py:8` says daily).  The tenant's summary counts scores of deleted
suppliers.  Overlapping promotions leave two champions, a promotion overlapping an archival
leaves one that is archived; `get_champion_model` ignores the status.  `evict_cache` clears
its own process only.  `retry(exc=...)` raises, so that the "failed" answer after it is
never returned.

*Tables.*  The ORM classes of risk scores, KRI definitions and snapshots and models lack
columns that the services use, `SupplierRiskScore` is unique per supplier, the enum of
risk levels lacks "minimal" (`models/risk.py:38-46`), and there is no DDL of the `iam` and
`integration` schemas.

## 6. What is not modelled

Signing, hashing, templates, ray casting, distances
and what a trained model predicts: data, or numeric code with no interaction (conditions,
the rule-based score, the scorecard's arithmetic and the delay risk are modelled).  CRUD
that writes one row by its id (outbound endpoints, tenants' settings).  The password reset
by mail.  The purge of old logs, and a deletion racing it.  `get_shipment_kpi`, whose JOIN
has ambiguous columns and cannot run.  Each process's cache of loaded models.  Connection
pools and engine configuration.  HTTP, SMTP and Kafka beyond what a caller sees of them: a
result, a failure, or a result that is lost.  Middleware, audit publication, migrations,
frontend, manifests.

## 7. Plan

Done: outbox and consumer groups, alert engine and its settings, identity, circuit breakers, outbound delivery, supplier
management, visibility, inbound integration, risk intelligence.

Left, by what can go wrong most:

1. Rules: the cooldown of a global rule, which its tenants share; a window of office hours
   across midnight, which never fires.
2. The purges of old logs.
