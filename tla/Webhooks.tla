------------------------------ MODULE Webhooks ------------------------------
(***************************************************************************)
(* Inbound webhooks: registrations, the sliding-window limiter in Redis,   *)
(* and the pipeline that verifies, limits, parses, publishes and logs a    *)
(* request, one store after the other with nothing to tie them together.   *)
(*                                                                         *)
(* One tenant and source, and so one key of the limiter.  Whether a        *)
(* signature matches and a body parses is a choice; all replicas and Redis *)
(* read one clock, a replica when it sends the script and Redis when it    *)
(* runs it.                                                                *)
(***************************************************************************)
EXTENDS Integers, FiniteSets

CONSTANTS
    Hooks,          \* ids of registrations
    HookRequests,   \* requests to the ingest endpoint
    RateLimit,
    RateWindow,     \* in units of the limiter's clock, milliseconds
    MaxMillis,      \* bound: the clock
    MaxTroubles     \* bound: faults

ASSUME WebhookAssumption ==
    /\ RateLimit \in Nat \ {0}
    /\ RateWindow \in Nat \ {0}
    /\ MaxMillis \in Nat
    /\ MaxTroubles \in Nat

VARIABLES
    hook,       \* hook[h]: the row of webhook_registrations
    millis,     \* time.time() in milliseconds
    clockRead,  \* clockRead[q]: now_ms of the call of q
    members,    \* the limiter's sorted set, whose members are their scores
    expires,    \* when Redis drops the set
    ask,        \* ask[q]: how far request q has got, or its answer
    onTopic,    \* requests whose event is on integration.webhook.events
    hookLog,    \* hookLog[q]: the row of webhook_delivery_logs
    troubles,   \* stores that failed and requests that died
    admittedAt, \* history: when q passed the limiter, in {} or {t}
    refusedAt,  \* history: when it did not
    trimmed,    \* history: the time of the latest window the set was cut to
    overtaken   \* history: requests with a window that was cut before they came

limiterVars == <<millis, clockRead, members, expires, admittedAt, refusedAt, trimmed,
                 overtaken>>

hookVars == <<limiterVars, hook, ask, onTopic, hookLog, troubles>>

Answers == {"202", "401", "404", "422", "500", "limited"}
Underway ==
    {"verified", "timed", "admitted", "parsed", "acknowledged", "unacknowledged"}

WebhooksTypeOK ==
    /\ hook \in [Hooks -> {"none", "active", "inactive", "deleted"}]
    /\ millis \in 0..MaxMillis
    /\ clockRead \in [HookRequests -> 0..MaxMillis]
    /\ members \subseteq 0..MaxMillis
    /\ expires \in 0..MaxMillis + RateWindow
    /\ ask \in [HookRequests -> {"new"} \cup Underway \cup Answers]
    /\ onTopic \subseteq HookRequests
    /\ hookLog \in [HookRequests -> {"none", "processed", "unprocessed"}]
    /\ troubles \in 0..MaxTroubles
    /\ admittedAt \in [HookRequests -> SUBSET (0..MaxMillis)]
    /\ refusedAt \in [HookRequests -> SUBSET (0..MaxMillis)]
    /\ trimmed \in 0..MaxMillis
    /\ overtaken \subseteq HookRequests

WebhooksInit ==
    /\ hook = [h \in Hooks |-> "none"]
    /\ millis = 0
    /\ clockRead = [q \in HookRequests |-> 0]
    /\ members = {}
    /\ expires = 0
    /\ ask = [q \in HookRequests |-> "new"]
    /\ onTopic = {}
    /\ hookLog = [q \in HookRequests |-> "none"]
    /\ troubles = 0
    /\ admittedAt = [q \in HookRequests |-> {}]
    /\ refusedAt = [q \in HookRequests |-> {}]
    /\ trimmed = 0
    /\ overtaken = {}

-----------------------------------------------------------------------------
(* Registrations. *)

CreateRegistration(h, active) ==
    /\ hook[h] = "none"
    /\ hook' = [hook EXCEPT ![h] = IF active THEN "active" ELSE "inactive"]
    /\ UNCHANGED <<limiterVars, ask, onTopic, hookLog, troubles>>

(* Requests that have loaded it go on. *)
DeleteRegistration(h) ==
    /\ hook[h] \in {"active", "inactive"}
    /\ hook' = [hook EXCEPT ![h] = "deleted"]
    /\ UNCHANGED <<limiterVars, ask, onTopic, hookLog, troubles>>

-----------------------------------------------------------------------------
(* ingest_webhook. *)

Reach(q, stage) == ask' = [ask EXCEPT ![q] = stage]

Trouble == troubles < MaxTroubles /\ troubles' = troubles + 1

(* _load_active_registration and verify_webhook_signature. *)
Verify(q, h, genuine) ==
    /\ ask[q] = "new"
    /\ Reach(q, IF hook[h] # "active" THEN "404" ELSE IF genuine THEN "verified" ELSE "401")
    /\ UNCHANGED <<hook, limiterVars, onTopic, hookLog, troubles>>

(* Mutant: the window is one request too wide. *)
RoomInclusive(kept) == Cardinality(kept) <= RateLimit

Room(kept) == Cardinality(kept) < RateLimit

(* is_allowed takes now_ms, and then awaits Redis. *)
ReadClock(q) ==
    /\ ask[q] = "verified"
    /\ clockRead' = [clockRead EXCEPT ![q] = millis]
    /\ Reach(q, "timed")
    /\ UNCHANGED <<hook, millis, members, expires, admittedAt, refusedAt, trimmed,
                   overtaken, onTopic, hookLog, troubles>>

Expired == millis > expires
Live == IF Expired THEN {} ELSE members

(* Everything admitted after this time minus the window is in the set. *)
Cut == IF Expired /\ expires > trimmed THEN expires ELSE trimmed

(* The Lua script of check: members older than the window that ends at now_ms
   go, and ZADD adds a member named by that time, so that requests of one
   millisecond count once; scripts run in any order of their times.
   RateLimitExceeded has no handler. *)
CheckLimit(q) ==
    /\ ask[q] = "timed"
    /\ LET now == clockRead[q]
           kept == {t \in Live : t > now - RateWindow}
       IN  /\ IF Room(kept)
              THEN /\ members' = kept \cup {now}
                   /\ expires' = millis + RateWindow
                   /\ admittedAt' = [admittedAt EXCEPT ![q] = {now}]
                   /\ Reach(q, "admitted")
                   /\ UNCHANGED refusedAt
              ELSE /\ members' = kept
                   /\ refusedAt' = [refusedAt EXCEPT ![q] = {now}]
                   /\ Reach(q, "limited")
                   /\ UNCHANGED <<admittedAt, expires>>
           /\ trimmed' = IF now > Cut THEN now ELSE Cut
           /\ overtaken' = IF now < Cut THEN overtaken \cup {q} ELSE overtaken
    /\ UNCHANGED <<hook, millis, clockRead, onTopic, hookLog, troubles>>

(* json.loads and the payload's validation: a body that is JSON but no object
   has no get, which nothing catches. *)
Parse(q) ==
    /\ ask[q] = "admitted"
    /\ \E outcome \in {"parsed", "422", "500"} : Reach(q, outcome)
    /\ UNCHANGED <<hook, limiterVars, onTopic, hookLog, troubles>>

(* publish: a KafkaError becomes None, and the event may be on the topic all
   the same. *)
PublishEvent(q) ==
    /\ ask[q] = "parsed"
    /\ \/ Reach(q, "acknowledged") /\ onTopic' = onTopic \cup {q} /\ UNCHANGED troubles
       \/ Reach(q, "unacknowledged") /\ onTopic' \in {onTopic, onTopic \cup {q}} /\ Trouble
    /\ UNCHANGED <<hook, limiterVars, hookLog>>

Entry(q) == IF ask[q] = "acknowledged" THEN "processed" ELSE "unprocessed"

(* _persist_delivery_log: 202, whether or not the event was published, or an
   error although the row is committed. *)
LogDelivery(q) ==
    /\ ask[q] \in {"acknowledged", "unacknowledged"}
    /\ hookLog' = [hookLog EXCEPT ![q] = Entry(q)]
    /\ \/ Reach(q, "202") /\ UNCHANGED troubles
       \/ Reach(q, "500") /\ Trouble
    /\ UNCHANGED <<hook, limiterVars, onTopic>>

(* A store cannot be reached, or the process dies: what is done stays done. *)
BreakOff(q) ==
    /\ ask[q] \in {"new"} \cup Underway
    /\ Reach(q, "500")
    /\ Trouble
    /\ UNCHANGED <<hook, limiterVars, onTopic, hookLog>>

Millisecond ==
    /\ millis < MaxMillis
    /\ millis' = millis + 1
    /\ UNCHANGED <<hook, clockRead, members, expires, ask, onTopic, hookLog, admittedAt,
                   refusedAt, trimmed, overtaken, troubles>>

WebhooksNext ==
    \/ \E h \in Hooks, active \in BOOLEAN : CreateRegistration(h, active)
    \/ \E h \in Hooks : DeleteRegistration(h)
    \/ \E q \in HookRequests, h \in Hooks, genuine \in BOOLEAN : Verify(q, h, genuine)
    \/ \E q \in HookRequests :
          \/ ReadClock(q) \/ CheckLimit(q) \/ Parse(q) \/ PublishEvent(q)
          \/ LogDelivery(q) \/ BreakOff(q)
    \/ Millisecond

-----------------------------------------------------------------------------
(* Properties. *)

AdmittedIn(Q, low, high) ==
    (UNION {admittedAt[q] : q \in Q}) \cap (low + 1)..high

OnTime == HookRequests \ overtaken

(* Over every window the limiter admits, of the requests whose script finds no
   trace of a later clock, at most RateLimit distinct milliseconds (in one of
   them, any number); what exceeds the limit has been overtaken, by a script
   with a later time or by the expiry of the set.  It refuses a request only
   when the window that ends with it is full, or, when the request was
   overtaken, that window and what came after: refused requests do not prolong
   it. *)
LimitExact ==
    \A t \in 0..MaxMillis :
        /\ Cardinality(AdmittedIn(OnTime, t - RateWindow, t)) <= RateLimit
        /\ \A q \in HookRequests :
              t \in refusedAt[q] =>
                  Cardinality(AdmittedIn(HookRequests, t - RateWindow,
                                         IF q \in overtaken THEN MaxMillis ELSE t))
                      >= RateLimit

(* An event on the topic went through the limiter, and its sender was not told
   that it is refused; a 202 leaves a log row, and the row says "processed"
   exactly when the broker acknowledged the event: a sender is told 202 of an
   event that is lost only with a row that says so. *)
EventsAccounted ==
    \A q \in HookRequests :
        /\ q \in onTopic => /\ admittedAt[q] # {}
                            /\ ask[q] \in Underway \cup {"202", "500"}
        /\ ask[q] = "202" => hookLog[q] # "none"
        /\ hookLog[q] = "processed" => q \in onTopic
        /\ hookLog[q] # "none" => ask[q] \in {"202", "500"}

WebhooksKept == LimitExact /\ EventsAccounted
=============================================================================
