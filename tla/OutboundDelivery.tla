-------------------------- MODULE OutboundDelivery --------------------------
(***************************************************************************)
(* The delivery of outbound events to registered endpoints: push_event in  *)
(* the API process, the sweep that queues failed attempts again, and the   *)
(* Celery workers that retry them, each process with circuit breakers of   *)
(* its own.                                                                *)
(*                                                                         *)
(* Rate limiting, the endpoints' answers and the order in which results    *)
(* arrive are choices.  Faults (a crash, a failed INSERT) are bounded by   *)
(* MaxFaults.  Attempt rows are a set: equal rows of one attempt number    *)
(* count once.  The purge after 90 days is left out.                       *)
(***************************************************************************)
EXTENDS CircuitBreaker

CONSTANTS
    Events,     \* one push_event request each
    Endpoints,
    Workers,    \* worker processes, one task at a time
    Api,        \* the API process
    Nobody,     \* no event, no endpoint
    RetryMax,   \* retry_max of an endpoint
    MaxTries,   \* max_retries of the retry task
    MaxFaults

ASSUME OutboundAssumption ==
    /\ RetryMax \in Nat \ {0}
    /\ MaxTries \in Nat
    /\ MaxFaults \in Nat
    /\ Api \notin Workers
    /\ Events \cap Workers = {}
    /\ Nobody \notin Events \cup Endpoints
    /\ Breakers = ({Api} \cup Workers) \X Endpoints

VARIABLES
    registered, \* the rows of outbound_endpoints
    answer,     \* answer[e]: what the caller of push_event has got
    tally,      \* tally[<<e, p>>]: how far the loop of a push has got with p
    call,       \* call[a]: the delivery an actor is at
    attempts,   \* the rows of outbound_delivery_attempts
    jobs,       \* retry tasks in the broker
    faults

outVars == <<registered, answer, tally, call, attempts, jobs, faults>>
vars == <<outVars, breakerVars>>

Actors == Events \cup Workers
Numbers == 1..RetryMax

Call == [stage : {"idle", "start", "post", "record"},
         event : Events \cup {Nobody}, endpoint : Endpoints \cup {Nobody},
         number : 0..RetryMax, left : 0..RetryMax, tries : 0..MaxTries,
         outcome : {"none", "delivered", "failed"}]
Attempt == [event : Events, endpoint : Endpoints, number : Numbers,
            status : {"delivered", "failed", "old"}]
Job == [event : Events, endpoint : Endpoints, number : Numbers,
        tries : 0..MaxTries]

DeliveryTypeOK ==
    /\ registered \subseteq Endpoints
    /\ answer \in [Events -> {"none", "running", "counts", "error"}]
    /\ tally \in [Events \X Endpoints ->
                  {"none", "due", "called", "delivered", "failed", "limited"}]
    /\ call \in [Actors -> Call]
    /\ attempts \subseteq Attempt
    /\ jobs \subseteq Job
    /\ faults \in 0..MaxFaults

TypeOK == BreakerTypeOK /\ DeliveryTypeOK

Delivery(stage, e, p, number, left, tries, outcome) ==
    [stage |-> stage, event |-> e, endpoint |-> p, number |-> number,
     left |-> left, tries |-> tries, outcome |-> outcome]

Started(e, p, number, tries) ==
    Delivery("start", e, p, number, number, tries, "none")

Idle == Delivery("idle", Nobody, Nobody, 0, 0, 0, "none")

Init ==
    /\ BreakerInit
    /\ registered = Endpoints
    /\ answer = [e \in Events |-> "none"]
    /\ tally = [x \in Events \X Endpoints |-> "none"]
    /\ call = [a \in Actors |-> Idle]
    /\ attempts = {}
    /\ jobs = {}
    /\ faults = 0

Fault ==
    /\ faults < MaxFaults
    /\ faults' = faults + 1

-----------------------------------------------------------------------------
(* One delivery, by a push or by a retry: _deliver_to_endpoint. *)

Process(a) == IF a \in Workers THEN a ELSE Api
BreakerOf(a) == <<Process(a), call[a].endpoint>>

To(a, stage, left, outcome) ==
    call' = [call EXCEPT ![a] = Delivery(stage, @.event, @.endpoint, @.number,
                                         left, @.tries, outcome)]

Admitted(a) ==
    /\ call[a].stage = "start"
    /\ Admit(BreakerOf(a))
    /\ To(a, "post", call[a].left, "none")
    /\ UNCHANGED <<registered, answer, tally, attempts, jobs, faults>>

(* CircuitOpenError: a failed attempt that posted nothing. *)
Rejected(a) ==
    /\ call[a].stage = "start"
    /\ Rejects(BreakerOf(a))
    /\ To(a, "record", call[a].left, "failed")
    /\ UNCHANGED <<registered, answer, tally, attempts, jobs, faults,
                   breakerVars>>

(* Any answer, 2xx or not, is a success to the breaker. *)
Responds(a) ==
    /\ call[a].stage = "post"
    /\ OnSuccess(BreakerOf(a))
    /\ \E outcome \in {"delivered", "failed"} : To(a, "record", call[a].left, outcome)
    /\ UNCHANGED <<registered, answer, tally, attempts, jobs, faults>>

(* with_retry posts up to attempt_number times; the breaker hears of the
   last exception alone. *)
Raises(a) ==
    /\ call[a].stage = "post"
    /\ IF call[a].left > 1
       THEN /\ To(a, "post", call[a].left - 1, "none")
            /\ UNCHANGED breakerVars
       ELSE /\ OnFailure(BreakerOf(a))
            /\ To(a, "record", call[a].left, "failed")
    /\ UNCHANGED <<registered, answer, tally, attempts, jobs, faults>>

Row(a) == [event |-> call[a].event, endpoint |-> call[a].endpoint,
           number |-> call[a].number, status |-> call[a].outcome]

Count(e, p, outcome) == tally' = [tally EXCEPT ![<<e, p>>] = outcome]

(* _persist_attempt commits the row; the push then counts it. *)
Record(a) ==
    /\ call[a].stage = "record"
    /\ attempts' = attempts \cup {Row(a)}
    /\ IF a \in Events
       THEN Count(a, call[a].endpoint, call[a].outcome)
       ELSE UNCHANGED tally
    /\ call' = [call EXCEPT ![a] = Idle]
    /\ UNCHANGED <<registered, answer, jobs, faults, breakerVars>>

(* The job a worker is at, as the broker would give it out again. *)
JobOf(w, tries) == [event |-> call[w].event, endpoint |-> call[w].endpoint,
                    number |-> call[w].number - 1, tries |-> tries]

(* _persist_attempt raises after the POST: a retry task is retried, POST and
   all, up to max_retries times, and then given up. *)
RetryRecordFails(w) ==
    /\ call[w].stage = "record"
    /\ Fault
    /\ jobs' = IF call[w].tries < MaxTries
               THEN jobs \cup {JobOf(w, call[w].tries + 1)}
               ELSE jobs
    /\ call' = [call EXCEPT ![w] = Idle]
    /\ UNCHANGED <<registered, answer, tally, attempts, breakerVars>>

(* ... and a push, as when the limiter cannot be asked, stops there with an
   error, its other endpoints unreached. *)
PushAborts(e) ==
    /\ answer[e] = "running"
    /\ call[e].stage \in {"idle", "record"}
    /\ Fault
    /\ answer' = [answer EXCEPT ![e] = "error"]
    /\ call' = [call EXCEPT ![e] = Idle]
    /\ UNCHANGED <<registered, tally, attempts, jobs, breakerVars>>

-----------------------------------------------------------------------------
(* push_event. *)

PushEvent(e) ==
    /\ answer[e] = "none"
    /\ answer' = [answer EXCEPT ![e] = "running"]
    /\ tally' = [x \in Events \X Endpoints |->
                   IF x[1] = e /\ x[2] \in registered THEN "due" ELSE tally[x]]
    /\ UNCHANGED <<registered, call, attempts, jobs, faults, breakerVars>>

Loops(e) == answer[e] = "running" /\ call[e].stage = "idle"

(* Over the endpoint's limit: counted as failed, with no row and no retry. *)
Limited(e, p) ==
    /\ Loops(e)
    /\ tally[<<e, p>>] = "due"
    /\ Count(e, p, "limited")
    /\ UNCHANGED <<registered, answer, call, attempts, jobs, faults, breakerVars>>

Target(e, p) ==
    /\ Loops(e)
    /\ tally[<<e, p>>] = "due"
    /\ Count(e, p, "called")
    /\ call' = [call EXCEPT ![e] = Started(e, p, 1, 0)]
    /\ UNCHANGED <<registered, answer, attempts, jobs, faults, breakerVars>>

(* OutboundPushResult. *)
AnswerPush(e) ==
    /\ Loops(e)
    /\ \A p \in Endpoints : tally[<<e, p>>] # "due"
    /\ answer' = [answer EXCEPT ![e] = "counts"]
    /\ UNCHANGED <<registered, tally, call, attempts, jobs, faults, breakerVars>>

-----------------------------------------------------------------------------
(* Retries. *)

(* Mutant: the last attempt is not granted. *)
RetryableShort(r) ==
    /\ r.status = "failed"
    /\ r.number < RetryMax - 1
    /\ r.endpoint \in registered

(* Mutant: an attempt at the limit is retried once more. *)
RetryableAtLimit(r) ==
    /\ r.status = "failed"
    /\ r.number <= RetryMax
    /\ r.endpoint \in registered

(* Mutant: any attempt is retried, delivered or not. *)
RetryableAny(r) ==
    /\ r.number < RetryMax
    /\ r.endpoint \in registered

(* The sweep's WHERE.  No row ever changes its status: what has been retried,
   or delivered by a retry, is found again until it is a day old. *)
Retryable(r) ==
    /\ r.status = "failed"
    /\ r.number < RetryMax
    /\ r.endpoint \in registered

(* retry_failed_outbound_deliveries: one task for a row it finds. *)
Sweep(r) ==
    /\ r \in attempts
    /\ Retryable(r)
    /\ jobs' = jobs \cup {[event |-> r.event, endpoint |-> r.endpoint,
                           number |-> r.number, tries |-> 0]}
    /\ UNCHANGED <<registered, answer, tally, call, attempts, faults,
                   breakerVars>>

(* retry_outbound_delivery, from the row as the sweep read it: whether the
   endpoint is still there is not asked again. *)
Take(w, j) ==
    /\ call[w].stage = "idle"
    /\ j \in jobs
    /\ jobs' = jobs \ {j}
    /\ call' = [call EXCEPT ![w] =
                  Started(j.event, j.endpoint, j.number + 1, j.tries)]
    /\ UNCHANGED <<registered, answer, tally, attempts, faults, breakerVars>>

Old(r) == [event |-> r.event, endpoint |-> r.endpoint, number |-> r.number,
           status |-> "old"]

(* Twenty-four hours after scheduled_at. *)
Age(r) ==
    /\ r \in attempts
    /\ r.status = "failed"
    /\ attempts' = (attempts \ {r}) \cup {Old(r)}
    /\ UNCHANGED <<registered, answer, tally, call, jobs, faults, breakerVars>>

-----------------------------------------------------------------------------
(* Endpoints and processes come and go. *)

(* delete_endpoint: attempts and queued retries stay. *)
DeleteEndpoint(p) ==
    /\ p \in registered
    /\ registered' = registered \ {p}
    /\ UNCHANGED <<answer, tally, call, attempts, jobs, faults, breakerVars>>

CrashApi ==
    /\ Fault
    /\ answer' = [e \in Events |-> IF answer[e] = "running" THEN "error"
                                                            ELSE answer[e]]
    /\ call' = [a \in Actors |-> IF a \in Events THEN Idle ELSE call[a]]
    /\ Renew({Api} \X Endpoints)
    /\ UNCHANGED <<registered, tally, attempts, jobs>>

(* The broker gives the task out again if its connection is lost, and
   takes it for done if only the child process dies. *)
CrashWorker(w) ==
    /\ Fault
    /\ \/ jobs' = jobs
       \/ /\ call[w].stage # "idle"
          /\ jobs' = jobs \cup {JobOf(w, call[w].tries)}
    /\ call' = [call EXCEPT ![w] = Idle]
    /\ Renew({w} \X Endpoints)
    /\ UNCHANGED <<registered, answer, tally, attempts>>

RestBreaker(b) == Rest(b) /\ UNCHANGED outVars

-----------------------------------------------------------------------------
Deliver(a) == Admitted(a) \/ Rejected(a) \/ Responds(a) \/ Raises(a) \/ Record(a)

Next ==
    \/ \E a \in Actors : Deliver(a)
    \/ \E e \in Events : PushEvent(e) \/ AnswerPush(e) \/ PushAborts(e)
    \/ \E e \in Events, p \in Endpoints : Limited(e, p) \/ Target(e, p)
    \/ \E w \in Workers : RetryRecordFails(w) \/ CrashWorker(w)
    \/ \E w \in Workers, j \in jobs : Take(w, j)
    \/ \E r \in attempts : Sweep(r) \/ Age(r)
    \/ \E p \in Endpoints : DeleteEndpoint(p)
    \/ \E b \in Breakers : RestBreaker(b)
    \/ CrashApi

(* Workers run their tasks, the broker hands out the oldest first, and the
   beat fires the sweep every 15 minutes; that it finds every row assumes no
   more of them than its LIMIT of 100. *)
FairnessFor(es) ==
    /\ \A w \in Workers : WF_vars(Deliver(w))
    /\ \A j \in Job : j.event \in es => SF_vars(\E w \in Workers : Take(w, j))
    /\ \A r \in Attempt : r.event \in es => WF_vars(Sweep(r))

Spec == Init /\ [][Next]_vars /\ FairnessFor(Events)

-----------------------------------------------------------------------------
(* Properties. *)

Recorded(e, p, n, statuses) ==
    \E r \in attempts :
        r.event = e /\ r.endpoint = p /\ r.number = n /\ r.status \in statuses

Failed == {"failed", "old"}

(* What a caller is told is what the log says: an endpoint it hears counted
   delivered has a delivered first attempt on record, one counted failed has
   a failed one or was over its limit, and no call was left without a row. *)
AnswersMatchAttempts ==
    \A e \in Events, p \in Endpoints : answer[e] = "counts" =>
        /\ tally[<<e, p>>] # "called"
        /\ tally[<<e, p>>] = "delivered" => Recorded(e, p, 1, {"delivered"})
        /\ tally[<<e, p>>] = "failed" => Recorded(e, p, 1, Failed)

(* A retry follows a failure: attempt k + 1 is on record only after attempt k
   failed at the same endpoint for the same event, whatever was requeued,
   crashed or swept twice. *)
RetriesFollowFailures ==
    \A r \in attempts :
        r.number > 1 => Recorded(r.event, r.endpoint, r.number - 1, Failed)

(* The log accounts for the deliveries: answers agree with it, and its retries
   follow failures. *)
DeliveriesAccounted == AnswersMatchAttempts /\ RetriesFollowFailures

(* No failure is forgotten: a failed attempt below retry_max leads to the
   next attempt on record, though crashes lose tasks and INSERTs fail, unless
   it turns a day old or its endpoint is deleted first. *)
FailuresRetried ==
    \A e \in Events, p \in Endpoints, k \in 1..(RetryMax - 1) :
        Recorded(e, p, k, {"failed"})
            ~> \/ Recorded(e, p, k + 1, {"delivered", "failed", "old"})
               \/ ~Recorded(e, p, k, {"failed"})
               \/ p \notin registered

-----------------------------------------------------------------------------
(* What makes them hold. *)

(* A delivery under way is its actor's: a push is at its own event's first
   attempt, at the endpoint its tally says, and a worker at the attempt after
   a failed one. *)
OrderlyCall(a) ==
    call[a].stage # "idle" =>
        /\ call[a].event \in Events
        /\ call[a].endpoint \in Endpoints
        /\ call[a].number >= 1
        /\ call[a].stage = "record" => call[a].outcome # "none"
        /\ call[a].stage # "record" => call[a].left >= 1
        /\ a \in Events => /\ call[a].event = a
                           /\ call[a].number = 1
                           /\ answer[a] = "running"
                           /\ tally[<<a, call[a].endpoint>>] = "called"
        /\ a \in Workers => /\ call[a].number >= 2
                            /\ Recorded(call[a].event, call[a].endpoint,
                                        call[a].number - 1, Failed)

CallsInOrder == \A a \in Actors : OrderlyCall(a)

JobsInOrder ==
    \A j \in jobs : /\ j.number < RetryMax
                    /\ Recorded(j.event, j.endpoint, j.number, Failed)

TalliesInOrder ==
    \A e \in Events, p \in Endpoints :
        /\ tally[<<e, p>>] = "called" =>
              \/ answer[e] = "error"
              \/ call[e].stage # "idle" /\ call[e].endpoint = p
        /\ tally[<<e, p>>] = "delivered" => Recorded(e, p, 1, {"delivered"})
        /\ tally[<<e, p>>] = "failed" => Recorded(e, p, 1, Failed)
        /\ answer[e] = "counts" => call[e].stage = "idle"
                                   /\ tally[<<e, p>>] # "called"

DeliveryInv ==
    /\ DeliveryTypeOK
    /\ CallsInOrder
    /\ JobsInOrder
    /\ TalliesInOrder
    /\ RetriesFollowFailures

Inv == BreakerInv /\ DeliveryInv
=============================================================================
