----------------------- MODULE OutboundDeliveryProofs -----------------------
(***************************************************************************)
(* Proofs about outbound delivery, for any events, endpoints, workers and  *)
(* bounds.                                                                 *)
(*                                                                         *)
(* The breakers on their own: BreakerInv is inductive, and a step from it  *)
(* opens and closes breakers as BreakerFollowsResults says, however many   *)
(* calls report to a breaker at once.  The service: Inv is inductive, and  *)
(* a step of the service is a step of the breakers or leaves them alone.   *)
(***************************************************************************)
EXTENDS OutboundDelivery, TLAPS

-----------------------------------------------------------------------------
(* The breakers. *)

(* A saturating count stays in its range, and grows with what it counts. *)
LEMMA UpToRange ==
    ASSUME NEW limit \in Nat \ {0}, NEW n \in 0..limit
    PROVE  /\ UpTo(limit, n) \in 1..limit
           /\ UpTo(limit, n) >= limit => UpTo(limit, n) = limit
           /\ n < limit => UpTo(limit, n) = n + 1
  BY DEF UpTo

LEMMA InitInv == BreakerInit => BreakerInv
  BY BreakerAssumption
     DEF BreakerInit, BreakerInv, BreakerTypeOK, BreakerInOrder, State, Rested

LEMMA AdmitInv == ASSUME BreakerInv, NEW b \in Breakers, Admit(b)
                  PROVE  BreakerInv'
  BY BreakerAssumption
     DEF Admit, BreakerInv, BreakerTypeOK, BreakerInOrder, State, Rested

LEMMA RestInv == ASSUME BreakerInv, NEW b \in Breakers, Rest(b)
                 PROVE  BreakerInv'
  BY DEF Rest, BreakerInv, BreakerTypeOK, BreakerInOrder, Rested

LEMMA RenewInv == ASSUME BreakerInv, NEW bs \in SUBSET Breakers, Renew(bs)
                  PROVE  BreakerInv'
  BY BreakerAssumption
     DEF Renew, BreakerInv, BreakerTypeOK, BreakerInOrder, State, Rested

LEMMA OnSuccessInv == ASSUME BreakerInv, NEW b \in Breakers, OnSuccess(b)
                      PROVE  BreakerInv'
<1> USE BreakerAssumption
<1>1. UpTo(SuccessThreshold, wins[b]) \in 0..SuccessThreshold
      /\ (wins[b] < SuccessThreshold
            => UpTo(SuccessThreshold, wins[b]) = wins[b] + 1)
      /\ (wins[b] >= SuccessThreshold
            => UpTo(SuccessThreshold, wins[b]) = SuccessThreshold)
  BY UpToRange DEF BreakerInv, BreakerTypeOK, UpTo
<1>2. CASE state[b] = "half_open" /\ successes[b] + 1 >= SuccessThreshold
  BY <1>1, <1>2 DEF OnSuccess, BreakerInv, BreakerTypeOK, BreakerInOrder, State
<1>3. CASE state[b] = "half_open" /\ ~(successes[b] + 1 >= SuccessThreshold)
  BY <1>1, <1>3 DEF OnSuccess, BreakerInv, BreakerTypeOK, BreakerInOrder, State
<1>4. CASE state[b] # "half_open"
  BY <1>1, <1>4 DEF OnSuccess, BreakerInv, BreakerTypeOK, BreakerInOrder, State
<1> QED BY <1>2, <1>3, <1>4

LEMMA OnFailureInv == ASSUME BreakerInv, NEW b \in Breakers, OnFailure(b)
                      PROVE  BreakerInv'
<1> USE BreakerAssumption
<1>1. /\ UpTo(FailureThreshold, losses[b]) \in 0..FailureThreshold
      /\ UpTo(FailureThreshold, failures[b]) \in 0..FailureThreshold
  BY UpToRange DEF BreakerInv, BreakerTypeOK
<1>2. CASE state[b] = "half_open"
  BY <1>1, <1>2
     DEF OnFailure, CountLoss, Open, BreakerInv, BreakerTypeOK, BreakerInOrder,
         State, Rested
<1>3. CASE state[b] # "half_open"
           /\ UpTo(FailureThreshold, failures[b]) >= FailureThreshold
  BY <1>1, <1>3
     DEF OnFailure, CountLoss, Open, BreakerInv, BreakerTypeOK, BreakerInOrder,
         State, Rested
<1>4. CASE state[b] # "half_open"
           /\ ~(UpTo(FailureThreshold, failures[b]) >= FailureThreshold)
  BY <1>1, <1>4
     DEF OnFailure, CountLoss, BreakerInv, BreakerTypeOK, BreakerInOrder,
         State, Rested
<1> QED BY <1>2, <1>3, <1>4

(* Every step of the breakers keeps the invariant. *)
LEMMA NextInv == BreakerInv /\ [BreakerNext]_breakerVars => BreakerInv'
<1> SUFFICES ASSUME BreakerInv, [BreakerNext]_breakerVars PROVE BreakerInv'
  OBVIOUS
<1>1. CASE UNCHANGED breakerVars
  BY <1>1 DEF breakerVars, BreakerInv, BreakerTypeOK, BreakerInOrder
<1>2. ASSUME NEW b \in Breakers, Admit(b) \/ OnFailure(b) \/ OnSuccess(b) \/ Rest(b)
      PROVE  BreakerInv'
  BY <1>2, AdmitInv, OnFailureInv, OnSuccessInv, RestInv
<1>3. ASSUME NEW bs \in SUBSET Breakers, Renew(bs)
      PROVE  BreakerInv'
  BY <1>3, RenewInv
<1> QED BY <1>1, <1>2, <1>3 DEF BreakerNext

(* The counters of every breaker stay within their thresholds and agree with
   the history of its results. *)
THEOREM BreakerInvariant == BreakerSpec => []BreakerInv
<1> QED BY InitInv, NextInv, PTL DEF BreakerSpec

Follows(b) ==
    /\ state[b] = "closed" /\ state'[b] = "open"
          => losses'[b] = FailureThreshold
    /\ state[b] # "closed" /\ state'[b] = "closed"
          => \/ wins'[b] = SuccessThreshold
             \/ \E bs \in SUBSET Breakers : b \in bs /\ Renew(bs)

LEMMA FailureFollows == ASSUME BreakerInv, NEW c \in Breakers, OnFailure(c),
                               NEW b \in Breakers
                        PROVE  Follows(b)
<1> USE BreakerAssumption
<1>1. CASE b # c
  BY <1>1 DEF OnFailure, Open, Follows, BreakerInv, BreakerTypeOK
<1>2. CASE b = c
  BY <1>2 DEF OnFailure, CountLoss, Open, UpTo, Follows, BreakerInv,
              BreakerTypeOK, BreakerInOrder, State
<1> QED BY <1>1, <1>2

LEMMA SuccessFollows == ASSUME BreakerInv, NEW c \in Breakers, OnSuccess(c),
                               NEW b \in Breakers
                        PROVE  Follows(b)
<1> USE BreakerAssumption
<1>1. CASE b # c
  BY <1>1 DEF OnSuccess, Follows, BreakerInv, BreakerTypeOK
<1>2. CASE b = c
  BY <1>2 DEF OnSuccess, UpTo, Follows, BreakerInv, BreakerTypeOK,
              BreakerInOrder, State
<1> QED BY <1>1, <1>2

(* A step of the breakers opens and closes them as Follows says. *)
LEMMA StepFollows ==
    ASSUME BreakerInv, [BreakerNext]_breakerVars, NEW b \in Breakers
    PROVE  Follows(b)
<1>1. CASE UNCHANGED breakerVars
  BY <1>1 DEF breakerVars, Follows
<1>2. ASSUME NEW c \in Breakers, Admit(c) PROVE Follows(b)
  BY <1>2 DEF Admit, Follows, BreakerInv, BreakerTypeOK
<1>3. ASSUME NEW c \in Breakers, Rest(c) PROVE Follows(b)
  BY <1>3 DEF Rest, Follows
<1>4. ASSUME NEW bs \in SUBSET Breakers, Renew(bs) PROVE Follows(b)
  <2>1. CASE b \in bs
    <3>1. state'[b] = "closed"
      BY <1>4, <2>1 DEF Renew
    <3> QED BY <1>4, <2>1, <3>1 DEF Follows
  <2>2. CASE b \notin bs
    BY <1>4, <2>2 DEF Renew, Follows
  <2> QED BY <2>1, <2>2
<1> QED BY <1>1, <1>2, <1>3, <1>4, FailureFollows, SuccessFollows DEF BreakerNext

(* A breaker opens only on FailureThreshold failures in a row and closes only
   on SuccessThreshold successes in a row, however many calls it guards at
   once. *)
THEOREM FollowsResults == BreakerSpec => BreakerFollowsResults
<1>1. BreakerInv /\ [BreakerNext]_breakerVars
        => [\A b \in Breakers :
              /\ state[b] = "closed" /\ state'[b] = "open"
                    => losses'[b] = FailureThreshold
              /\ state[b] # "closed" /\ state'[b] = "closed"
                    => \/ wins'[b] = SuccessThreshold
                       \/ \E bs \in SUBSET Breakers : b \in bs /\ Renew(bs)]_breakerVars
  BY StepFollows DEF Follows
<1> QED BY BreakerInvariant, <1>1, PTL DEF BreakerSpec, BreakerFollowsResults

-----------------------------------------------------------------------------
(* The service. *)

(* Every attempt on record stays on record: a failed one may only turn old. *)
Kept ==
    \A e \in Events, p \in Endpoints, n \in Numbers :
        /\ Recorded(e, p, n, {"delivered"}) => Recorded(e, p, n, {"delivered"})'
        /\ Recorded(e, p, n, Failed) => Recorded(e, p, n, Failed)'

LEMMA KeptByGrowth == ASSUME attempts \subseteq attempts' PROVE Kept
  BY DEF Kept, Recorded

LEMMA KeptByAge == ASSUME NEW r \in attempts, Age(r) PROVE Kept
<1> SUFFICES ASSUME NEW e \in Events, NEW p \in Endpoints, NEW n \in Numbers
             PROVE  /\ Recorded(e, p, n, {"delivered"})
                         => Recorded(e, p, n, {"delivered"})'
                    /\ Recorded(e, p, n, Failed) => Recorded(e, p, n, Failed)'
  BY DEF Kept
<1>1. r.status = "failed" /\ attempts' = (attempts \ {r}) \cup {Old(r)}
  BY DEF Age
<1>2. /\ Old(r).event = r.event
      /\ Old(r).endpoint = r.endpoint
      /\ Old(r).number = r.number
      /\ Old(r).status = "old"
  BY DEF Old
<1>3. Recorded(e, p, n, {"delivered"}) => Recorded(e, p, n, {"delivered"})'
  BY <1>1 DEF Recorded
<1>4. ASSUME Recorded(e, p, n, Failed) PROVE Recorded(e, p, n, Failed)'
  <2>1. PICK s \in attempts : s.event = e /\ s.endpoint = p /\ s.number = n
                              /\ s.status \in Failed
    BY <1>4 DEF Recorded
  <2>2. CASE s = r
    BY <1>1, <1>2, <2>1, <2>2 DEF Recorded, Failed
  <2>3. CASE s # r
    BY <1>1, <2>1, <2>3 DEF Recorded
  <2> QED BY <2>2, <2>3
<1> QED BY <1>3, <1>4

(* A delivery has the fields it is made of. *)
LEMMA DeliveryFields ==
    ASSUME NEW stage, NEW e, NEW p, NEW number, NEW left, NEW tries, NEW outcome
    PROVE  LET d == Delivery(stage, e, p, number, left, tries, outcome)
           IN  /\ d.stage = stage /\ d.event = e /\ d.endpoint = p
               /\ d.number = number /\ d.left = left /\ d.tries = tries
               /\ d.outcome = outcome
  BY DEF Delivery

LEMMA IdleFacts ==
    ASSUME OutboundAssumption
    PROVE  Idle \in Call /\ Idle.stage = "idle"
  BY DEF OutboundAssumption, Idle, Delivery, Call

(* A breaker a delivery asks is one there is. *)
LEMMA BreakerExists ==
    ASSUME Inv, NEW a \in Actors, call[a].stage # "idle"
    PROVE  BreakerOf(a) \in Breakers
  BY OutboundAssumption DEF Inv, DeliveryInv, CallsInOrder, OrderlyCall, BreakerOf, Process

-----------------------------------------------------------------------------
(* Steps map to steps. *)

LEMMA StepOfBreakers ==
    ASSUME Inv, [Next]_vars
    PROVE  [BreakerNext]_breakerVars
<1>1. ASSUME NEW a \in Actors, Deliver(a) PROVE [BreakerNext]_breakerVars
  <2>1. call[a].stage # "idle" => BreakerOf(a) \in Breakers
    BY BreakerExists
  <2>2. CASE Admitted(a)
    BY <2>1, <2>2 DEF Admitted, BreakerNext
  <2>3. CASE Responds(a)
    BY <2>1, <2>3 DEF Responds, BreakerNext
  <2>4. CASE Raises(a)
    BY <2>1, <2>4 DEF Raises, BreakerNext
  <2>5. CASE Rejected(a) \/ Record(a)
    BY <2>5 DEF Rejected, Record
  <2> QED BY <1>1, <2>2, <2>3, <2>4, <2>5 DEF Deliver
<1>2. CASE CrashApi
  <2>1. ({Api} \X Endpoints) \in SUBSET Breakers
    BY OutboundAssumption
  <2> QED BY <1>2, <2>1 DEF CrashApi, BreakerNext
<1>3. ASSUME NEW w \in Workers, CrashWorker(w) PROVE [BreakerNext]_breakerVars
  <2>1. ({w} \X Endpoints) \in SUBSET Breakers
    BY OutboundAssumption
  <2> QED BY <1>3, <2>1 DEF CrashWorker, BreakerNext
<1>4. ASSUME NEW b \in Breakers, RestBreaker(b) PROVE [BreakerNext]_breakerVars
  BY <1>4 DEF RestBreaker, BreakerNext
<1>5. ASSUME NEW e \in Events, PushEvent(e) \/ AnswerPush(e) \/ PushAborts(e)
      PROVE  UNCHANGED breakerVars
  BY <1>5 DEF PushEvent, AnswerPush, PushAborts
<1>6. ASSUME NEW e \in Events, NEW p \in Endpoints, Limited(e, p) \/ Target(e, p)
      PROVE  UNCHANGED breakerVars
  BY <1>6 DEF Limited, Target
<1>7. ASSUME NEW w \in Workers, RetryRecordFails(w) PROVE UNCHANGED breakerVars
  BY <1>7 DEF RetryRecordFails
<1>8. ASSUME NEW w \in Workers, NEW j \in jobs, Take(w, j)
      PROVE  UNCHANGED breakerVars
  BY <1>8 DEF Take
<1>9. ASSUME NEW r \in attempts, Sweep(r) \/ Age(r) PROVE UNCHANGED breakerVars
  BY <1>9 DEF Sweep, Age
<1>10. ASSUME NEW p \in Endpoints, DeleteEndpoint(p) PROVE UNCHANGED breakerVars
  BY <1>10 DEF DeleteEndpoint
<1>11. CASE UNCHANGED vars
  BY <1>11 DEF vars
<1> QED BY <1>1, <1>2, <1>3, <1>4, <1>5, <1>6, <1>7, <1>8, <1>9, <1>10, <1>11
        DEF Next
-----------------------------------------------------------------------------
(* Facts the steps share. *)

LEMMA CallTyped ==
    ASSUME Inv, NEW a \in Actors
    PROVE  call[a] \in Call
  BY DEF Inv, DeliveryInv, DeliveryTypeOK

LEMMA JobsKept ==
    ASSUME Inv, Kept, jobs' \subseteq jobs
    PROVE  JobsInOrder'
<1> SUFFICES ASSUME NEW j \in jobs'
             PROVE  j.number < RetryMax
                    /\ Recorded(j.event, j.endpoint, j.number, Failed)'
  BY DEF JobsInOrder
<1>1. j \in Job /\ j.number < RetryMax
      /\ Recorded(j.event, j.endpoint, j.number, Failed)
  BY DEF Inv, DeliveryInv, JobsInOrder, DeliveryTypeOK
<1> QED BY <1>1 DEF Kept, Job

LEMMA RetriesKept ==
    ASSUME Inv, UNCHANGED attempts
    PROVE  RetriesFollowFailures'
  BY DEF Inv, DeliveryInv, RetriesFollowFailures, Recorded

(* A delivery stays in order at an actor the step leaves alone. *)
LEMMA CallKept ==
    ASSUME Inv, Kept, NEW a \in Actors, call'[a] = call[a],
           a \in Events => /\ answer'[a] = answer[a]
                           /\ \A p \in Endpoints : tally[<<a, p>>] = "called"
                                 => tally'[<<a, p>>] = "called"
    PROVE  OrderlyCall(a)'
<1>1. OrderlyCall(a)
  BY DEF Inv, DeliveryInv, CallsInOrder, OrderlyCall
<1>2. call[a] \in Call
  BY CallTyped
<1>3. CASE call[a].stage = "idle"
  BY <1>3 DEF OrderlyCall
<1>4. CASE call[a].stage # "idle"
  <2>1. a \in Workers => /\ call[a].number - 1 \in Numbers
                         /\ Recorded(call[a].event, call[a].endpoint,
                                     call[a].number - 1, Failed)'
    BY <1>1, <1>2, <1>4, OutboundAssumption
       DEF OrderlyCall, Kept, Call, Numbers
  <2> QED BY <1>1, <1>4, <2>1 DEF OrderlyCall
<1> QED BY <1>3, <1>4

LEMMA TallyKept ==
    ASSUME Inv, Kept, NEW e \in Events, NEW p \in Endpoints,
           tally'[<<e, p>>] = tally[<<e, p>>]
    PROVE  /\ tally'[<<e, p>>] = "delivered" => Recorded(e, p, 1, {"delivered"})'
           /\ tally'[<<e, p>>] = "failed" => Recorded(e, p, 1, Failed)'
  BY OutboundAssumption DEF Inv, DeliveryInv, TalliesInOrder, Kept, Numbers

LEMMA TalliesKept ==
    ASSUME Inv, Kept, UNCHANGED tally,
           \A e \in Events : call'[e] = call[e] /\ answer'[e] = answer[e]
    PROVE  TalliesInOrder'
<1> SUFFICES ASSUME NEW e \in Events, NEW p \in Endpoints
             PROVE  /\ tally'[<<e, p>>] = "called" =>
                          \/ answer'[e] = "error"
                          \/ call'[e].stage # "idle" /\ call'[e].endpoint = p
                    /\ tally'[<<e, p>>] = "delivered"
                          => Recorded(e, p, 1, {"delivered"})'
                    /\ tally'[<<e, p>>] = "failed" => Recorded(e, p, 1, Failed)'
                    /\ answer'[e] = "counts" => call'[e].stage = "idle"
                                               /\ tally'[<<e, p>>] # "called"
  BY DEF TalliesInOrder
<1> QED BY TallyKept DEF Inv, DeliveryInv, TalliesInOrder

-----------------------------------------------------------------------------
(* The steps of a delivery. *)

(* A step that only moves an actor's delivery on keeps the invariant. *)
LEMMA MoveInv ==
    ASSUME Inv, NEW a \in Actors, call[a].stage # "idle",
           NEW stage \in {"post", "record"}, NEW left \in 0..RetryMax,
           NEW outcome \in {"none", "delivered", "failed"},
           To(a, stage, left, outcome),
           stage = "record" => outcome # "none",
           stage = "post" => left >= 1,
           UNCHANGED <<registered, answer, tally, attempts, jobs, faults>>
    PROVE  DeliveryInv'
<1> DEFINE d == Delivery(stage, call[a].event, call[a].endpoint, call[a].number,
                         left, call[a].tries, outcome)
<1>1. /\ d.stage = stage /\ d.event = call[a].event
      /\ d.endpoint = call[a].endpoint /\ d.number = call[a].number
      /\ d.left = left /\ d.outcome = outcome
  BY DeliveryFields
<1>2. call[a] \in Call /\ call \in [Actors -> Call]
  BY DEF Inv, DeliveryInv, DeliveryTypeOK
<1>3. d \in Call
  BY <1>2 DEF Delivery, Call
<1>4. call' = [call EXCEPT ![a] = d]
  BY DEF To
<1> HIDE DEF d
<1>5. Kept
  BY KeptByGrowth
<1>6. DeliveryTypeOK'
  BY <1>3, <1>4 DEF Inv, DeliveryInv, DeliveryTypeOK
<1>7. ASSUME NEW c \in Actors PROVE OrderlyCall(c)'
  <2>1. CASE c # a
    BY <1>2, <1>4, <1>5, <2>1, CallKept
  <2>2. CASE c = a
    <3>1. call'[a] = d
      BY <1>2, <1>4
    <3>2. OrderlyCall(a)
      BY DEF Inv, DeliveryInv, CallsInOrder
    <3> QED BY <1>1, <2>2, <3>1, <3>2 DEF OrderlyCall, Recorded
  <2> QED BY <2>1, <2>2
<1>8. JobsInOrder'
  BY <1>5, JobsKept
<1>9. RetriesFollowFailures'
  BY RetriesKept
<1>10. TalliesInOrder'
  <2> SUFFICES ASSUME NEW e \in Events, NEW p \in Endpoints
               PROVE  /\ tally[<<e, p>>] = "called" =>
                            \/ answer[e] = "error"
                            \/ call'[e].stage # "idle" /\ call'[e].endpoint = p
                      /\ tally[<<e, p>>] = "delivered"
                            => Recorded(e, p, 1, {"delivered"})'
                      /\ tally[<<e, p>>] = "failed" => Recorded(e, p, 1, Failed)'
                      /\ answer[e] = "counts" => call'[e].stage = "idle"
                                                /\ tally[<<e, p>>] # "called"
    BY DEF TalliesInOrder
  <2>1. /\ call'[e].endpoint = call[e].endpoint
        /\ call[e].stage # "idle" => call'[e].stage # "idle"
        /\ call[e].stage = "idle" => call'[e].stage = "idle"
    BY <1>1, <1>2, <1>4 DEF Actors
  <2> QED BY <2>1, <1>5, TallyKept DEF Inv, DeliveryInv, TalliesInOrder
<1> QED BY <1>6, <1>7, <1>8, <1>9, <1>10 DEF DeliveryInv, CallsInOrder

LEMMA MovesInv ==
    ASSUME Inv, NEW a \in Actors,
           Admitted(a) \/ Rejected(a) \/ Responds(a) \/ Raises(a)
    PROVE  DeliveryInv'
<1>1. call[a] \in Call /\ call[a].left \in 0..RetryMax
  BY CallTyped DEF Call
<1>2. CASE Admitted(a)
  <2>1. call[a].left >= 1
    BY <1>2 DEF Admitted, Inv, DeliveryInv, CallsInOrder, OrderlyCall
  <2> QED BY <1>1, <1>2, <2>1, MoveInv DEF Admitted
<1>3. CASE Rejected(a)
  BY <1>1, <1>3, MoveInv DEF Rejected
<1>4. CASE Responds(a)
  BY <1>1, <1>4, MoveInv DEF Responds
<1>5. CASE Raises(a)
  <2>1. CASE call[a].left > 1
    <3>1. call[a].left - 1 \in 0..RetryMax /\ call[a].left - 1 >= 1
      BY <1>1, <2>1, OutboundAssumption
    <3> QED BY <1>5, <2>1, <3>1, MoveInv DEF Raises
  <2>2. CASE ~(call[a].left > 1)
    BY <1>1, <1>5, <2>2, MoveInv DEF Raises
  <2> QED BY <2>1, <2>2
<1> QED BY <1>2, <1>3, <1>4, <1>5

(* What a worker's failed attempt shows is still shown. *)
LEMMA RecordInv ==
    ASSUME Inv, NEW a \in Actors, Record(a)
    PROVE  DeliveryInv'
<1>1. /\ call[a] \in Call /\ call \in [Actors -> Call]
      /\ tally \in [Events \X Endpoints ->
                     {"none", "due", "called", "delivered", "failed", "limited"}]
      /\ attempts \subseteq Attempt
  BY DEF Inv, DeliveryInv, DeliveryTypeOK
<1>2. OrderlyCall(a) /\ call[a].stage = "record"
  BY DEF Inv, DeliveryInv, CallsInOrder, Record
<1>3. /\ Row(a) \in Attempt
      /\ Row(a).event = call[a].event /\ Row(a).endpoint = call[a].endpoint
      /\ Row(a).number = call[a].number /\ Row(a).status = call[a].outcome
      /\ call[a].outcome \in {"delivered", "failed"}
  BY <1>1, <1>2, OutboundAssumption
     DEF Row, Attempt, OrderlyCall, Call, Numbers
<1>4. attempts' = attempts \cup {Row(a)} /\ call' = [call EXCEPT ![a] = Idle]
  BY DEF Record
<1>5. Kept
  BY <1>4, KeptByGrowth
<1>6. Idle \in Call /\ Idle.stage = "idle"
  BY IdleFacts, OutboundAssumption
<1>7. a \in Events => tally' = [tally EXCEPT ![<<a, call[a].endpoint>>] = call[a].outcome]
  BY DEF Record, Count
<1>8. a \notin Events => tally' = tally
  BY DEF Record
<1>9. call[a].endpoint \in Endpoints /\ call[a].event \in Events
  BY <1>2 DEF OrderlyCall
<1>10. DeliveryTypeOK'
  <2>1. tally' \in [Events \X Endpoints ->
                     {"none", "due", "called", "delivered", "failed", "limited"}]
    BY <1>1, <1>3, <1>7, <1>8
  <2> QED BY <1>1, <1>3, <1>4, <1>6, <2>1
          DEF Record, Inv, DeliveryInv, DeliveryTypeOK
<1>11. ASSUME NEW c \in Actors PROVE OrderlyCall(c)'
  <2>1. CASE c = a
    BY <1>1, <1>4, <1>6, <2>1 DEF OrderlyCall
  <2>2. CASE c # a
    <3>1. c \in Events => \A p \in Endpoints : tally'[<<c, p>>] = tally[<<c, p>>]
      BY <1>1, <1>7, <1>8, <1>9, <2>2
    <3> QED BY <1>1, <1>4, <1>5, <2>2, <3>1, CallKept DEF Record
  <2> QED BY <2>1, <2>2
<1>12. JobsInOrder'
  BY <1>5, JobsKept DEF Record
<1>13. TalliesInOrder'
  <2> SUFFICES ASSUME NEW e \in Events, NEW p \in Endpoints
               PROVE  /\ tally'[<<e, p>>] = "called" =>
                            \/ answer[e] = "error"
                            \/ call'[e].stage # "idle" /\ call'[e].endpoint = p
                      /\ tally'[<<e, p>>] = "delivered"
                            => Recorded(e, p, 1, {"delivered"})'
                      /\ tally'[<<e, p>>] = "failed" => Recorded(e, p, 1, Failed)'
                      /\ answer[e] = "counts" => call'[e].stage = "idle"
                                                /\ tally'[<<e, p>>] # "called"
    BY DEF TalliesInOrder, Record
  <2>1. CASE e = a /\ p = call[a].endpoint
    <3>1. tally'[<<e, p>>] = call[a].outcome
      BY <1>1, <1>7, <2>1
    <3>2. call[a].event = e /\ call[a].number = 1 /\ answer[e] = "running"
      BY <1>2, <2>1 DEF OrderlyCall
    <3>3. Row(a) \in attempts'
      BY <1>4
    <3> QED BY <1>3, <2>1, <3>1, <3>2, <3>3 DEF Recorded, Failed
  <2>2. CASE e = a /\ p # call[a].endpoint
    <3>1. tally'[<<e, p>>] = tally[<<e, p>>]
      BY <1>1, <1>7, <2>2
    <3>2. answer[e] = "running"
      BY <1>2, <2>2 DEF OrderlyCall
    <3>3. tally[<<e, p>>] = "called" => answer[e] = "error"
      BY <2>2 DEF Inv, DeliveryInv, TalliesInOrder
    <3> QED BY <1>5, <3>1, <3>2, <3>3, TallyKept
  <2>3. CASE e # a
    <3>1. tally'[<<e, p>>] = tally[<<e, p>>] /\ call'[e] = call[e]
      BY <1>1, <1>4, <1>7, <1>8, <1>9, <2>3 DEF Actors
    <3> QED BY <1>5, <3>1, TallyKept DEF Inv, DeliveryInv, TalliesInOrder
  <2> QED BY <2>1, <2>2, <2>3
<1>14. RetriesFollowFailures'
  <2> SUFFICES ASSUME NEW r \in attempts', r.number > 1
               PROVE  Recorded(r.event, r.endpoint, r.number - 1, Failed)'
    BY DEF RetriesFollowFailures
  <2>1. CASE r = Row(a)
    <3>1. a \in Workers
      BY <1>2, <1>3, <2>1 DEF OrderlyCall, Actors
    <3>2. Recorded(r.event, r.endpoint, r.number - 1, Failed)
      BY <1>2, <1>3, <2>1, <3>1 DEF OrderlyCall
    <3>3. r.number - 1 \in Numbers /\ r.event \in Events /\ r.endpoint \in Endpoints
      BY <1>3, <2>1, OutboundAssumption DEF Attempt, Numbers
    <3> QED BY <1>5, <3>2, <3>3 DEF Kept
  <2>2. CASE r # Row(a)
    <3>1. r \in attempts /\ r \in Attempt
      BY <1>1, <1>4, <2>2
    <3>2. Recorded(r.event, r.endpoint, r.number - 1, Failed)
      BY <3>1 DEF Inv, DeliveryInv, RetriesFollowFailures
    <3>3. r.number - 1 \in Numbers /\ r.event \in Events /\ r.endpoint \in Endpoints
      BY <3>1, OutboundAssumption DEF Attempt, Numbers
    <3> QED BY <1>5, <3>2, <3>3 DEF Kept
  <2> QED BY <2>1, <2>2
<1> QED BY <1>10, <1>11, <1>12, <1>13, <1>14 DEF DeliveryInv, CallsInOrder

LEMMA AgeInv ==
    ASSUME Inv, NEW r \in attempts, Age(r)
    PROVE  DeliveryInv'
<1>1. attempts \subseteq Attempt
  BY DEF Inv, DeliveryInv, DeliveryTypeOK
<1>2. Kept
  BY KeptByAge
<1>3. /\ Old(r) \in Attempt /\ Old(r).event = r.event
      /\ Old(r).endpoint = r.endpoint /\ Old(r).number = r.number
  BY <1>1 DEF Old, Attempt
<1>4. attempts' = (attempts \ {r}) \cup {Old(r)}
  BY DEF Age
<1>5. DeliveryTypeOK'
  BY <1>1, <1>3, <1>4 DEF Age, Inv, DeliveryInv, DeliveryTypeOK
<1>6. ASSUME NEW c \in Actors PROVE OrderlyCall(c)'
  BY <1>2, CallKept DEF Age
<1>7. JobsInOrder'
  BY <1>2, JobsKept DEF Age
<1>8. TalliesInOrder'
  BY <1>2, TallyKept DEF Age, Inv, DeliveryInv, TalliesInOrder
<1>9. RetriesFollowFailures'
  <2> SUFFICES ASSUME NEW s \in attempts', s.number > 1
               PROVE  Recorded(s.event, s.endpoint, s.number - 1, Failed)'
    BY DEF RetriesFollowFailures
  <2>1. PICK t \in attempts : t.event = s.event /\ t.endpoint = s.endpoint
                              /\ t.number = s.number
    BY <1>3, <1>4
  <2>2. Recorded(t.event, t.endpoint, t.number - 1, Failed)
    BY <2>1 DEF Inv, DeliveryInv, RetriesFollowFailures
  <2>3. t.number - 1 \in Numbers /\ t.event \in Events /\ t.endpoint \in Endpoints
    BY <1>1, <2>1, OutboundAssumption DEF Attempt, Numbers
  <2> QED BY <1>2, <2>1, <2>2, <2>3 DEF Kept
<1> QED BY <1>5, <1>6, <1>7, <1>8, <1>9 DEF DeliveryInv, CallsInOrder

-----------------------------------------------------------------------------
(* The steps of the retries. *)

(* The job of a worker's delivery is one the sweep could have queued. *)
LEMMA JobOfOrderly ==
    ASSUME Inv, NEW w \in Workers, call[w].stage # "idle",
           NEW tries \in 0..MaxTries
    PROVE  /\ JobOf(w, tries) \in Job
           /\ JobOf(w, tries).number < RetryMax
           /\ Recorded(JobOf(w, tries).event, JobOf(w, tries).endpoint,
                       JobOf(w, tries).number, Failed)
<1>1. call[w] \in Call
  BY CallTyped DEF Actors
<1>2. OrderlyCall(w)
  BY DEF Inv, DeliveryInv, CallsInOrder, Actors
<1> QED BY <1>1, <1>2, OutboundAssumption
        DEF OrderlyCall, JobOf, Job, Call, Numbers

(* A step that gives up what a worker is at, with a job back or without. *)
LEMMA DropInv ==
    ASSUME Inv, NEW w \in Workers, call' = [call EXCEPT ![w] = Idle],
           jobs \subseteq jobs',
           \A j \in jobs' \ jobs : /\ j \in Job /\ j.number < RetryMax
                                    /\ Recorded(j.event, j.endpoint, j.number, Failed),
           faults' \in 0..MaxFaults,
           UNCHANGED <<registered, answer, tally, attempts>>
    PROVE  DeliveryInv'
<1>1. Kept
  BY KeptByGrowth
<1>2. call \in [Actors -> Call] /\ jobs \subseteq Job
  BY DEF Inv, DeliveryInv, DeliveryTypeOK
<1>3. Idle \in Call /\ Idle.stage = "idle"
  BY IdleFacts, OutboundAssumption
<1>4. DeliveryTypeOK'
  BY <1>2, <1>3 DEF Inv, DeliveryInv, DeliveryTypeOK, Actors
<1>5. ASSUME NEW c \in Actors PROVE OrderlyCall(c)'
  <2>1. CASE c = w
    BY <1>2, <1>3, <2>1 DEF OrderlyCall, Actors
  <2>2. CASE c # w
    BY <1>1, <1>2, <2>2, CallKept
  <2> QED BY <2>1, <2>2
<1>6. JobsInOrder'
  BY DEF Inv, DeliveryInv, JobsInOrder, Recorded
<1>7. TalliesInOrder'
  <2>1. ASSUME NEW e \in Events PROVE call'[e] = call[e]
    BY <1>2, OutboundAssumption DEF Actors
  <2> QED BY <1>1, <2>1, TalliesKept
<1>8. RetriesFollowFailures'
  BY RetriesKept
<1> QED BY <1>4, <1>5, <1>6, <1>7, <1>8 DEF DeliveryInv, CallsInOrder

LEMMA RetryRecordFailsInv ==
    ASSUME Inv, NEW w \in Workers, RetryRecordFails(w)
    PROVE  DeliveryInv'
<1>1. call[w] \in Call /\ faults \in 0..MaxFaults
  BY CallTyped DEF Actors, Inv, DeliveryInv, DeliveryTypeOK
<1>2. faults' \in 0..MaxFaults
  BY <1>1, OutboundAssumption DEF RetryRecordFails, Fault
<1>3. CASE call[w].tries < MaxTries
  <2>1. call[w].tries + 1 \in 0..MaxTries
    BY <1>1, <1>3, OutboundAssumption DEF Call
  <2>2. jobs' = jobs \cup {JobOf(w, call[w].tries + 1)}
    BY <1>3 DEF RetryRecordFails
  <2>3. \A j \in jobs' \ jobs : /\ j \in Job /\ j.number < RetryMax
                                /\ Recorded(j.event, j.endpoint, j.number, Failed)
    BY <2>1, <2>2, JobOfOrderly DEF RetryRecordFails
  <2> QED BY <1>2, <2>2, <2>3, DropInv DEF RetryRecordFails
<1>4. CASE ~(call[w].tries < MaxTries)
  BY <1>2, <1>4, DropInv DEF RetryRecordFails
<1> QED BY <1>3, <1>4

LEMMA CrashWorkerInv ==
    ASSUME Inv, NEW w \in Workers, CrashWorker(w)
    PROVE  DeliveryInv'
<1>1. call[w] \in Call /\ faults \in 0..MaxFaults
  BY CallTyped DEF Actors, Inv, DeliveryInv, DeliveryTypeOK
<1>2. faults' \in 0..MaxFaults
  BY <1>1, OutboundAssumption DEF CrashWorker, Fault
<1>3. CASE jobs' = jobs
  BY <1>2, <1>3, DropInv DEF CrashWorker
<1>4. CASE call[w].stage # "idle" /\ jobs' = jobs \cup {JobOf(w, call[w].tries)}
  <2>1. call[w].tries \in 0..MaxTries
    BY <1>1 DEF Call
  <2>2. \A j \in jobs' \ jobs : /\ j \in Job /\ j.number < RetryMax
                                /\ Recorded(j.event, j.endpoint, j.number, Failed)
    BY <1>4, <2>1, JobOfOrderly
  <2> QED BY <1>2, <1>4, <2>2, DropInv DEF CrashWorker
<1> QED BY <1>3, <1>4 DEF CrashWorker

LEMMA SweepInv ==
    ASSUME Inv, NEW r \in attempts, Sweep(r)
    PROVE  DeliveryInv'
<1> DEFINE j == [event |-> r.event, endpoint |-> r.endpoint,
                 number |-> r.number, tries |-> 0]
<1>1. r \in Attempt
  BY DEF Inv, DeliveryInv, DeliveryTypeOK
<1>2. j \in Job
  BY <1>1, OutboundAssumption DEF Attempt, Job
<1>3. /\ j.event = r.event /\ j.endpoint = r.endpoint /\ j.number = r.number
  OBVIOUS
<1>4. jobs' = jobs \cup {j} /\ r.number < RetryMax /\ r.status = "failed"
  BY DEF Sweep, Retryable
<1> HIDE DEF j
<1>5. Kept
  BY KeptByGrowth DEF Sweep
<1>6. Recorded(j.event, j.endpoint, j.number, Failed)'
  BY <1>3, <1>4 DEF Recorded, Failed, Sweep
<1>7. DeliveryTypeOK'
  BY <1>2, <1>4 DEF Sweep, Inv, DeliveryInv, DeliveryTypeOK
<1>8. ASSUME NEW c \in Actors PROVE OrderlyCall(c)'
  BY <1>5, CallKept DEF Sweep
<1>9. JobsInOrder'
  <2> SUFFICES ASSUME NEW k \in jobs'
               PROVE  k.number < RetryMax
                      /\ Recorded(k.event, k.endpoint, k.number, Failed)'
    BY DEF JobsInOrder
  <2>1. CASE k = j
    BY <1>3, <1>4, <1>6, <2>1
  <2>2. CASE k # j
    BY <1>4, <2>2 DEF Sweep, Inv, DeliveryInv, JobsInOrder, Recorded
  <2> QED BY <2>1, <2>2
<1>10. TalliesInOrder'
  BY <1>5, TallyKept DEF Sweep, Inv, DeliveryInv, TalliesInOrder
<1>11. RetriesFollowFailures'
  BY RetriesKept DEF Sweep
<1> QED BY <1>7, <1>8, <1>9, <1>10, <1>11 DEF DeliveryInv, CallsInOrder

LEMMA TakeInv ==
    ASSUME Inv, NEW w \in Workers, NEW j \in jobs, Take(w, j)
    PROVE  DeliveryInv'
<1> DEFINE d == Started(j.event, j.endpoint, j.number + 1, j.tries)
<1>1. j \in Job /\ j.number < RetryMax
      /\ Recorded(j.event, j.endpoint, j.number, Failed)
  BY DEF Inv, DeliveryInv, DeliveryTypeOK, JobsInOrder
<1>2. /\ d.stage = "start" /\ d.event = j.event /\ d.endpoint = j.endpoint
      /\ d.number = j.number + 1 /\ d.left = j.number + 1
  BY DEF Started, Delivery
<1>3. d \in Call
  BY <1>1, OutboundAssumption DEF Started, Delivery, Call, Job, Numbers
<1>4. call' = [call EXCEPT ![w] = d] /\ jobs' = jobs \ {j}
  BY DEF Take
<1> HIDE DEF d
<1>5. Kept
  BY KeptByGrowth DEF Take
<1>6. call \in [Actors -> Call]
  BY DEF Inv, DeliveryInv, DeliveryTypeOK
<1>7. DeliveryTypeOK'
  BY <1>3, <1>4 DEF Take, Inv, DeliveryInv, DeliveryTypeOK, Actors
<1>8. ASSUME NEW c \in Actors PROVE OrderlyCall(c)'
  <2>1. CASE c = w
    <3>1. call'[c] = d
      BY <1>4, <1>6, <2>1
    <3>2. (j.number + 1) - 1 = j.number /\ j.number + 1 >= 2
          /\ j.number + 1 >= 1
          /\ j.number \in Numbers /\ j.event \in Events /\ j.endpoint \in Endpoints
      BY <1>1, OutboundAssumption DEF Job, Numbers
    <3>3. w \notin Events
      BY OutboundAssumption
    <3>4. Recorded(j.event, j.endpoint, (j.number + 1) - 1, Failed)'
      BY <1>1, <1>5, <3>2 DEF Kept
    <3> QED BY <1>2, <2>1, <3>1, <3>2, <3>3, <3>4 DEF OrderlyCall
  <2>2. CASE c # w
    BY <1>4, <1>5, <1>6, <2>2, CallKept DEF Take
  <2> QED BY <2>1, <2>2
<1>9. JobsInOrder'
  BY <1>4, <1>5, JobsKept
<1>10. TalliesInOrder'
  <2>1. ASSUME NEW e \in Events PROVE call'[e] = call[e]
    BY <1>4, <1>6, OutboundAssumption DEF Actors
  <2> QED BY <1>5, <2>1, TalliesKept DEF Take
<1>11. RetriesFollowFailures'
  BY RetriesKept DEF Take
<1> QED BY <1>7, <1>8, <1>9, <1>10, <1>11 DEF DeliveryInv, CallsInOrder

-----------------------------------------------------------------------------
(* The steps of the pushes, the endpoints and the API process. *)

LEMMA PushEventInv ==
    ASSUME Inv, NEW e \in Events, PushEvent(e)
    PROVE  DeliveryInv'
<1>1. /\ answer \in [Events -> {"none", "running", "counts", "error"}]
      /\ tally \in [Events \X Endpoints ->
                     {"none", "due", "called", "delivered", "failed", "limited"}]
  BY DEF Inv, DeliveryInv, DeliveryTypeOK
<1>2. Kept
  BY KeptByGrowth DEF PushEvent
<1>3. answer[e] = "none" /\ answer' = [answer EXCEPT ![e] = "running"]
  BY DEF PushEvent
<1>4. /\ \A p \in Endpoints : tally'[<<e, p>>] \in {"due", tally[<<e, p>>]}
      /\ \A c \in Events \ {e}, p \in Endpoints :
            tally'[<<c, p>>] = tally[<<c, p>>]
      /\ tally' \in [Events \X Endpoints ->
                     {"none", "due", "called", "delivered", "failed", "limited"}]
  BY <1>1 DEF PushEvent
<1>5. call[e].stage = "idle"
  BY <1>3 DEF Inv, DeliveryInv, CallsInOrder, OrderlyCall, Actors
<1>6. DeliveryTypeOK'
  BY <1>1, <1>3, <1>4 DEF PushEvent, Inv, DeliveryInv, DeliveryTypeOK
<1>7. ASSUME NEW c \in Actors PROVE OrderlyCall(c)'
  <2>1. CASE c = e
    BY <1>5, <2>1 DEF PushEvent, OrderlyCall
  <2>2. CASE c # e
    BY <1>1, <1>2, <1>3, <1>4, <2>2, CallKept DEF PushEvent
  <2> QED BY <2>1, <2>2
<1>8. JobsInOrder'
  BY <1>2, JobsKept DEF PushEvent
<1>9. TalliesInOrder'
  <2> SUFFICES ASSUME NEW c \in Events, NEW p \in Endpoints
               PROVE  /\ tally'[<<c, p>>] = "called" =>
                            \/ answer'[c] = "error"
                            \/ call[c].stage # "idle" /\ call[c].endpoint = p
                      /\ tally'[<<c, p>>] = "delivered"
                            => Recorded(c, p, 1, {"delivered"})'
                      /\ tally'[<<c, p>>] = "failed" => Recorded(c, p, 1, Failed)'
                      /\ answer'[c] = "counts" => call[c].stage = "idle"
                                                 /\ tally'[<<c, p>>] # "called"
    BY DEF TalliesInOrder, PushEvent
  <2>1. CASE c # e
    <3>1. tally'[<<c, p>>] = tally[<<c, p>>] /\ answer'[c] = answer[c]
      BY <1>1, <1>3, <1>4, <2>1
    <3> QED BY <1>2, <3>1, TallyKept DEF Inv, DeliveryInv, TalliesInOrder
  <2>2. CASE c = e
    <3>1. tally[<<e, p>>] # "called"
      BY <1>3, <1>5 DEF Inv, DeliveryInv, TalliesInOrder
    <3>2. answer'[e] = "running"
      BY <1>1, <1>3
    <3>3. CASE tally'[<<e, p>>] = "due"
      BY <2>2, <3>2, <3>3
    <3>4. CASE tally'[<<e, p>>] = tally[<<e, p>>]
      BY <1>2, <2>2, <3>1, <3>2, <3>4, TallyKept
    <3> QED BY <1>4, <3>3, <3>4
  <2> QED BY <2>1, <2>2
<1>10. RetriesFollowFailures'
  BY RetriesKept DEF PushEvent
<1> QED BY <1>6, <1>7, <1>8, <1>9, <1>10 DEF DeliveryInv, CallsInOrder

(* The loop reaches an endpoint: over its limit, or called. *)
LEMMA LoopInv ==
    ASSUME Inv, NEW e \in Events, NEW p \in Endpoints, Limited(e, p) \/ Target(e, p)
    PROVE  DeliveryInv'
<1> DEFINE d == Started(e, p, 1, 0)
<1>1. /\ d.stage = "start" /\ d.event = e /\ d.endpoint = p
      /\ d.number = 1 /\ d.left = 1
  BY DEF Started, Delivery
<1>2. d \in Call
  BY OutboundAssumption DEF Started, Delivery, Call
<1>3. /\ call \in [Actors -> Call]
      /\ tally \in [Events \X Endpoints ->
                     {"none", "due", "called", "delivered", "failed", "limited"}]
      /\ answer \in [Events -> {"none", "running", "counts", "error"}]
  BY DEF Inv, DeliveryInv, DeliveryTypeOK
<1>4. PICK how \in {"limited", "called"} :
        /\ tally' = [tally EXCEPT ![<<e, p>>] = how]
        /\ how = "limited" => call' = call
        /\ how = "called" => call' = [call EXCEPT ![e] = d]
  BY DEF Limited, Target, Count
<1> HIDE DEF d
<1>5. /\ Loops(e) /\ tally[<<e, p>>] = "due"
      /\ UNCHANGED <<registered, answer, attempts, jobs, faults>>
  BY DEF Limited, Target
<1>6. Kept
  BY <1>5, KeptByGrowth
<1>7. DeliveryTypeOK'
  BY <1>2, <1>3, <1>4, <1>5 DEF Inv, DeliveryInv, DeliveryTypeOK, Actors
<1>8. ASSUME NEW c \in Events, NEW q \in Endpoints, <<c, q>> # <<e, p>>
      PROVE  tally'[<<c, q>>] = tally[<<c, q>>]
  BY <1>3, <1>4, <1>8
<1>9. ASSUME NEW c \in Actors PROVE OrderlyCall(c)'
  <2>1. CASE c = e /\ how = "called"
    <3>1. call'[c] = d /\ tally'[<<e, p>>] = "called"
      BY <1>3, <1>4, <2>1
    <3>2. answer'[e] = "running" /\ e \notin Workers
      BY <1>5, OutboundAssumption DEF Loops
    <3> QED BY <1>1, <2>1, <3>1, <3>2 DEF OrderlyCall
  <2>2. CASE c = e /\ how = "limited"
    BY <1>4, <1>5, <2>2 DEF OrderlyCall, Loops
  <2>3. CASE c # e
    <3>1. call'[c] = call[c]
      BY <1>3, <1>4, <2>3
    <3>2. c \in Events => \A q \in Endpoints : tally'[<<c, q>>] = tally[<<c, q>>]
      BY <1>8, <2>3
    <3> QED BY <1>5, <1>6, <3>1, <3>2, CallKept
  <2> QED BY <2>1, <2>2, <2>3
<1>10. JobsInOrder'
  BY <1>5, <1>6, JobsKept
<1>11. TalliesInOrder'
  <2> SUFFICES ASSUME NEW c \in Events, NEW q \in Endpoints
               PROVE  /\ tally'[<<c, q>>] = "called" =>
                            \/ answer[c] = "error"
                            \/ call'[c].stage # "idle" /\ call'[c].endpoint = q
                      /\ tally'[<<c, q>>] = "delivered"
                            => Recorded(c, q, 1, {"delivered"})'
                      /\ tally'[<<c, q>>] = "failed" => Recorded(c, q, 1, Failed)'
                      /\ answer[c] = "counts" => call'[c].stage = "idle"
                                                /\ tally'[<<c, q>>] # "called"
    BY <1>5 DEF TalliesInOrder
  <2>1. CASE c = e /\ q = p
    <3>1. tally'[<<c, q>>] = how /\ answer[c] = "running"
      BY <1>3, <1>4, <1>5, <2>1 DEF Loops
    <3>2. how = "called" => call'[c] = d
      BY <1>3, <1>4, <2>1 DEF Actors
    <3> QED BY <1>1, <2>1, <3>1, <3>2
  <2>2. CASE c = e /\ q # p
    <3>1. tally'[<<c, q>>] = tally[<<c, q>>] /\ answer[c] = "running"
      BY <1>5, <1>8, <2>2 DEF Loops
    <3>2. tally[<<c, q>>] # "called"
      BY <1>5, <2>2 DEF Loops, Inv, DeliveryInv, TalliesInOrder
    <3> QED BY <1>6, <3>1, <3>2, TallyKept
  <2>3. CASE c # e
    <3>1. tally'[<<c, q>>] = tally[<<c, q>>] /\ call'[c] = call[c]
      BY <1>3, <1>4, <1>8, <2>3 DEF Actors
    <3> QED BY <1>6, <3>1, TallyKept DEF Inv, DeliveryInv, TalliesInOrder
  <2> QED BY <2>1, <2>2, <2>3
<1>12. RetriesFollowFailures'
  BY <1>5, RetriesKept
<1> QED BY <1>7, <1>9, <1>10, <1>11, <1>12 DEF DeliveryInv, CallsInOrder

(* A push ends: with its counts, with an error, or with its process. *)
LEMMA EndInv ==
    ASSUME Inv, NEW es \in SUBSET Events,
           \A e \in es : answer[e] = "running" /\ answer'[e] \in {"counts", "error"},
           \A e \in es : answer'[e] = "counts" =>
               /\ call[e].stage = "idle"
               /\ \A p \in Endpoints : tally[<<e, p>>] # "called",
           \A e \in Events \ es : answer'[e] = answer[e],
           \A a \in Actors : \/ call'[a] = call[a]
                                /\ (a \notin es \/ call[a].stage = "idle")
                             \/ call'[a] = Idle /\ a \in Events
                                /\ (a \in es \/ call[a].stage = "idle"),
           answer' \in [Events -> {"none", "running", "counts", "error"}],
           call' \in [Actors -> Call],
           faults' \in 0..MaxFaults,
           UNCHANGED <<registered, tally, attempts, jobs>>
    PROVE  DeliveryInv'
<1>1. Kept
  BY KeptByGrowth
<1>2. Idle.stage = "idle"
  BY IdleFacts, OutboundAssumption
<1>3. DeliveryTypeOK'
  BY DEF Inv, DeliveryInv, DeliveryTypeOK
<1>4. ASSUME NEW c \in Actors PROVE OrderlyCall(c)'
  <2>1. CASE call'[c].stage = "idle"
    BY <2>1 DEF OrderlyCall
  <2>2. CASE call'[c] = call[c] /\ c \notin es
    BY <1>1, <2>2, CallKept
  <2> QED BY <1>2, <2>1, <2>2
<1>5. JobsInOrder'
  BY <1>1, JobsKept
<1>6. TalliesInOrder'
  <2> SUFFICES ASSUME NEW e \in Events, NEW p \in Endpoints
               PROVE  /\ tally[<<e, p>>] = "called" =>
                            \/ answer'[e] = "error"
                            \/ call'[e].stage # "idle" /\ call'[e].endpoint = p
                      /\ tally[<<e, p>>] = "delivered"
                            => Recorded(e, p, 1, {"delivered"})'
                      /\ tally[<<e, p>>] = "failed" => Recorded(e, p, 1, Failed)'
                      /\ answer'[e] = "counts" => call'[e].stage = "idle"
                                                 /\ tally[<<e, p>>] # "called"
    BY DEF TalliesInOrder
  <2>1. CASE e \in es
    <3>1. call'[e].stage = "idle"
      BY <1>2, <2>1 DEF Actors
    <3> QED BY <1>1, <1>2, <2>1, <3>1, TallyKept
  <2>2. CASE e \notin es
    <3>1. answer'[e] = answer[e]
      BY <2>2
    <3>2. call'[e] = call[e] \/ (call'[e] = Idle /\ call[e].stage = "idle")
      BY <2>2 DEF Actors
    <3> QED BY <1>1, <1>2, <3>1, <3>2, TallyKept
            DEF Inv, DeliveryInv, TalliesInOrder
  <2> QED BY <2>1, <2>2
<1>7. RetriesFollowFailures'
  BY RetriesKept
<1> QED BY <1>3, <1>4, <1>5, <1>6, <1>7 DEF DeliveryInv, CallsInOrder

LEMMA AnswerPushInv ==
    ASSUME Inv, NEW e \in Events, AnswerPush(e)
    PROVE  DeliveryInv'
<1>1. /\ call \in [Actors -> Call] /\ faults \in 0..MaxFaults
      /\ answer \in [Events -> {"none", "running", "counts", "error"}]
  BY DEF Inv, DeliveryInv, DeliveryTypeOK
<1>2. call[e].stage = "idle" /\ answer[e] = "running"
      /\ answer' = [answer EXCEPT ![e] = "counts"]
  BY DEF AnswerPush, Loops
<1>3. \A p \in Endpoints : tally[<<e, p>>] # "called"
  BY <1>2 DEF Inv, DeliveryInv, TalliesInOrder
<1>4. {e} \in SUBSET Events
  OBVIOUS
<1>5. /\ \A c \in {e} : answer[c] = "running" /\ answer'[c] \in {"counts", "error"}
      /\ \A c \in {e} : answer'[c] = "counts" =>
            call[c].stage = "idle" /\ \A p \in Endpoints : tally[<<c, p>>] # "called"
      /\ \A c \in Events \ {e} : answer'[c] = answer[c]
      /\ \A a \in Actors : call'[a] = call[a]
                           /\ (a \notin {e} \/ call[a].stage = "idle")
      /\ answer' \in [Events -> {"none", "running", "counts", "error"}]
      /\ call' \in [Actors -> Call] /\ faults' \in 0..MaxFaults
      /\ UNCHANGED <<registered, tally, attempts, jobs>>
  BY <1>1, <1>2, <1>3 DEF AnswerPush
<1> QED BY ONLY Inv, <1>4, <1>5, EndInv

LEMMA PushAbortsInv ==
    ASSUME Inv, NEW e \in Events, PushAborts(e)
    PROVE  DeliveryInv'
<1>1. /\ call \in [Actors -> Call] /\ faults \in 0..MaxFaults
      /\ answer \in [Events -> {"none", "running", "counts", "error"}]
  BY DEF Inv, DeliveryInv, DeliveryTypeOK
<1>2. /\ answer[e] = "running" /\ answer' = [answer EXCEPT ![e] = "error"]
      /\ call' = [call EXCEPT ![e] = Idle]
  BY DEF PushAborts
<1>3. Idle \in Call
  BY IdleFacts, OutboundAssumption
<1>4. {e} \in SUBSET Events
  OBVIOUS
<1>5. /\ \A c \in {e} : answer[c] = "running" /\ answer'[c] \in {"counts", "error"}
      /\ \A c \in {e} : answer'[c] = "counts" =>
            call[c].stage = "idle" /\ \A p \in Endpoints : tally[<<c, p>>] # "called"
      /\ \A c \in Events \ {e} : answer'[c] = answer[c]
      /\ \A a \in Actors : \/ call'[a] = call[a]
                              /\ (a \notin {e} \/ call[a].stage = "idle")
                           \/ call'[a] = Idle /\ a \in Events
                              /\ (a \in {e} \/ call[a].stage = "idle")
      /\ answer' \in [Events -> {"none", "running", "counts", "error"}]
      /\ call' \in [Actors -> Call] /\ faults' \in 0..MaxFaults
      /\ UNCHANGED <<registered, tally, attempts, jobs>>
  BY <1>1, <1>2, <1>3, OutboundAssumption DEF PushAborts, Fault, Actors
<1> QED BY ONLY Inv, <1>4, <1>5, EndInv

LEMMA CrashApiInv ==
    ASSUME Inv, CrashApi
    PROVE  DeliveryInv'
<1> DEFINE es == {e \in Events : answer[e] = "running"}
<1>1. /\ call \in [Actors -> Call] /\ faults \in 0..MaxFaults
      /\ answer \in [Events -> {"none", "running", "counts", "error"}]
  BY DEF Inv, DeliveryInv, DeliveryTypeOK
<1>2. \A e \in Events \ es : call[e].stage = "idle"
  BY DEF Inv, DeliveryInv, CallsInOrder, OrderlyCall, Actors
<1>3. Idle \in Call
  BY IdleFacts, OutboundAssumption
<1>4. es \in SUBSET Events
  OBVIOUS
<1>5. /\ \A c \in es : answer[c] = "running" /\ answer'[c] \in {"counts", "error"}
      /\ \A c \in es : answer'[c] # "counts"
      /\ \A c \in Events \ es : answer'[c] = answer[c]
      /\ answer' \in [Events -> {"none", "running", "counts", "error"}]
      /\ faults' \in 0..MaxFaults
      /\ UNCHANGED <<registered, tally, attempts, jobs>>
  BY <1>1, OutboundAssumption DEF CrashApi, Fault
<1>6. /\ \A a \in Actors : \/ call'[a] = call[a]
                              /\ (a \notin es \/ call[a].stage = "idle")
                           \/ call'[a] = Idle /\ a \in Events
                              /\ (a \in es \/ call[a].stage = "idle")
      /\ call' \in [Actors -> Call]
  BY <1>1, <1>2, <1>3 DEF CrashApi, Actors
<1> HIDE DEF es
<1> QED BY <1>4, <1>5, <1>6, EndInv

LEMMA DeleteEndpointInv ==
    ASSUME Inv, NEW p \in Endpoints, DeleteEndpoint(p)
    PROVE  DeliveryInv'
<1>1. Kept
  BY KeptByGrowth DEF DeleteEndpoint
<1>2. DeliveryTypeOK'
  BY DEF DeleteEndpoint, Inv, DeliveryInv, DeliveryTypeOK
<1>3. CallsInOrder'
  BY <1>1, CallKept DEF DeleteEndpoint, CallsInOrder
<1>4. JobsInOrder'
  BY <1>1, JobsKept DEF DeleteEndpoint
<1>5. TalliesInOrder'
  BY <1>1, TalliesKept DEF DeleteEndpoint
<1>6. RetriesFollowFailures'
  BY RetriesKept DEF DeleteEndpoint
<1> QED BY <1>2, <1>3, <1>4, <1>5, <1>6 DEF DeliveryInv

LEMMA OutUnchangedInv ==
    ASSUME Inv, UNCHANGED outVars
    PROVE  DeliveryInv'
<1>1. Kept
  BY KeptByGrowth DEF outVars
<1>2. DeliveryTypeOK'
  BY DEF outVars, Inv, DeliveryInv, DeliveryTypeOK
<1>3. CallsInOrder'
  BY <1>1, CallKept DEF outVars, CallsInOrder
<1>4. JobsInOrder'
  BY <1>1, JobsKept DEF outVars
<1>5. TalliesInOrder'
  BY <1>1, TalliesKept DEF outVars
<1>6. RetriesFollowFailures'
  BY RetriesKept DEF outVars
<1> QED BY <1>2, <1>3, <1>4, <1>5, <1>6 DEF DeliveryInv

-----------------------------------------------------------------------------
(* Theorems. *)

LEMMA DeliveryInitInv == Init => Inv
<1> SUFFICES ASSUME Init PROVE Inv
  OBVIOUS
<1>1. BreakerInv
  BY InitInv DEF Init
<1>2. Idle \in Call /\ Idle.stage = "idle"
  BY IdleFacts, OutboundAssumption
<1>3. DeliveryTypeOK
  BY <1>2, OutboundAssumption DEF Init, DeliveryTypeOK
<1>4. CallsInOrder
  BY <1>2 DEF Init, CallsInOrder, OrderlyCall
<1>5. JobsInOrder /\ RetriesFollowFailures
  BY DEF Init, JobsInOrder, RetriesFollowFailures
<1>6. TalliesInOrder
  BY DEF Init, TalliesInOrder
<1> QED BY <1>1, <1>3, <1>4, <1>5, <1>6 DEF Inv, DeliveryInv

LEMMA DeliveryNextInv == Inv /\ [Next]_vars => Inv'
<1> SUFFICES ASSUME Inv, [Next]_vars PROVE Inv'
  OBVIOUS
<1>1. BreakerInv'
  BY StepOfBreakers, NextInv DEF Inv
<1>2. ASSUME NEW a \in Actors, Deliver(a) PROVE DeliveryInv'
  BY <1>2, MovesInv, RecordInv DEF Deliver
<1>3. ASSUME NEW e \in Events, PushEvent(e) \/ AnswerPush(e) \/ PushAborts(e)
      PROVE  DeliveryInv'
  BY <1>3, PushEventInv, AnswerPushInv, PushAbortsInv
<1>4. ASSUME NEW e \in Events, NEW p \in Endpoints, Limited(e, p) \/ Target(e, p)
      PROVE  DeliveryInv'
  BY <1>4, LoopInv
<1>5. ASSUME NEW w \in Workers, RetryRecordFails(w) \/ CrashWorker(w)
      PROVE  DeliveryInv'
  BY <1>5, RetryRecordFailsInv, CrashWorkerInv
<1>6. ASSUME NEW w \in Workers, NEW j \in jobs, Take(w, j) PROVE DeliveryInv'
  BY <1>6, TakeInv
<1>7. ASSUME NEW r \in attempts, Sweep(r) \/ Age(r) PROVE DeliveryInv'
  BY <1>7, SweepInv, AgeInv
<1>8. ASSUME NEW p \in Endpoints, DeleteEndpoint(p) PROVE DeliveryInv'
  BY <1>8, DeleteEndpointInv
<1>9. ASSUME NEW b \in Breakers, RestBreaker(b) PROVE DeliveryInv'
  BY <1>9, OutUnchangedInv DEF RestBreaker
<1>10. ASSUME CrashApi PROVE DeliveryInv'
  BY <1>10, CrashApiInv
<1>11. ASSUME UNCHANGED vars PROVE DeliveryInv'
  BY <1>11, OutUnchangedInv DEF vars
<1>12. DeliveryInv'
  BY <1>2, <1>3, <1>4, <1>5, <1>6, <1>7, <1>8, <1>9, <1>10, <1>11 DEF Next
<1> QED BY <1>1, <1>12 DEF Inv

(* The strengthening that carries every theorem below. *)
THEOREM DeliveryInvariant == Spec => []Inv
<1> QED BY DeliveryInitInv, DeliveryNextInv, PTL DEF Spec

(* Types, of the breakers' counters and of the deliveries: no job or row goes
   beyond retry_max. *)
THEOREM TypeCorrect == Spec => []TypeOK
<1>1. Inv => TypeOK
  BY DEF Inv, BreakerInv, DeliveryInv, TypeOK
<1> QED BY DeliveryInvariant, <1>1, PTL

(* What a caller of push_event is told is on record. *)
THEOREM AnswersRecorded == Spec => []AnswersMatchAttempts
<1>1. Inv => AnswersMatchAttempts
  BY DEF Inv, DeliveryInv, TalliesInOrder, AnswersMatchAttempts
<1> QED BY DeliveryInvariant, <1>1, PTL

(* Attempt k + 1 is on record only after attempt k failed. *)
THEOREM RetriesOrdered == Spec => []RetriesFollowFailures
<1>1. Inv => RetriesFollowFailures
  BY DEF Inv, DeliveryInv
<1> QED BY DeliveryInvariant, <1>1, PTL

(* So the log accounts for what callers hear and for every retry. *)
THEOREM DeliveriesOnRecord == Spec => []DeliveriesAccounted
<1>1. AnswersMatchAttempts /\ RetriesFollowFailures => DeliveriesAccounted
  BY DEF DeliveriesAccounted
<1> QED BY AnswersRecorded, RetriesOrdered, <1>1, PTL

(* The service asks and informs its breakers as any caller may, so they open
   and close on results in a row alone, late results included. *)
THEOREM DeliveryFollowsResults == Spec => BreakerFollowsResults
<1>1. Inv /\ [Next]_vars
        => [\A b \in Breakers :
              /\ state[b] = "closed" /\ state'[b] = "open"
                    => losses'[b] = FailureThreshold
              /\ state[b] # "closed" /\ state'[b] = "closed"
                    => \/ wins'[b] = SuccessThreshold
                       \/ \E bs \in SUBSET Breakers : b \in bs /\ Renew(bs)]_breakerVars
  BY StepOfBreakers, StepFollows DEF Follows, Inv
<1> QED BY DeliveryInvariant, <1>1, PTL DEF Spec, BreakerFollowsResults
=============================================================================
