--------------------------- MODULE CircuitBreaker ---------------------------
(***************************************************************************)
(* The circuit breakers of the integration service, one per process and    *)
(* name, whatever the calls they guard.                                    *)
(*                                                                         *)
(* A call is admitted under the breaker's lock, runs without it, and       *)
(* reports its result under it again: results come in any order, from any  *)
(* number of calls, whatever the state by then.                            *)
(***************************************************************************)
EXTENDS Integers

CONSTANTS
    Breakers,
    FailureThreshold,   \* consecutive failures that trip a breaker
    SuccessThreshold    \* successes in half-open that close it

ASSUME BreakerAssumption ==
    /\ FailureThreshold \in Nat \ {0}
    /\ SuccessThreshold \in Nat \ {0}

VARIABLES
    state,      \* state[b]
    failures,   \* _failure_count, which counts no further than the threshold
    successes,  \* _success_count
    rested,     \* recovery_timeout has passed since _opened_at
    losses,     \* history: failures in a row
    wins        \* history: successes in a row

breakerVars == <<state, failures, successes, rested, losses, wins>>

State == {"closed", "open", "half_open"}
Rested == {"no", "yes"}

BreakerTypeOK ==
    /\ state \in [Breakers -> State]
    /\ failures \in [Breakers -> 0..FailureThreshold]
    /\ successes \in [Breakers -> 0..SuccessThreshold]
    /\ rested \in [Breakers -> Rested]
    /\ losses \in [Breakers -> 0..FailureThreshold]
    /\ wins \in [Breakers -> 0..SuccessThreshold]

BreakerInit ==
    /\ state = [b \in Breakers |-> "closed"]
    /\ failures = [b \in Breakers |-> 0]
    /\ successes = [b \in Breakers |-> 0]
    /\ rested = [b \in Breakers |-> "no"]
    /\ losses = [b \in Breakers |-> 0]
    /\ wins = [b \in Breakers |-> 0]

(* Counters and histories are compared with their threshold only. *)
UpTo(limit, n) == IF n < limit THEN n + 1 ELSE limit

Rejects(b) == state[b] = "open" /\ rested[b] = "no"

(* call, before it runs the function. *)
Admit(b) ==
    /\ ~Rejects(b)
    /\ IF state[b] = "open"
       THEN /\ state' = [state EXCEPT ![b] = "half_open"]
            /\ successes' = [successes EXCEPT ![b] = 0]
       ELSE UNCHANGED <<state, successes>>
    /\ UNCHANGED <<failures, rested, losses, wins>>

Open(b) ==
    /\ state' = [state EXCEPT ![b] = "open"]
    /\ rested' = [rested EXCEPT ![b] = "no"]

CountLoss(b) ==
    /\ losses' = [losses EXCEPT ![b] = UpTo(FailureThreshold, @)]
    /\ wins' = [wins EXCEPT ![b] = 0]

(* _on_failure: also for a call that began before the breaker opened, which
   may start the timeout anew. *)
OnFailure(b) ==
    /\ IF state[b] = "half_open"
       THEN Open(b) /\ UNCHANGED failures
       ELSE LET n == UpTo(FailureThreshold, failures[b])
            IN  /\ failures' = [failures EXCEPT ![b] = n]
                /\ IF n >= FailureThreshold
                   THEN Open(b)
                   ELSE UNCHANGED <<state, rested>>
    /\ CountLoss(b)
    /\ UNCHANGED successes

(* Mutant: a late success closes an open breaker. *)
OnSuccessCloses(b) ==
    /\ IF state[b] = "half_open"
       THEN LET n == successes[b] + 1
            IN  /\ successes' = [successes EXCEPT ![b] = n]
                /\ IF n >= SuccessThreshold
                   THEN /\ state' = [state EXCEPT ![b] = "closed"]
                        /\ failures' = [failures EXCEPT ![b] = 0]
                   ELSE UNCHANGED <<state, failures>>
       ELSE /\ failures' = [failures EXCEPT ![b] = 0]
            /\ state' = [state EXCEPT ![b] = "closed"]
            /\ UNCHANGED successes
    /\ losses' = [losses EXCEPT ![b] = 0]
    /\ wins' = [wins EXCEPT ![b] = UpTo(SuccessThreshold, @)]
    /\ UNCHANGED rested

(* _on_success: outside half-open it only resets the count of failures, in
   an open breaker too. *)
OnSuccess(b) ==
    /\ IF state[b] = "half_open"
       THEN LET n == successes[b] + 1
            IN  /\ successes' = [successes EXCEPT ![b] = n]
                /\ IF n >= SuccessThreshold
                   THEN /\ state' = [state EXCEPT ![b] = "closed"]
                        /\ failures' = [failures EXCEPT ![b] = 0]
                   ELSE UNCHANGED <<state, failures>>
       ELSE /\ failures' = [failures EXCEPT ![b] = 0]
            /\ UNCHANGED <<state, successes>>
    /\ losses' = [losses EXCEPT ![b] = 0]
    /\ wins' = [wins EXCEPT ![b] = UpTo(SuccessThreshold, @)]
    /\ UNCHANGED rested

(* recovery_timeout passes. *)
Rest(b) ==
    /\ Rejects(b)
    /\ rested' = [rested EXCEPT ![b] = "yes"]
    /\ UNCHANGED <<state, failures, successes, losses, wins>>

(* The process restarts: get_circuit_breaker makes new ones. *)
Renew(bs) ==
    /\ state' = [b \in Breakers |-> IF b \in bs THEN "closed" ELSE state[b]]
    /\ failures' = [b \in Breakers |-> IF b \in bs THEN 0 ELSE failures[b]]
    /\ successes' = [b \in Breakers |-> IF b \in bs THEN 0 ELSE successes[b]]
    /\ rested' = [b \in Breakers |-> IF b \in bs THEN "no" ELSE rested[b]]
    /\ losses' = [b \in Breakers |-> IF b \in bs THEN 0 ELSE losses[b]]
    /\ wins' = [b \in Breakers |-> IF b \in bs THEN 0 ELSE wins[b]]

BreakerNext ==
    \/ \E b \in Breakers : Admit(b) \/ OnFailure(b) \/ OnSuccess(b) \/ Rest(b)
    \/ \E bs \in SUBSET Breakers : Renew(bs)

BreakerSpec == BreakerInit /\ [][BreakerNext]_breakerVars

-----------------------------------------------------------------------------
(* Properties. *)

(* A closed breaker opens only on FailureThreshold failures in a row, counted
   as the results come in, however the calls overlap; and it closes only on
   SuccessThreshold successes in a row, or with a new process. *)
BreakerFollowsResults ==
    [][\A b \in Breakers :
         /\ state[b] = "closed" /\ state'[b] = "open"
               => losses'[b] = FailureThreshold
         /\ state[b] # "closed" /\ state'[b] = "closed"
               => \/ wins'[b] = SuccessThreshold
                  \/ \E bs \in SUBSET Breakers : b \in bs /\ Renew(bs)]_breakerVars

(* Why: a closed breaker counts what the history counts, and a half-open one
   has seen no failure since it admitted its first call. *)
BreakerInOrder ==
    \A b \in Breakers :
        /\ state[b] = "closed" => failures[b] = losses[b]
                                  /\ failures[b] < FailureThreshold
        /\ state[b] = "half_open" => successes[b] <= wins[b]
                                     /\ successes[b] < SuccessThreshold

BreakerInv == BreakerTypeOK /\ BreakerInOrder
=============================================================================
