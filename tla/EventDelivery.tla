--------------------------- MODULE EventDelivery ---------------------------
(***************************************************************************)
(* What the transactional outbox promises, with no relay in sight.         *)
(*                                                                         *)
(* An event is recorded together with the business change it reports.      *)
(* While it is due it may be put on its topic, any number of times.  It    *)
(* stops being due either because it was published, which needs a copy on  *)
(* the topic, or because it was abandoned; no copy of it appears after     *)
(* that.                                                                   *)
(***************************************************************************)
CONSTANT Events

VARIABLES
    phase,      \* phase[e]: where event e stands
    delivered   \* the events with at least one copy on their topic

vars == <<phase, delivered>>

Phase == {"absent", "due", "published", "abandoned"}

TypeOK ==
    /\ phase \in [Events -> Phase]
    /\ delivered \subseteq Events

Init ==
    /\ phase = [e \in Events |-> "absent"]
    /\ delivered = {}

Record(e) ==
    /\ phase[e] = "absent"
    /\ phase' = [phase EXCEPT ![e] = "due"]
    /\ UNCHANGED delivered

Deliver(e) ==
    /\ phase[e] = "due"
    /\ delivered' = delivered \cup {e}
    /\ UNCHANGED phase

(* One relay transaction settles several events together. *)
Settle(confirmed, given_up) ==
    /\ \A e \in confirmed \cup given_up : phase[e] = "due"
    /\ confirmed \subseteq delivered
    /\ confirmed \cap given_up = {}
    /\ phase' = [e \in Events |-> IF e \in confirmed THEN "published"
                                  ELSE IF e \in given_up THEN "abandoned"
                                  ELSE phase[e]]
    /\ UNCHANGED delivered

Next ==
    \/ \E e \in Events : Record(e) \/ Deliver(e)
    \/ \E confirmed, given_up \in SUBSET Events : Settle(confirmed, given_up)

Spec == Init /\ [][Next]_vars
=============================================================================
