-------------------------- MODULE ManagedConsumer --------------------------
(***************************************************************************)
(* SCVRIConsumer with a handler: members of one Kafka consumer group, each *)
(* running start(), which takes one message after another, has it handled, *)
(* and then commits.                                                       *)
(*                                                                         *)
(* What the handler raises is logged and the message goes to <topic>.dlq,  *)
(* if the producer can store it there; either way its offset is committed. *)
(* commit() stores the positions of all partitions assigned to the member  *)
(* by then, not that of the message alone.  stop() closes the connections  *)
(* at once while the handler may still be at work.                         *)
(***************************************************************************)
EXTENDS Integers

CONSTANTS
    Partitions,
    Last,       \* Last[p]: number of messages of partition p
    Poison,     \* messages whose value is no EventEnvelope
    Consumers,  \* members of the group, one after another in the same place
    NoOne,      \* neither a member
    DlqEnabled, \* the consumers' dlq_enabled
    MaxFaults   \* bound: crashes, stops, failed commits and starts, rebalances

Messages == UNION {{p} \X (1..Last[p]) : p \in Partitions}

ASSUME GroupAssumption ==
    /\ Last \in [Partitions -> Nat]
    /\ NoOne \notin Consumers
    /\ DlqEnabled \in BOOLEAN /\ MaxFaults \in Nat

VARIABLES
    committed, \* committed[p]: the offset the group stores
    owner,     \* owner[p]: the member p is assigned to, or NoOne
    pos,       \* pos[p]: messages of p its owner has taken, once it has one
    stage,     \* stage[c]: where c is in start()
    msg,       \* msg[c]: the message of c's current iteration, or NoMessage
    stopping,  \* members whose stop event is set and connections are closed
    outcome,   \* history: outcome[m], where m has ended up
    taken,     \* history: taken[m], how often m was given to a member
    released,  \* history: released[p], how often p lost its owner
    faults

groupVars == <<committed, owner, pos>>
loopVars  == <<stage, msg, stopping>>
histVars  == <<outcome, taken, released>>
consumerVars == <<groupVars, loopVars, histVars, faults>>

NoMessage == <<>>
InHand == {"fetched", "handling", "failed"}
Places == {"handled", "dlq", "lost"}

GroupTypeOK ==
    /\ committed \in [Partitions -> Nat]
    /\ owner \in [Partitions -> Consumers \cup {NoOne}]
    /\ pos \in [Partitions -> Nat]
    /\ \A p \in Partitions : committed[p] <= Last[p] /\ pos[p] <= Last[p]
    /\ stage \in [Consumers -> InHand \cup {"stalled", "polling", "committing", "ended"}]
    /\ msg \in [Consumers -> Messages \cup {NoMessage}]
    /\ \A c \in Consumers : msg[c] # NoMessage <=> stage[c] \in InHand \cup {"committing"}
    /\ stopping \subseteq Consumers
    /\ outcome \in [Messages -> SUBSET Places]
    /\ taken \in [Messages -> Nat]
    /\ released \in [Partitions -> Nat]
    /\ faults \in 0..MaxFaults

GroupInit ==
    /\ committed = [p \in Partitions |-> 0]
    /\ owner = [p \in Partitions |-> NoOne]
    /\ pos = [p \in Partitions |-> 0]
    /\ stage \in [Consumers -> {"polling", "ended"}]
    /\ msg = [c \in Consumers |-> NoMessage]
    /\ stopping = {}
    /\ outcome = [m \in Messages |-> {}]
    /\ taken = [m \in Messages |-> 0]
    /\ released = [p \in Partitions |-> 0]
    /\ faults = 0

(* A member of the group: it heartbeats, whether or not it reads. *)
Member(c) == stage[c] # "ended" /\ c \notin stopping

Fault == faults < MaxFaults /\ faults' = faults + 1

(* The group takes c's partitions away. *)
Release(c) ==
    /\ owner' = [p \in Partitions |-> IF owner[p] = c THEN NoOne ELSE owner[p]]
    /\ released' = [p \in Partitions |->
                      released[p] + IF owner[p] = c THEN 1 ELSE 0]

-----------------------------------------------------------------------------
(* The loop of start(). *)

Poll(c, p) ==
    /\ stage[c] = "polling" /\ c \notin stopping
    /\ owner[p] = c /\ pos[p] < Last[p]
    /\ pos' = [pos EXCEPT ![p] = @ + 1]
    /\ LET m == <<p, pos[p] + 1>>
       IN  /\ msg' = [msg EXCEPT ![c] = m]
           /\ taken' = [taken EXCEPT ![m] = @ + 1]
    /\ stage' = [stage EXCEPT ![c] = "fetched"]
    /\ UNCHANGED <<committed, owner, stopping, outcome, released, faults>>

(* The loop is left, and with it start(): stop() has been called. *)
Leave(c) ==
    /\ stage' = [stage EXCEPT ![c] = "ended"]
    /\ msg' = [msg EXCEPT ![c] = NoMessage]
    /\ stopping' = stopping \cup {c}

(* The stop event is looked at before the message: it is left as it is. *)
Break(c) ==
    /\ stage[c] \in {"polling", "fetched"} /\ c \in stopping
    /\ Leave(c)
    /\ UNCHANGED <<groupVars, histVars, faults>>

(* _process_message: the value becomes an envelope, or that raises. *)
Begin(c) ==
    /\ stage[c] = "fetched" /\ c \notin stopping
    /\ stage' = [stage EXCEPT ![c] = IF msg[c] \in Poison THEN "failed" ELSE "handling"]
    /\ UNCHANGED <<groupVars, msg, stopping, histVars, faults>>

(* The handler returns, or raises. *)
Handle(c) ==
    /\ stage[c] = "handling"
    /\ stage' = [stage EXCEPT ![c] = "committing"]
    /\ outcome' = [outcome EXCEPT ![msg[c]] = @ \cup {"handled"}]
    /\ UNCHANGED <<groupVars, msg, stopping, taken, released, faults>>

HandlerRaises(c) ==
    /\ stage[c] = "handling"
    /\ stage' = [stage EXCEPT ![c] = "failed"]
    /\ UNCHANGED <<groupVars, msg, stopping, histVars, faults>>

(* publish to <topic>.dlq, once: the record is stored there or not, and what
   publish raises in the second case is logged.  A copy that publish leaves on
   <topic>.dlq.dlq, where nobody looks, is no better than none. *)
Published(c) ==
    IF DlqEnabled /\ c \notin stopping THEN {"dlq", "lost"} ELSE {"lost"}

DeadLetter(c) ==
    /\ stage[c] = "failed"
    /\ stage' = [stage EXCEPT ![c] = "committing"]
    /\ \E place \in Published(c) :
          outcome' = [outcome EXCEPT ![msg[c]] = @ \cup {place}]
    /\ UNCHANGED <<groupVars, msg, stopping, taken, released, faults>>

(* Mutant: the offset after the message is stored, whoever has p now. *)
CommitOwnOffset(c) ==
    /\ stage[c] = "committing" /\ c \notin stopping
    /\ committed' = [committed EXCEPT ![msg[c][1]] = msg[c][2]]
    /\ stage' = [stage EXCEPT ![c] = "polling"]
    /\ msg' = [msg EXCEPT ![c] = NoMessage]
    /\ UNCHANGED <<owner, pos, stopping, histVars, faults>>

CommitOffsets(c) ==
    /\ stage[c] = "committing" /\ c \notin stopping
    /\ committed' = [p \in Partitions |-> IF owner[p] = c THEN pos[p] ELSE committed[p]]
    /\ stage' = [stage EXCEPT ![c] = "polling"]
    /\ msg' = [msg EXCEPT ![c] = NoMessage]
    /\ UNCHANGED <<owner, pos, stopping, histVars, faults>>

(* commit() raises, as it always does once the consumer is closed: the
   exception leaves start(), whose finally calls stop(). *)
CommitFails(c) ==
    /\ stage[c] = "committing"
    /\ IF c \in stopping THEN UNCHANGED faults ELSE Fault
    /\ Release(c)
    /\ Leave(c)
    /\ UNCHANGED <<committed, pos, outcome, taken>>

-----------------------------------------------------------------------------
(* Members come and go. *)

(* stop() called by another task, at any moment. *)
StopConsumer(c) ==
    /\ Member(c) /\ Fault
    /\ stopping' = stopping \cup {c}
    /\ Release(c)
    /\ UNCHANGED <<committed, pos, stage, msg, outcome, taken>>

(* The process is lost and the session times out. *)
Crash(c) ==
    /\ stage[c] # "ended" /\ Fault
    /\ Release(c)
    /\ Leave(c)
    /\ UNCHANGED <<committed, pos, outcome, taken>>

(* A new consumer joins in c's place. *)
Join(c) ==
    /\ stage[c] = "ended"
    /\ stage' = [stage EXCEPT ![c] = "polling"]
    /\ stopping' = stopping \ {c}
    /\ UNCHANGED <<groupVars, msg, histVars, faults>>

(* The consumer has joined when the producer's start raises, outside the try
   whose finally would have stopped it: the member is there and never reads. *)
JoinStalled(c) ==
    /\ stage[c] = "ended" /\ DlqEnabled /\ Fault
    /\ stage' = [stage EXCEPT ![c] = "stalled"]
    /\ stopping' = stopping \ {c}
    /\ UNCHANGED <<groupVars, msg, histVars>>

(* A member that does not read for max_poll_interval_ms leaves the group. *)
Expire(c) ==
    /\ stage[c] = "stalled"
    /\ Release(c)
    /\ Leave(c)
    /\ UNCHANGED <<committed, pos, outcome, taken, faults>>

Resume(p) == committed[p]

(* The group gives p to c; while it has an owner, as a rebalance. *)
Assign(p, c) ==
    /\ Member(c) /\ owner[p] # c
    /\ IF owner[p] = NoOne THEN UNCHANGED <<faults, released>>
       ELSE Fault /\ released' = [released EXCEPT ![p] = @ + 1]
    /\ owner' = [owner EXCEPT ![p] = c]
    /\ pos' = [pos EXCEPT ![p] = Resume(p)]
    /\ UNCHANGED <<committed, loopVars, outcome, taken>>

-----------------------------------------------------------------------------
Step(c) ==
    \/ \E p \in Partitions : Poll(c, p)
    \/ Break(c) \/ Begin(c) \/ Handle(c) \/ HandlerRaises(c) \/ DeadLetter(c)
    \/ CommitOffsets(c) \/ CommitFails(c)

GroupNext ==
    \/ \E c \in Consumers :
          Step(c) \/ StopConsumer(c) \/ Crash(c) \/ Join(c) \/ JoinStalled(c) \/ Expire(c)
    \/ \E p \in Partitions, c \in Consumers : Assign(p, c)

GroupSpec == GroupInit /\ [][GroupNext]_consumerVars

-----------------------------------------------------------------------------
(* Properties. *)

(* An offset is stored only over messages that were handled, dead-lettered or,
   when the dead-letter topic took none, given up: whatever is in progress
   elsewhere, on whichever member, no unread message is skipped. *)
CommittedAccounted ==
    \A m \in Messages : m[2] <= committed[m[1]] => outcome[m] # {}

(* A message is given to a member once, and again only when its partition was
   taken from an owner: consumption repeats nothing by itself. *)
RepeatsExcused ==
    \A m \in Messages : taken[m] <= 1 + released[m[1]]

(* The group's offsets never go back, although a member that lost a partition
   may commit after its new owner did. *)
OffsetsMoveForward ==
    [][\A p \in Partitions : committed'[p] >= committed[p]]_consumerVars

(* These hold together. *)
ConsumptionKept ==
    /\ [](GroupTypeOK /\ CommittedAccounted /\ RepeatsExcused)
    /\ OffsetsMoveForward

(* Consumption is at least once: all messages end somewhere unless there comes
   a time when no member is left. *)
EveryMessageEnds ==
    <>(\/ \A m \in Messages : outcome[m] # {}
       \/ \A c \in Consumers : ~Member(c))
=============================================================================
