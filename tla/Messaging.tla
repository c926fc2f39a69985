----------------------------- MODULE Messaging -----------------------------
(***************************************************************************)
(* The two ends of the shared library's event channel: OutboxRelay, which  *)
(* brings events onto their topics, and the group of consumers that takes  *)
(* messages off one.                                                       *)
(*                                                                         *)
(* Kafka between them decouples the two completely, so that they are       *)
(* checked one at a time: "side" is chosen at the start and only the side  *)
(* it names takes steps.                                                   *)
(***************************************************************************)
EXTENDS OutboxRelay, ManagedConsumer

VARIABLE side  \* the side that takes steps

MessagingVars == <<vars, consumerVars, side>>

MessagingInit ==
    /\ Init /\ GroupInit
    /\ side \in {"producing", "consuming"}
    /\ side = "producing" => \A c \in Consumers : stage[c] = "polling"

Producing == side = "producing" /\ Next /\ UNCHANGED consumerVars
Consuming == side = "consuming" /\ GroupNext /\ UNCHANGED vars

MessagingNext == UNCHANGED side /\ (Producing \/ Consuming)

MessagingSpec == MessagingInit /\ [][MessagingNext]_MessagingVars

(* As in OutboxRelay for relays.  A consumer that is up takes its next step, the
   group assigns a partition that nobody has, and a member that never reads is
   put out; nothing makes a consumer that has ended start again. *)
MessagingFairness ==
    /\ \A r \in Relays :
          /\ WF_vars(side = "producing" /\ Fetch(r))
          /\ WF_vars(side = "producing" /\ \E e \in Events : Send(r, e))
          /\ WF_vars(side = "producing" /\ CommitBatch(r))
    /\ \A c \in Consumers :
          /\ WF_consumerVars(side = "consuming" /\ Step(c))
          /\ WF_consumerVars(side = "consuming" /\ Expire(c))
    /\ \A p \in Partitions :
          WF_consumerVars(/\ side = "consuming" /\ owner[p] = NoOne
                          /\ \E c \in Consumers : Assign(p, c))

FairMessagingSpec == MessagingSpec /\ MessagingFairness

-----------------------------------------------------------------------------
(* Both ends get on: while a relay is up every committed event is settled, and
   while a consumer is up every message of its topic ends somewhere. *)
EverythingSettles ==
    /\ EveryEventSettles
    /\ side = "consuming" => EveryMessageEnds
=============================================================================
