---------------------------- MODULE MCMessaging ----------------------------
(* Two events in created_at order and two relays; a group of two consumers
   over two partitions, one of them with a second message, no envelope. *)
EXTENDS Messaging, TLC

CONSTANT p1

MCEvents == 1..2
MCLast == [p \in Partitions |-> IF p = p1 THEN 2 ELSE 1]
MCPoison == {<<p1, 2>>}
=============================================================================
