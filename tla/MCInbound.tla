---------------------------- MODULE MCInbound -------------------------------
(* Two orders that can share a number; a shipment scanned three times; a device
   with a reading on its topic and one by REST, over fences that overlap; three
   requests to one webhook, one in a window of two milliseconds; two records of an ERP,
   and a worker and a request that pull them. *)
EXTENDS Inbound, TLC

CONSTANTS o1, o2, q1, q2, s1, d1, m1, m2, f1, f2, post, iot, e1, e2,
          h1, r1, r2, r3, x1, x2, k1, k2

MCErpLog == <<<<"created">>, <<"status", o1, "confirm">>>>

Delivered ==
    <<<<"draft", "confirm", "confirmed">>, <<"confirmed", "ship_complete", "shipped">>,
      <<"shipped", "receive_partial", "partially_received">>,
      <<"partially_received", "receive_complete", "received">>>>
MCPasts == {SubSeq(Delivered, 1, n) : n \in {0, 1, 2, 4}}

(* m1 breaks two limits inside both fences; m2 is at the limits, outside of them,
   and names the fence it was in. *)
MCReading ==
    m1 :> [event |-> "location_update", temperature |-> {31}, humidity |-> {}, shock |-> {6},
           spot |-> {"port"}, fence |-> "none", shipment |-> s1, device |-> d1]
    @@ m2 :> [event |-> "location_update", temperature |-> {30}, humidity |-> {85}, shock |-> {5},
              spot |-> {"sea"}, fence |-> f1, shipment |-> "none", device |-> d1]
MCIotLog == <<m1>>
MCPolygon == f1 :> {{"port"}} @@ f2 :> {}
MCBox == f1 :> {} @@ f2 :> {{"port"}}

(* What a behaviour of the sync is about, to keep them short: faults; a beat that
   waits; records that are booked under a date; or requests that meet the last beat. *)
Unasked == pull = [w \in Pullers |-> IF w \in SyncWorkers THEN NoPull ELSE Over]

FaultsAlone ==
    hours = Period /\ beats = 0 /\ breaks = 0 /\ dated = FALSE /\ Unasked
DelaysAlone ==
    hours = Period /\ beats = 1 /\ breaks = MaxBreaks /\ dated = FALSE /\ Unasked
DatesAlone ==
    hours = MaxHours - 1 /\ beats = 1 /\ breaks = MaxBreaks /\ dated = TRUE /\ Unasked
RequestsAlone ==
    /\ hours = MaxHours /\ beats = 1 /\ breaks = MaxBreaks /\ dated = FALSE
    /\ pull = [w \in Pullers |-> NoPull]

MCInit ==
    /\ Init
    /\ focus # "orders" => \A p \in Orders : order[p] = NoOrder
    /\ FaultsAlone \/ (focus = "erp" /\ (DelaysAlone \/ DatesAlone \/ RequestsAlone))

MCSpec == MCInit /\ [][Next]_vars

(* The run checks no liveness. *)
Symmetry == Permutations(Requests) \cup Permutations(Records)
=============================================================================
