------------------------------ MODULE Shipments ------------------------------
(***************************************************************************)
(* shipment_service: shipments and the tracking events that move them.     *)
(*                                                                         *)
(* A tracking event inserts itself, overwrites the shipment's status and   *)
(* schedules an outbox row in one transaction.  Nothing compares it with   *)
(* the events before it: the last commit wins, whenever its event          *)
(* occurred.  The relay publishes the rows by created_at, which PostgreSQL *)
(* sets to the start of the transaction and not to its commit.             *)
(***************************************************************************)
EXTENDS Integers, Sequences

CONSTANTS
    Shipments,  \* ids of shipments
    ScanTypes,  \* the event types that are scanned
    Scans,      \* requests that can be in flight together
    Times,      \* values of occurred_at, of estimates and predictions, in days
    Spots,      \* positions
    ScanSpots,  \* positions that scans bring, or "none"
    MaxScans    \* bound: tracking events in all

ASSUME ShipmentAssumption ==
    ScanSpots \subseteq Spots \cup {"none"} /\ Times \subseteq Nat \ {0} /\ MaxScans \in Nat

VARIABLES
    shipment, \* shipment[s]: its committed row; 0 stands for a date that is NULL
    trail,    \* trail[s]: committed tracking events of s, in commit order
    scan,     \* scan[q]: the tracking event that q is adding
    untold,   \* untold[s]: events of s whose outbox row is not published
    told,     \* told[s]: events published for s, in order
    failed,   \* failed[s]: a send of the relay failed
    clock     \* transactions begun so far

shipmentVars == <<shipment, trail, scan, untold, told, failed, clock>>

EventTypes == {"picked_up", "departed", "arrived", "in_transit", "customs_cleared",
               "customs_hold", "out_for_delivery", "delivered", "exception", "returned"}

(* Mutant: every event is taken for a status. *)
EventToStatusRaw(event) == event

EventToStatus(event) ==
    IF event \in {"departed", "arrived", "customs_cleared"} THEN "in_transit" ELSE event
ShipmentStatus == {"pending", "picked_up", "in_transit", "out_for_delivery",
                   "customs_hold", "exception", "delivered", "returned"}

NoShipment == [status |-> "none", spot |-> "none", eta |-> 0, arrival |-> 0]
NoScan == [shipment |-> "none"]

ShipmentsTypeOK ==
    /\ shipment \in [Shipments -> {NoShipment} \cup
          [status : ShipmentStatus, spot : Spots \cup {"none"},
           eta : Times \cup {0}, arrival : Times \cup {0}]]
    /\ \A s \in Shipments :
          /\ untold[s] \subseteq DOMAIN trail[s]
          /\ \A i \in DOMAIN trail[s] :
                trail[s][i].event \in EventTypes /\ trail[s][i].at \in Times
    /\ told \in [Shipments -> Seq(Nat)]
    /\ failed \in [Shipments -> BOOLEAN]
    /\ clock \in 0..MaxScans

ShipmentsInit ==
    /\ shipment = [s \in Shipments |-> NoShipment]
    /\ trail = [s \in Shipments |-> <<>>]
    /\ scan = [q \in Scans |-> NoScan]
    /\ untold = [s \in Shipments |-> {}] /\ told = [s \in Shipments |-> <<>>]
    /\ failed = [s \in Shipments |-> FALSE]
    /\ clock = 0

CreateShipment(s, eta) ==
    /\ shipment[s] = NoShipment
    /\ shipment' = [shipment EXCEPT ![s] =
          [status |-> "pending", spot |-> "none", eta |-> eta, arrival |-> 0]]
    /\ UNCHANGED <<trail, scan, untold, told, failed, clock>>

(* update_shipment, when it brings an estimate. *)
UpdateShipment(s, eta) ==
    /\ shipment[s] # NoShipment
    /\ shipment' = [shipment EXCEPT ![s].eta = eta]
    /\ UNCHANGED <<trail, scan, untold, told, failed, clock>>

(* A request begins its transaction, which dates its outbox row. *)
BeginScan(q, s, event, at, spot) ==
    /\ scan[q] = NoScan /\ shipment[s] # NoShipment /\ clock < MaxScans
    /\ clock' = clock + 1
    /\ scan' = [scan EXCEPT ![q] =
          [shipment |-> s, event |-> event, at |-> at, spot |-> spot, began |-> clock']]
    /\ UNCHANGED <<shipment, trail, untold, told, failed>>

(* Mutant: an event that is not a delivery clears the arrival. *)
ScannedClearing(row, x) ==
    [row EXCEPT !.status = EventToStatus(x.event),
                !.spot = IF x.spot = "none" THEN @ ELSE x.spot,
                !.arrival = IF x.event = "delivered" THEN x.at ELSE 0]

(* The row after an event: COALESCE keeps what the event does not bring. *)
Scanned(row, x) ==
    [row EXCEPT !.status = EventToStatus(x.event),
                !.spot = IF x.spot = "none" THEN @ ELSE x.spot,
                !.arrival = IF x.event = "delivered" THEN x.at ELSE @]

(* add_tracking_event up to its commit.  The direct send that follows has another
   key than the outbox row and so no order with it; it is left out. *)
CommitScan(q) ==
    LET x == scan[q]
        s == x.shipment IN
    /\ scan[q] # NoScan
    /\ trail' = [trail EXCEPT ![s] = Append(@,
          [event |-> x.event, at |-> x.at, began |-> x.began, ended |-> clock])]
    /\ shipment' = [shipment EXCEPT ![s] = Scanned(@, x)]
    /\ untold' = [untold EXCEPT ![s] = @ \cup {Len(trail'[s])}]
    /\ scan' = [scan EXCEPT ![q] = NoScan]
    /\ UNCHANGED <<told, failed, clock>>

FailScan(q) ==
    /\ scan[q] # NoScan
    /\ scan' = [scan EXCEPT ![q] = NoScan]
    /\ UNCHANGED <<shipment, trail, untold, told, failed, clock>>

(* The rows that the relay sends before row i. *)
Earlier(s, i) == {j \in untold[s] : trail[s][j].began < trail[s][i].began}

(* The relay publishes a row; it has tried the earlier ones of its batch, failed
   and will try them again. *)
Publish(s, i) ==
    /\ i \in untold[s]
    /\ untold' = [untold EXCEPT ![s] = @ \ {i}]
    /\ told' = [told EXCEPT ![s] = Append(@, i)]
    /\ failed' = [failed EXCEPT ![s] = @ \/ Earlier(s, i) # {}]
    /\ UNCHANGED <<shipment, trail, scan, clock>>

ShipmentsNext ==
    \/ \E s \in Shipments, t \in Times : UpdateShipment(s, t)
    \/ \E s \in Shipments, t \in Times \cup {0} : CreateShipment(s, t)
    \/ \E q \in Scans, s \in Shipments, e \in ScanTypes \cap EventTypes, t \in Times,
          p \in ScanSpots : BeginScan(q, s, e, t, p)
    \/ \E q \in Scans : CommitScan(q) \/ FailScan(q)
    \/ \E s \in Shipments : \E i \in untold[s] : Publish(s, i)

-----------------------------------------------------------------------------
(* Reads. *)

(* predict_eta: the risk of delay of a shipment whose arrival is predicted. *)
DelayRisk(row, predicted) ==
    IF row.arrival # 0 THEN "low"
    ELSE IF row.status \in {"customs_hold", "exception"} THEN "high"
    ELSE IF row.eta # 0 /\ predicted > row.eta + 3 THEN "high"
    ELSE IF row.eta # 0 /\ predicted > row.eta THEN "medium"
    ELSE "low"

-----------------------------------------------------------------------------
(* Properties. *)

Deliveries(s) == {i \in DOMAIN trail[s] : trail[s][i].event = "delivered"}

(* i began when every other event of s had been committed. *)
Alone(s, i) == \A j \in 1..(i - 1) : trail[s][j].ended < trail[s][i].began

(* An arrival, once known, stays known through whatever is scanned later: it is
   that of the delivery committed last, it is missing only where none was, and it
   alone answers a question for the ETA. *)
ArrivalKnown ==
    \A s \in Shipments :
       /\ shipment[s].arrival # 0 <=> Deliveries(s) # {}
       /\ \A i \in Deliveries(s) : (\A j \in Deliveries(s) : j <= i) =>
             shipment[s].arrival = trail[s][i].at
       /\ \A t \in Times :
             /\ DelayRisk(shipment[s], t) # "low" => Deliveries(s) = {}
             /\ shipment[s].status \in {"customs_hold", "exception"} =>
                   DelayRisk(shipment[s], t) = IF Deliveries(s) = {} THEN "high" ELSE "low"

(* When the relay has published everything, the message that comes last tells the
   status of the shipment, unless the last transaction overlapped an earlier one
   or a send failed: rows are ordered by the start of their transactions. *)
LastWordIsStatus ==
    \A s \in Shipments :
       LET n == Len(trail[s]) IN
       (n > 0 /\ untold[s] = {} /\ ~failed[s] /\ Alone(s, n)) =>
          EventToStatus(trail[s][told[s][Len(told[s])]].event) = shipment[s].status

(* Tracking keeps what was delivered and what was told in step although events
   are applied in the order they arrive. *)
ShipmentsKept == ArrivalKnown /\ LastWordIsStatus

=============================================================================
