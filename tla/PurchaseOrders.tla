--------------------------- MODULE PurchaseOrders ---------------------------
(***************************************************************************)
(* po_service and the consumers that drive it: purchase orders of one      *)
(* supplier, changed by API requests, by messages of the ERP and by        *)
(* supplier events.                                                        *)
(*                                                                         *)
(* Applying an event reads the order, looks the transition up, and updates *)
(* the order by id, whatever it has become; lines, status and outbox row   *)
(* commit together.  The consumers of the ERP's topic commit no offset, so *)
(* that whoever has its partition after a rebalance reads it from the      *)
(* start, while the one that had it finishes the message in hand.          *)
(***************************************************************************)
EXTENDS Integers, Sequences, FiniteSets

CONSTANTS
    Orders,       \* ids of purchase orders of one number, one line each
    Requests,     \* API requests that can be in flight together
    Erp,          \* processes, one consumer of erp.purchase_orders in each
    ErpLog,       \* its partition: <<"created">> or <<"status", order, event>>
    Pasts,        \* sequences of transitions an order may have behind it at first
    MaxOrderCalls \* bound: API requests and rebalances in all

ASSUME OrderAssumption ==
    Erp \cap Requests = {} /\ Erp # {} /\ MaxOrderCalls \in Nat

VARIABLES
    order,      \* order[p]: the committed row of p and its line, or NoOrder
    outbox,     \* outbox[p]: committed outbox rows of p, oldest first
    sent,       \* sent[p]: events of p sent directly
    work,       \* work[q]: what q does and has read
    orderCalls, \* API requests so far
    owner,      \* the process that has the partition
    offset,     \* messages of ErpLog that it has taken
    rebalances  \* rebalances so far

groupVars == <<owner, offset, rebalances>>
orderVars == <<order, outbox, sent, work, orderCalls, groupVars>>

(* PO_TRANSITIONS. *)
PO_TRANSITIONS ==
    {<<"draft", "confirm", "confirmed">>,
     <<"confirmed", "ship_partial", "partially_shipped">>,
     <<"confirmed", "ship_complete", "shipped">>,
     <<"partially_shipped", "ship_partial", "partially_shipped">>,
     <<"partially_shipped", "ship_complete", "shipped">>,
     <<"shipped", "receive_partial", "partially_received">>,
     <<"shipped", "receive_complete", "received">>,
     <<"partially_received", "receive_partial", "partially_received">>,
     <<"partially_received", "receive_complete", "received">>,
     <<"draft", "cancel", "cancelled">>, <<"confirmed", "cancel", "cancelled">>,
     <<"shipped", "dispute", "disputed">>,
     <<"partially_received", "dispute", "disputed">>,
     <<"received", "dispute", "disputed">>, <<"disputed", "resolve", "received">>}

POStatus == {t[1] : t \in PO_TRANSITIONS} \cup {t[3] : t \in PO_TRANSITIONS}
Events == {t[2] : t \in PO_TRANSITIONS}
Ships == {"ship_partial", "ship_complete"}
Receives == {"receive_partial", "receive_complete"}
TERMINAL == {"received", "cancelled"}

ASSUME OrderInputAssumption ==
    /\ \A past \in Pasts :
          /\ past \in Seq(PO_TRANSITIONS)
          /\ \A i \in DOMAIN past :
                past[i][1] = IF i = 1 THEN "draft" ELSE past[i - 1][3]
    /\ ErpLog \in Seq({<<"created">>} \cup ({"status"} \X Orders \X Events))

(* _timestamp_columns: the columns an event stamps. *)
Stamps(event) ==
    (IF event \in {"confirm", "cancel"} THEN {event} ELSE {})
    \cup (IF event \in Ships THEN {"first_shipped"} ELSE {})
    \cup (IF event \in Receives THEN {"first_received"} ELSE {})
    \cup (IF event = "ship_complete" THEN {"fully_shipped"} ELSE {})
    \cup (IF event = "receive_complete" THEN {"fully_received"} ELSE {})

NoOrder == [status |-> "none"]
NoWork == [op |-> "none", order |-> "none", row |-> <<>>, read |-> "none", qty |-> 0,
           term |-> 0]

OrdersTypeOK ==
    /\ \A p \in Orders : order[p] # NoOrder =>
          /\ order[p].status \in POStatus /\ order[p].by \in {"api", "erp", "late"}
          /\ order[p].shipped \in Nat /\ order[p].received \in Nat
          /\ order[p].stamps \subseteq UNION {Stamps(e) : e \in Events}
          /\ order[p].edits \in Nat /\ order[p].flagged \in BOOLEAN
    /\ outbox \in [Orders -> Seq(PO_TRANSITIONS \X {0, 1})]
    /\ sent \in [Orders -> Nat]
    /\ \A q \in Requests \cup Erp :
          work[q].op \in {"none", "event", "edit", "create", "send"}
    /\ orderCalls \in 0..MaxOrderCalls
    /\ owner \in Erp /\ offset \in 0..Len(ErpLog)
    /\ rebalances \in 0..MaxOrderCalls

-----------------------------------------------------------------------------
(* The service. *)

Draft(by) == [status |-> "draft", by |-> by, shipped |-> 0, received |-> 0,
              stamps |-> {}, edits |-> 0, flagged |-> FALSE]

(* create_purchase_order: nothing looks for another order of that number. *)
InsertOrder(p, by) ==
    /\ order[p] = NoOrder
    /\ order' = [order EXCEPT ![p] = Draft(by)]
    /\ UNCHANGED <<outbox, sent>>

(* The transition of an event from the status that was read. *)
Transitions(p, event) == {t \in PO_TRANSITIONS : t[1] = order[p].status /\ t[2] = event}

(* "term", history: the rebalances before a number was looked for. *)
HasRead(q, op, p, row, qty) ==
    work' = [work EXCEPT ![q] =
        [op |-> op, order |-> p, row |-> row, read |-> order[p].status, qty |-> qty,
         term |-> IF op = "create" THEN rebalances ELSE 0]]

(* Mutant: the quantity received is computed from a stale one. *)
AppliedToRead(now, t, qty) ==
    [now EXCEPT !.status = t[3], !.stamps = @ \cup Stamps(t[2]),
                !.shipped = IF t[2] \in Ships THEN @ + qty ELSE @,
                !.received = IF t[2] \in Ships \/ qty = 0 THEN @ ELSE qty]

(* The UPDATEs of the order and of its line: every event that is not a shipment
   adds to the quantity received. *)
Applied(now, t, qty) ==
    [now EXCEPT !.status = t[3], !.stamps = @ \cup Stamps(t[2]),
                !.shipped = IF t[2] \in Ships THEN @ + qty ELSE @,
                !.received = IF t[2] \in Ships THEN @ ELSE @ + qty]

(* At first there is no order, or one that was created and changed by requests
   that moved no goods and whose direct sends failed. *)
Changed(past) ==
    [Draft("api") EXCEPT !.status = IF past = <<>> THEN @ ELSE past[Len(past)][3],
                         !.stamps = UNION {Stamps(past[i][2]) : i \in DOMAIN past}]

OrdersInit ==
    /\ \/ order = [p \in Orders |-> NoOrder] /\ outbox = [p \in Orders |-> <<>>]
       \/ \E first \in Orders, past \in Pasts :
             /\ order = [p \in Orders |-> IF p # first THEN NoOrder ELSE Changed(past)]
             /\ outbox = [p \in Orders |-> IF p # first THEN <<>>
                   ELSE [i \in DOMAIN past |-> <<past[i], 0>>]]
    /\ sent = [p \in Orders |-> 0]
    /\ work = [q \in Requests \cup Erp |-> NoWork]
    /\ orderCalls = 0 /\ owner = (CHOOSE c \in Erp : TRUE) /\ offset = 0 /\ rebalances = 0

(* apply_po_event from its first UPDATE, which waits for the row lock, to its
   commit. *)
ApplyEvent(q) ==
    LET p == work[q].order
        t == work[q].row IN
    /\ work[q].op = "event"
    /\ order' = [order EXCEPT ![p] = Applied(@, t, work[q].qty)]
    /\ outbox' = [outbox EXCEPT ![p] = Append(@, <<t, work[q].qty>>)]
    /\ work' = [work EXCEPT ![q].op = "send"]
    /\ UNCHANGED <<sent, orderCalls, groupVars>>

(* The direct send, after the commit; a failure is logged. *)
SendEvent(q) ==
    /\ work[q].op = "send"
    /\ \E n \in {0, 1} : sent' = [sent EXCEPT ![work[q].order] = @ + n]
    /\ work' = [work EXCEPT ![q] = NoWork]
    /\ UNCHANGED <<order, outbox, orderCalls, groupVars>>

Editable(p) == order[p] # NoOrder /\ order[p].status \notin TERMINAL

(* update_purchase_order: the UPDATE does not look at the status again. *)
ApplyEdit(q) ==
    /\ work[q].op = "edit"
    /\ order' = [order EXCEPT ![work[q].order].edits = @ + 1]
    /\ work' = [work EXCEPT ![q] = NoWork]
    /\ UNCHANGED <<outbox, sent, orderCalls, groupVars>>

-----------------------------------------------------------------------------
(* API requests. *)

Begin(q) ==
    /\ q \in Requests /\ work[q] = NoWork /\ orderCalls + rebalances < MaxOrderCalls
    /\ orderCalls' = orderCalls + 1
    /\ UNCHANGED groupVars

CreateOrder(q, p) == Begin(q) /\ InsertOrder(p, "api") /\ UNCHANGED work

RequestEvent(q, p, event, qty) ==
    /\ Begin(q)
    /\ \E t \in Transitions(p, event) : HasRead(q, "event", p, t, qty)
    /\ UNCHANGED <<order, outbox, sent>>

RequestEdit(q, p) ==
    /\ Begin(q) /\ Editable(p)
    /\ HasRead(q, "edit", p, <<>>, 0)
    /\ UNCHANGED <<order, outbox, sent>>

(* A request or a message fails before its commit and changes nothing. *)
FailWork(q) ==
    /\ work[q].op \in {"event", "edit", "create"}
    /\ work' = [work EXCEPT ![q] = NoWork]
    /\ UNCHANGED <<order, outbox, sent, orderCalls, groupVars>>

-----------------------------------------------------------------------------
(* Messages. *)

Exists == \E p \in Orders : order[p] # NoOrder

(* The process that has the partition takes the next message when it is done
   with the one in hand.  A number that exists and an event that does not apply
   end it; other errors are logged and the message is over. *)
TakeMessage(c, p) ==
    LET msg == ErpLog[offset + 1] IN
    /\ c = owner /\ offset < Len(ErpLog) /\ work[c] = NoWork
    /\ offset' = offset + 1
    /\ IF msg[1] = "created"
       THEN /\ order[p] = NoOrder
            /\ IF Exists THEN UNCHANGED work ELSE HasRead(c, "create", p, <<>>, 0)
       ELSE /\ p = msg[2]
            /\ IF Transitions(p, msg[3]) = {} THEN UNCHANGED work
               ELSE \E t \in Transitions(p, msg[3]) : HasRead(c, "event", p, t, 0)
    /\ UNCHANGED <<order, outbox, sent, orderCalls, owner, rebalances>>

(* create_purchase_order, some time after the number was looked for; the order is
   "late", history, when the partition was assigned anew in between. *)
CreateFromErp(c) ==
    /\ work[c].op = "create"
    /\ \E p \in Orders :
          InsertOrder(p, IF work[c].term = rebalances THEN "erp" ELSE "late")
    /\ work' = [work EXCEPT ![c] = NoWork]
    /\ UNCHANGED <<orderCalls, groupVars>>

(* A process joins, leaves or seems dead, and the partition goes to one of them;
   the group has no committed offset.  What those that stopped had in hand is
   gone, the others go on with it. *)
Rebalance(stopped, next) ==
    /\ orderCalls + rebalances < MaxOrderCalls
    /\ rebalances' = rebalances + 1
    /\ owner' = next
    /\ offset' = 0
    /\ work' = [q \in Requests \cup Erp |-> IF q \in stopped THEN NoWork ELSE work[q]]
    /\ UNCHANGED <<order, outbox, sent, orderCalls>>

(* consume_supplier_events: one UPDATE of the orders that are open. *)
FlagOrders ==
    /\ \E p \in Orders : Editable(p) /\ ~order[p].flagged
    /\ order' = [p \in Orders |->
          IF Editable(p) THEN [order[p] EXCEPT !.flagged = TRUE] ELSE order[p]]
    /\ UNCHANGED <<outbox, sent, work, orderCalls, groupVars>>

OrdersNext ==
    \/ \E q \in Requests, p \in Orders :
          \/ CreateOrder(q, p) \/ RequestEdit(q, p)
          \/ \E e \in Events, n \in {0, 1} : RequestEvent(q, p, e, n)
    \/ \E q \in Requests \cup Erp :
          ApplyEvent(q) \/ SendEvent(q) \/ ApplyEdit(q) \/ FailWork(q)
    \/ \E c \in Erp, p \in Orders : TakeMessage(c, p)
    \/ \E c \in Erp : CreateFromErp(c)
    \/ \E stopped \in SUBSET Erp, next \in Erp : Rebalance(stopped, next)
    \/ FlagOrders

-----------------------------------------------------------------------------
(* get_delivery_metrics counts an order as on time or late only with the stamp of
   a complete receipt. *)
Measured(p) == "fully_received" \in order[p].stamps

-----------------------------------------------------------------------------
(* Properties. *)

Rows(p) == DOMAIN outbox[p]
EventAt(p, i) == outbox[p][i][1][2]
(* An event moves one unit or none. *)
Quantity(p, kinds) ==
    Cardinality({i \in Rows(p) : EventAt(p, i) \in kinds /\ outbox[p][i][2] = 1})

(* The outbox rows of an order add up to its row: the last one tells its status,
   their quantities its quantities, their events its stamps; no event is sent
   directly that has no row; a received order that the metrics miss was received
   by resolving a dispute. *)
OutboxTellsOrder ==
    \A p \in Orders : order[p] # NoOrder =>
       /\ outbox[p] # <<>> => order[p].status = outbox[p][Len(outbox[p])][1][3]
       /\ order[p].shipped = Quantity(p, Ships)
       /\ order[p].received = Quantity(p, Events \ Ships)
       /\ order[p].stamps = UNION {Stamps(EventAt(p, i)) : i \in Rows(p)}
       /\ sent[p] <= Len(outbox[p])
       /\ order[p].status = "received" /\ ~Measured(p) =>
             \E i \in Rows(p) : EventAt(p, i) = "resolve"

(* A cancelled order stays cancelled, a received one is only disputed, and the
   header of either stays as it is, except for a request or a message that had
   read another status. *)
TerminalKept ==
    \A p \in Orders :
       (order[p].status \in TERMINAL /\ order'[p] # order[p]) =>
          \/ order[p].status = "received" /\ order'[p].status = "disputed"
          \/ \E q \in Requests \cup Erp :
                /\ work[q].op \in {"event", "edit"} /\ work'[q].op \notin {"event", "edit"}
                /\ work[q].order = p /\ work[q].read # order[p].status

(* However often the topic is read again, its consumers insert one order, but for
   those inserted by a consumer whose partition was assigned anew after it had
   looked for the number. *)
ErpOrderOnce ==
    \A p, r \in Orders : order[p] # NoOrder /\ order[r] # NoOrder /\ p # r =>
        ~(order[p].by = "erp" /\ order[r].by = "erp")

(* Purchase orders follow their events although apply_po_event updates by id
   what it checked before, quantities are added in the database, and the ERP's
   topic is replayed by whichever process has it. *)
OrdersKept == [](OutboxTellsOrder /\ ErpOrderOnce) /\ [][TerminalKept]_orderVars

=============================================================================
