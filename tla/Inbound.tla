------------------------------ MODULE Inbound ------------------------------
(***************************************************************************)
(* What reaches the platform from outside: the integration service's       *)
(* webhooks and ERP sync, and the visibility service's purchase orders,    *)
(* shipments and telemetry.                                                *)
(*                                                                         *)
(* No topic or table connects them (visibility reads erp.purchase_orders,  *)
(* the sync writes integration.erp.events), save readings that move the    *)
(* shipment they name, so they are checked one part at a time: "focus" is  *)
(* chosen at the start and only the part it names takes steps, telemetry   *)
(* with the shipments that are created meanwhile.                          *)
(***************************************************************************)
EXTENDS PurchaseOrders, Telemetry, Webhooks, ErpSync

VARIABLE focus  \* the part that takes steps

visibilityVars == <<orderVars, shipmentVars, telemetryVars>>
vars == <<visibilityVars, hookVars, erpVars, focus>>

TypeOK ==
    /\ OrdersTypeOK /\ ShipmentsTypeOK /\ TelemetryTypeOK
    /\ WebhooksTypeOK /\ ErpTypeOK
    /\ focus \in {"orders", "tracking", "telemetry", "webhooks", "erp"}

Init ==
    /\ focus \in {"orders", "tracking", "telemetry", "webhooks", "erp"}
    /\ OrdersInit /\ ShipmentsInit /\ TelemetryInit /\ WebhooksInit /\ ErpInit

Ordering ==
    /\ focus = "orders" /\ OrdersNext
    /\ UNCHANGED <<shipmentVars, telemetryVars, hookVars, erpVars>>
Tracking ==
    /\ focus = "tracking" /\ ShipmentsNext
    /\ UNCHANGED <<orderVars, telemetryVars, hookVars, erpVars>>
Reporting ==
    /\ focus = "telemetry" /\ UNCHANGED <<orderVars, hookVars, erpVars>>
    /\ \/ TelemetryNext /\ UNCHANGED <<trail, scan, untold, told, failed, clock>>
       \/ UNCHANGED telemetryVars /\ \E s \in Shipments : CreateShipment(s, 0)
Receiving ==
    focus = "webhooks" /\ WebhooksNext /\ UNCHANGED <<visibilityVars, erpVars>>
Syncing ==
    focus = "erp" /\ ErpNext /\ UNCHANGED <<visibilityVars, hookVars>>

Next ==
    UNCHANGED focus /\ (Ordering \/ Tracking \/ Reporting \/ Receiving \/ Syncing)

Spec == Init /\ [][Next]_vars

=============================================================================
