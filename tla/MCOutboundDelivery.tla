------------------------- MODULE MCOutboundDelivery -------------------------
(* Outbound delivery on two instances, chosen at the start.
   One push, with all that can happen to it: two attempts by a push and a
   worker, sweeps, ageing, two faults.
   Three pushes to one endpoint at once: with a threshold of two, the result
   of the third reaches a breaker that the others have opened, or that is
   half open or closed again by then.  The endpoint is deleted before the
   first attempt is on record, so that no sweep finds one. *)
EXTENDS OutboundDelivery, FiniteSets, TLC

CONSTANTS e1, e2, e3, p1, w1

MCEvents == {e1, e2, e3}
MCEndpoints == {p1}
MCWorkers == {w1}
MCBreakers == ({Api} \cup MCWorkers) \X MCEndpoints

VARIABLE pushed \* the events pushed in this instance

MCInit == Init /\ pushed \in {{e1}, MCEvents}

MCNext ==
    /\ Next
    /\ \A e \in MCEvents \ pushed : answer'[e] = "none"
    /\ pushed = MCEvents => /\ attempts' # {} => registered' = {}
                            /\ \A r \in attempts : ~Age(r)
    /\ UNCHANGED pushed

MCSpec == MCInit /\ [][MCNext]_<<vars, pushed>> /\ FairnessFor({e1})
=============================================================================
