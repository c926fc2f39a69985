------------------------------ MODULE Telemetry ------------------------------
(***************************************************************************)
(* telemetry_service and its consumer: readings of IoT devices, the alerts *)
(* and fence crossings they announce, and where they put the shipment.     *)
(*                                                                         *)
(* process_telemetry announces first, each message by an unguarded send,   *)
(* and stores the reading at the end.  The consumer swallows a failure and *)
(* goes on with the next reading; it commits no offset, so that a restart  *)
(* reads the topic again from the start.                                   *)
(***************************************************************************)
EXTENDS Shipments, FiniteSets

CONSTANTS
    Readings,     \* ids of readings that devices send
    Reading,      \* Reading[m]: what reading m says
    IotLog,       \* the topic iot.telemetry: a sequence of readings
    Iot,          \* its consumer
    Posts,        \* REST requests that can be in flight together
    Devices,      \* device ids
    Fences,       \* ids of geofences
    Polygon,      \* Polygon[f]: {the positions inside its polygon}, or {}
    Box,          \* Box[f]: {the positions inside its bounding box}, or {}
    MaxPosts,     \* bound: REST requests in all
    MaxRereads    \* bound: restarts of the consumer

ASSUME TelemetryAssumption ==
    /\ Iot \notin Posts /\ IsFiniteSet(Posts)
    /\ IotLog \in Seq(Readings)
    /\ "none" \notin Readings \cup Fences
    /\ MaxPosts \in Nat /\ MaxRereads \in Nat

(* A reading carries at most one position. *)
ASSUME ReadingsAssumption ==
    \A m \in Readings :
       LET r == Reading[m] IN
       /\ r.spot \in {{}} \cup {{p} : p \in Spots}
       /\ r.fence \in Fences \cup {"none"} /\ r.shipment \in Shipments \cup {"none"}
       /\ r.device \in Devices

VARIABLES
    fences,    \* active geofences
    device,    \* device[d]: the shipment it is linked to, "none" or "unknown"
    job,       \* job[w]: the reading that w processes
    taken,     \* readings of IotLog that the consumer has taken
    stored,    \* stored[m]: the fences in the rows of reading m
    announced, \* announced[m]: alerts and crossings sent for m, with repetitions
    broken,    \* broken[m]: jobs on m that failed or were lost
    posts,     \* REST requests so far
    rereads    \* restarts so far

telemetryVars ==
    <<fences, device, job, taken, stored, announced, broken, posts, rereads>>

Alerts == <<"temperature_breach", "humidity_breach", "shock_detected">>
Kinds == {Alerts[i] : i \in DOMAIN Alerts}

(* The alerts of a reading; a value it does not carry is an empty set. *)
Breaches(r) ==
    {k \in Kinds :
       \/ r.event = k
       \/ k = "temperature_breach" /\ \E t \in r.temperature : t < -5 \/ t > 30
       \/ k = "humidity_breach" /\ \E h \in r.humidity : h > 85
       \/ k = "shock_detected" /\ \E g \in r.shock : g > 5}

(* A polygon, even one that cannot be parsed, is preferred to a bounding box. *)
Inside(f, spot) ==
    \E region \in IF Polygon[f] # {} THEN Polygon[f] ELSE Box[f] : spot \in region

NoJob == [reading |-> "none", todo |-> <<>>, fence |-> "none"]
Workers == Posts \cup {Iot}
Messages == ({"alert"} \X Kinds) \cup ({"enter", "exit"} \X Fences)

TelemetryTypeOK ==
    /\ fences \subseteq Fences
    /\ device \in [Devices -> Shipments \cup {"none", "unknown"}]
    /\ \A w \in Workers : job[w] = NoJob \/ job[w].reading \in Readings
    /\ taken \in 0..Len(IotLog)
    /\ \A m \in Readings : \A i \in DOMAIN stored[m] : stored[m][i] \in Fences \cup {"none"}
    /\ announced \in [Readings -> [Messages -> Nat]]
    /\ broken \in [Readings -> Nat]
    /\ posts \in 0..MaxPosts /\ rereads \in 0..MaxRereads

TelemetryInit ==
    /\ fences = {}
    /\ device = [d \in Devices |-> "unknown"]
    /\ job = [w \in Workers |-> NoJob]
    /\ taken = 0
    /\ stored = [m \in Readings |-> <<>>]
    /\ announced = [m \in Readings |-> [x \in Messages |-> 0]]
    /\ broken = [m \in Readings |-> 0]
    /\ posts = 0 /\ rereads = 0

-----------------------------------------------------------------------------
(* Fences and devices. *)

CreateGeofence(f) ==
    /\ f \notin fences
    /\ fences' = fences \cup {f}
    /\ UNCHANGED <<shipment, device, job, taken, stored, announced, broken, posts, rereads>>

(* COALESCE: a value that is not brought leaves the row as it is. *)
Linked(old, new) == IF new = "none" THEN (IF old = "unknown" THEN "none" ELSE old) ELSE new

(* register_device, which also updates one that is known. *)
RegisterDevice(d, s) ==
    /\ device' = [device EXCEPT ![d] = Linked(@, s)]
    /\ device' # device
    /\ UNCHANGED <<shipment, fences, job, taken, stored, announced, broken, posts, rereads>>

-----------------------------------------------------------------------------
(* Processing a reading. *)

Due(r) ==
    LET due(k) == IF k \in Breaches(r) THEN <<k>> ELSE <<>>
    IN  due(Alerts[1]) \o due(Alerts[2]) \o due(Alerts[3])

Starts(w, m) ==
    job' = [job EXCEPT ![w] =
        [reading |-> m, todo |-> Append(Due(Reading[m]), "fence"), fence |-> Reading[m].fence]]

(* The consumer takes the next message. *)
TakeReading ==
    /\ job[Iot] = NoJob /\ taken < Len(IotLog)
    /\ taken' = taken + 1
    /\ Starts(Iot, IotLog[taken + 1])
    /\ UNCHANGED <<shipment, fences, device, stored, announced, broken, posts, rereads>>

(* ingest_telemetry. *)
PostReading(w, m) ==
    /\ w \in Posts /\ job[w] = NoJob /\ posts < MaxPosts
    /\ posts' = posts + 1
    /\ Starts(w, m)
    /\ UNCHANGED <<shipment, fences, device, taken, stored, announced, broken, rereads>>

(* A failing send or statement ends the job; the send may have arrived. *)
Abort(w) ==
    /\ broken' = [broken EXCEPT ![job[w].reading] = @ + 1]
    /\ job' = [job EXCEPT ![w] = NoJob]

Announces(w, x) == announced' = [announced EXCEPT ![job[w].reading][x] = @ + 1]

(* Mutant: a failing send is logged and the job goes on. *)
SentGuarded(w, x, next) ==
    /\ Announces(w, x) \/ UNCHANGED announced
    /\ job' = [job EXCEPT ![w] = next]
    /\ UNCHANGED broken

Sent(w, x, next) ==
    \/ Announces(w, x) /\ job' = [job EXCEPT ![w] = next] /\ UNCHANGED broken
    \/ Announces(w, x) /\ Abort(w)
    \/ UNCHANGED announced /\ Abort(w)

(* _emit_telemetry_alert. *)
EmitAlert(w) ==
    LET j == job[w] IN
    /\ j # NoJob /\ Len(j.todo) > 1
    /\ Sent(w, <<"alert", Head(j.todo)>>, [j EXCEPT !.todo = Tail(@)])
    /\ UNCHANGED <<shipment, fences, device, taken, stored, posts, rereads>>

(* _evaluate_geofence: the first active fence that holds the position, in no set
   order; the previous fence is the one that the reading itself names. *)
EvaluateGeofence(w) ==
    LET j == job[w]
        r == Reading[j.reading]
        Holding == {f \in fences : \E p \in r.spot : Inside(f, p)}
        Leads(f) == [j EXCEPT !.todo = <<>>, !.fence = f] IN
    /\ j # NoJob /\ Len(j.todo) = 1
    /\ \/ /\ r.spot = {} \/ r.fence \in Holding \/ (Holding = {} /\ r.fence = "none")
          /\ job' = [job EXCEPT ![w] = Leads(r.fence)]
          /\ UNCHANGED <<announced, broken>>
       \/ r.spot # {} /\ \E f \in Holding \ {r.fence} : Sent(w, <<"enter", f>>, Leads(f))
       \/ /\ r.spot # {} /\ Holding = {} /\ r.fence # "none"
          /\ Sent(w, <<"exit", r.fence>>, Leads("none"))
    /\ UNCHANGED <<shipment, fences, device, taken, stored, posts, rereads>>

(* ON CONFLICT DO NOTHING: the id is new, so that there never is a conflict. *)
StoresRow(w) == stored' = [stored EXCEPT ![job[w].reading] = Append(@, job[w].fence)]

(* The INSERT, the two UPDATEs and the commit. *)
StoreReading(w) ==
    LET j == job[w]
        r == Reading[j.reading] IN
    /\ j # NoJob /\ j.todo = <<>>
    /\ StoresRow(w)
    /\ device' = [device EXCEPT ![r.device] =
          IF @ = "unknown" THEN @ ELSE Linked(@, r.shipment)]
    /\ shipment' = [s \in Shipments |->
          IF s = r.shipment /\ shipment[s] # NoShipment /\ r.spot # {}
          THEN [shipment[s] EXCEPT !.spot = CHOOSE p \in r.spot : TRUE] ELSE shipment[s]]
    /\ job' = [job EXCEPT ![w] = NoJob]
    /\ UNCHANGED <<fences, taken, announced, broken, posts, rereads>>

FailStore(w) ==
    /\ job[w] # NoJob /\ job[w].todo = <<>>
    /\ Abort(w)
    /\ UNCHANGED <<shipment, fences, device, taken, stored, announced, posts, rereads>>

(* The process restarts; its group has no committed offset. *)
RestartIot ==
    /\ rereads < MaxRereads
    /\ rereads' = rereads + 1
    /\ taken' = 0
    /\ IF job[Iot] = NoJob THEN UNCHANGED <<job, broken>> ELSE Abort(Iot)
    /\ UNCHANGED <<shipment, fences, device, stored, announced, posts>>

TelemetryNext ==
    \/ \E f \in Fences : CreateGeofence(f)
    \/ \E d \in Devices, s \in Shipments \cup {"none"} : RegisterDevice(d, s)
    \/ TakeReading \/ RestartIot
    \/ \E w \in Posts, m \in Readings : PostReading(w, m)
    \/ \E w \in Workers :
          EmitAlert(w) \/ EvaluateGeofence(w) \/ StoreReading(w) \/ FailStore(w)

-----------------------------------------------------------------------------
(* Properties. *)

ReadingRows(m) == DOMAIN stored[m]
Working(m) == {w \in Workers : job[w].reading = m}

(* What a stored reading says was announced: each of its alerts once a row at
   least, and the crossing into or out of the fence in its row. *)
RowsAnnounced ==
    \A m \in Readings :
       LET r == Reading[m] IN
       /\ \A k \in Breaches(r) : announced[m][<<"alert", k>>] >= Len(stored[m])
       /\ \A i \in ReadingRows(m) : stored[m][i] # r.fence =>
             announced[m][IF stored[m][i] = "none" THEN <<"exit", r.fence>>
                          ELSE <<"enter", stored[m][i]>>] > 0
       /\ \A i \in ReadingRows(m), p \in r.spot : stored[m][i] # "none" => Inside(stored[m][i], p)

(* An announcement without a row, and a reading the consumer has passed that has
   none, both go back to a failure or a restart. *)
MissingRowsExcused ==
    \A m \in Readings : broken[m] = 0 =>
       /\ \A x \in Messages : announced[m][x] <= Len(stored[m]) + Cardinality(Working(m))
       /\ \A i \in 1..taken : IotLog[i] = m => stored[m] # <<>> \/ job[Iot].reading = m

(* A reading within the thresholds raises no alert. *)
NoFalseAlert ==
    \A m \in Readings :
       LET r == Reading[m] IN
       (/\ r.event \notin Kinds
        /\ r.temperature \subseteq -5..30 /\ r.humidity \subseteq 0..85
        /\ r.shock \subseteq 0..5) =>
          \A k \in Kinds : announced[m][<<"alert", k>>] = 0

(* The telemetry table and the announcements account for each other although
   they are not written together. *)
TelemetryAccounted == RowsAnnounced /\ MissingRowsExcused /\ NoFalseAlert

=============================================================================
