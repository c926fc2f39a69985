-------------------------- MODULE SupplierRegistry --------------------------
(***************************************************************************)
(* supplier_service: suppliers, their onboarding and their contacts.       *)
(*                                                                         *)
(* A request is one transaction at READ COMMITTED.  It reads the rows it   *)
(* checks, publishes its event directly, and writes at the router's        *)
(* commit: the ORM then updates, by id, the columns that differ from what  *)
(* it read, and inserts the event's outbox row, which the relay publishes  *)
(* a second time.  Nothing versions a row, so requests overlap.  The       *)
(* statements issued before the commit (the bulk update and the demotion   *)
(* of the other contacts) hold row locks until the transaction ends, and   *)
(* can deadlock.  Of the events only those that tell an onboarding status  *)
(* are kept: a creation and a transition.                                  *)
(***************************************************************************)
EXTENDS Integers

CONSTANTS
    Suppliers,  \* ids of suppliers, all with one name
    Countries,  \* values of country_code
    Contacts,   \* ids of contacts
    Statuses,   \* the values of VALID_STATUSES that bulk updates set
    Calls,      \* requests that can be in flight together
    MaxCalls    \* bound: requests in all

ASSUME RegistryAssumption ==
    /\ Suppliers \cap Contacts = {} /\ "none" \notin Suppliers \cup Contacts
    /\ Countries # {} /\ MaxCalls \in Nat
    /\ Statuses \subseteq {"draft", "active", "suspended", "deactivated", "banned", "inactive"}

VARIABLES
    supplier,   \* supplier[s]: the committed row of s, or NoRow
    contact,    \* contact[c]: the committed row of c, or NoRow
    call,       \* call[q]: what request q does and has read
    begun,      \* requests so far
    outbox,     \* event rows that wait for the relay
    topic,      \* topic[s]: onboarding status the last event tells of s
    excused,    \* history: suppliers whose events may be out of step
    moved,      \* history: suppliers whose country an update changed
    raced       \* history: pairs of rows whose requests overlapped

eventVars == <<outbox, topic, excused>>
tableVars == <<supplier, contact, moved>>
registryVars == <<tableVars, call, begun, eventVars, raced>>

Onboarding == {"draft", "submitted", "under_review", "returned", "approved",
               "rejected", "active", "suspended", "inactive"}
VALID_STATUSES == {"draft", "active", "suspended", "deactivated", "banned", "inactive"}
Status == VALID_STATUSES \cup {"pending"}

NoRow == [exists |-> FALSE]
Gone == [exists |-> FALSE, was |-> "deleted"]   \* its id is never given again
SupplierRow == [exists : {TRUE}, country : Countries, onboarding : Onboarding,
                status : Status, deleted : BOOLEAN]
ContactRow == [exists : {TRUE}, of : Suppliers, primary : BOOLEAN]
OutboxRow == [of : Suppliers, tells : Onboarding, at : 0..MaxCalls]

(* _ONBOARDING_FSM. *)
NextOf(state) ==
    {e[2] : e \in {p \in {<<"draft", "submitted">>, <<"submitted", "under_review">>,
        <<"submitted", "returned">>, <<"under_review", "approved">>,
        <<"under_review", "returned">>, <<"under_review", "rejected">>,
        <<"returned", "submitted">>, <<"approved", "active">>,
        <<"active", "suspended">>, <<"active", "inactive">>,
        <<"suspended", "active">>, <<"suspended", "inactive">>} : p[1] = state}}

(* The status an onboarding status leaves behind when nothing else is done. *)
Settled(state) == IF state \in {"active", "suspended"} THEN "active"
                  ELSE IF state \in {"rejected", "inactive"} THEN "inactive"
                  ELSE "pending"

RowOp == {"create", "update", "delete", "transition", "bulk"}
ContactOp == {"addContact", "updateContact", "deleteContact"}
Op == RowOp \cup ContactOp
Telling == {"create", "transition"} \* whose events tell an onboarding status
Stage == {"idle", "work", "flush"}

(* What a request is for, the row it will write and the one it read, the
   contacts still to demote and the rows it has locked. *)
Call(op, id, arg, row, read, want, held, stage) ==
    [op |-> op, id |-> id, arg |-> arg, row |-> row, read |-> read,
     want |-> want, held |-> held, stage |-> stage]

Idle == Call("none", "none", "none", NoRow, NoRow, {}, {}, "idle")
RowCall(op, s, row, read) == Call(op, s, "none", row, read, {}, {}, "work")

RegistryTypeOK ==
    /\ supplier \in [Suppliers -> SupplierRow \cup {NoRow}]
    /\ contact \in [Contacts -> ContactRow \cup {NoRow, Gone}]
    /\ \A q \in Calls :
          /\ call[q].op \in Op \cup {"none"} /\ call[q].stage \in Stage
          /\ call[q].held \subseteq Suppliers \cup Contacts
          /\ call[q].want \subseteq Contacts
    /\ begun \in 0..MaxCalls
    /\ outbox \subseteq OutboxRow
    /\ topic \in [Suppliers -> Onboarding \cup {"none"}]
    /\ excused \subseteq Suppliers /\ moved \subseteq Suppliers
    /\ raced \subseteq SUBSET (Suppliers \cup Contacts)

Primaries(s) ==
    {c \in Contacts : contact[c].exists /\ contact[c].of = s /\ contact[c].primary}

(* A supplier that exists has come to any onboarding status by legal moves, and
   has contacts, one of them primary at most. *)
RegistryInit ==
    /\ \E there \in SUBSET Suppliers : \E state \in Onboarding : \E k \in Countries :
          /\ supplier = [s \in Suppliers |->
                IF s \in there
                THEN [exists |-> TRUE, country |-> k, onboarding |-> state,
                      status |-> Settled(state), deleted |-> FALSE]
                ELSE NoRow]
          /\ topic = [s \in Suppliers |-> IF s \in there THEN state ELSE "none"]
          /\ \A s, t \in there : s = t
    /\ contact \in [Contacts -> {NoRow} \cup {r \in ContactRow : supplier[r.of].exists}]
    /\ \A s \in Suppliers : \A c, d \in Primaries(s) : c = d
    /\ call = [q \in Calls |-> Idle]
    /\ begun = 0
    /\ outbox = {} /\ excused = {} /\ moved = {} /\ raced = {}

-----------------------------------------------------------------------------
(* Reads and checks. *)

(* get_supplier: soft-deleted rows are not found. *)
Found(s) == supplier[s].exists /\ ~supplier[s].deleted

Free(rows, q) == \A p \in Calls \ {q} : call[p].held \cap rows = {}

(* The rows that a request inserts or may make a primary contact. *)
Claims(request) ==
    IF request.op = "create" THEN {request.id} \cup request.arg
    ELSE IF request.op \in ContactOp THEN {request.id} ELSE {}

Pairs(A, B) == {{x, y} : x \in A, y \in B}

Open(q, request) ==
    /\ call[q].stage = "idle" /\ begun < MaxCalls
    /\ call' = [call EXCEPT ![q] = request]
    /\ begun' = begun + 1
    /\ raced' = raced \cup Pairs(Claims(request),
                    Claims(request) \cup UNION {Claims(call[p]) : p \in Calls})
    /\ UNCHANGED <<tableVars, outbox, topic>>

(* Rows that requests in flight are to insert. *)
Promised == {call[p].id : p \in Calls}
            \cup UNION {call[p].arg : p \in {r \in Calls : call[r].op = "create"}}

Of(k) == {s \in Suppliers : supplier[s].exists /\ supplier[s].country = k}

(* create_supplier: the name-and-country check, which counts soft-deleted rows,
   then a draft row with the primary contacts of the body. *)
Create(q, s, k, contacts) ==
    /\ ~supplier[s].exists /\ Of(k) = {}
    /\ ({s} \cup contacts) \cap Promised = {}
    /\ Open(q, Call("create", s, contacts,
               [exists |-> TRUE, country |-> k, onboarding |-> "draft",
                status |-> "pending", deleted |-> FALSE], NoRow, {}, {}, "work"))
    /\ UNCHANGED excused

(* update_supplier: sets the fields of the body, without the duplicate check. *)
Update(q, s, k) ==
    /\ Found(s)
    /\ Open(q, RowCall("update", s, [supplier[s] EXCEPT !.country = k], supplier[s]))
    /\ UNCHANGED excused

(* soft_delete_supplier. *)
Delete(q, s) ==
    /\ Found(s)
    /\ Open(q, RowCall("delete", s,
          [supplier[s] EXCEPT !.deleted = TRUE, !.status = "inactive"], supplier[s]))
    /\ UNCHANGED excused

(* transition_onboarding: the status follows on activation and on the end. *)
Transition(q, s, to) ==
    /\ Found(s) /\ to \in NextOf(supplier[s].onboarding)
    /\ Open(q, RowCall("transition", s,
          [supplier[s] EXCEPT !.onboarding = to,
             !.status = IF to = "active" THEN "active"
                        ELSE IF to \in {"rejected", "inactive"} THEN "inactive"
                        ELSE @],
          supplier[s]))
    /\ excused' = IF \E p \in Calls : call[p].op = "transition" /\ call[p].id = s
                  THEN excused \cup {s} ELSE excused

(* bulk_update_status: one UPDATE, which locks the rows it changes and looks
   at neither the onboarding status nor what a row was. *)
Bulk(q, ids, status) ==
    LET rows == {s \in ids : Found(s)} IN
    /\ Free(rows, q)
    /\ Open(q, Call("bulk", "none", status, NoRow, NoRow, {}, rows, "work"))
    /\ UNCHANGED excused

(* create_contact: finds the supplier; a primary one first demotes the others
   that are committed. *)
AddContact(q, s, c, primary) ==
    /\ Found(s) /\ contact[c] = NoRow /\ c \notin Promised
    /\ Open(q, Call("addContact", c, s, [exists |-> TRUE, of |-> s, primary |-> primary],
               NoRow, IF primary THEN Primaries(s) ELSE {}, {}, "work"))
    /\ UNCHANGED excused

(* update_contact: demotes all the others of the supplier it was asked for. *)
UpdateContact(q, c, primary) ==
    /\ contact[c].exists
    /\ Open(q, Call("updateContact", c, contact[c].of,
               [contact[c] EXCEPT !.primary = primary], contact[c],
               {d \in Contacts \ {c} : /\ primary /\ contact[d].exists
                                       /\ contact[d].of = contact[c].of}, {}, "work"))
    /\ UNCHANGED excused

DeleteContact(q, c) ==
    /\ contact[c].exists
    /\ Open(q, Call("deleteContact", c, contact[c].of, Gone, contact[c], {}, {}, "work"))
    /\ UNCHANGED excused

-----------------------------------------------------------------------------
(* From the statements to the commit. *)

(* The demotion reaches one row: it waits for its lock, and leaves out a row
   that is gone by then. *)
Demote(q, d) ==
    /\ call[q].stage = "work" /\ d \in call[q].want /\ Free({d}, q)
    /\ call' = [call EXCEPT ![q].want = @ \ {d},
                   ![q].held = IF contact[d].exists THEN @ \cup {d} ELSE @]
    /\ UNCHANGED <<tableVars, begun, eventVars, raced>>

(* _emit_event: the outbox row waits for the commit, but the event also goes
   out at once; a failure of that send is swallowed.  Contacts have no event. *)
Publish(q) ==
    /\ call[q].stage = "work" /\ call[q].want = {}
    /\ call' = [call EXCEPT ![q].stage = "flush"]
    /\ \/ UNCHANGED topic
       \/ /\ call[q].op \in Telling
          /\ topic' = [topic EXCEPT ![call[q].id] = call[q].row.onboarding]
    /\ UNCHANGED <<tableVars, begun, outbox, excused, raced>>

(* Mutant: the whole row is written back. *)
Overwrite(now, read, row) == row

(* The ORM's UPDATE: of the columns that differ from what was read, by id. *)
Merge(now, read, row) ==
    [f \in DOMAIN now |-> IF row[f] # read[f] THEN row[f] ELSE now[f]]

CommitSupplier(q) ==
    LET s == call[q].id IN
    /\ call[q].op \in RowOp \ {"create", "bulk"} /\ Free({s}, q)
    /\ supplier' = [supplier EXCEPT ![s] = Merge(@, call[q].read, call[q].row)]
    /\ moved' = IF supplier'[s].country # supplier[s].country
                THEN moved \cup {s} ELSE moved
    /\ UNCHANGED contact

(* A new supplier brings its contacts, primary ones without a demotion. *)
CommitCreate(q) ==
    /\ call[q].op = "create"
    /\ supplier' = [supplier EXCEPT ![call[q].id] = call[q].row]
    /\ contact' = [c \in Contacts |-> IF c \in call[q].arg
                   THEN [exists |-> TRUE, of |-> call[q].id, primary |-> TRUE]
                   ELSE contact[c]]
    /\ UNCHANGED moved

CommitBulk(q) ==
    /\ call[q].op = "bulk"
    /\ supplier' = [s \in Suppliers |->
          IF s \in call[q].held THEN [supplier[s] EXCEPT !.status = call[q].arg]
          ELSE supplier[s]]
    /\ UNCHANGED <<contact, moved>>

(* The rows that the demotion reached. *)
Demoted(q, now) == [d \in Contacts |->
    IF d \in call[q].held THEN [now[d] EXCEPT !.primary = FALSE] ELSE now[d]]

Written(q, now) ==
    IF call[q].op = "updateContact" /\ now.exists
    THEN Merge(now, call[q].read, call[q].row)
    ELSE IF call[q].op = "updateContact" THEN now ELSE call[q].row

(* An update of a row deleted since it was read makes the flush raise; a second
   deletion only warns. *)
CommitContact(q) ==
    LET c == call[q].id
        writes == call[q].row # call[q].read IN
    /\ call[q].op \in ContactOp
    /\ writes => Free({c}, q)
    /\ (writes /\ call[q].op = "updateContact") => contact[c].exists
    /\ contact' = [Demoted(q, contact) EXCEPT ![c] = Written(q, @)]
    /\ UNCHANGED <<supplier, moved>>

Commit(q) ==
    /\ call[q].stage = "flush"
    /\ call' = [call EXCEPT ![q] = Idle]
    /\ outbox' = IF call[q].op \in Telling
                 THEN outbox \cup {[of |-> call[q].id, tells |-> call[q].row.onboarding,
                                   at |-> begun]}
                 ELSE outbox
    /\ UNCHANGED <<begun, topic, excused, raced>>
    /\ \/ CommitSupplier(q)
       \/ CommitCreate(q)
       \/ CommitBulk(q)
       \/ CommitContact(q)

(* The transaction is undone: a lost connection, a deadlock the database
   breaks, a row that is gone.  What was published stays published. *)
Fail(q) ==
    /\ call[q].stage # "idle"
    /\ call' = [call EXCEPT ![q] = Idle]
    /\ excused' = IF call[q].stage = "flush" /\ call[q].op \in Telling
                  THEN excused \cup {call[q].id} ELSE excused
    /\ UNCHANGED <<tableVars, begun, outbox, topic, raced>>

-----------------------------------------------------------------------------
(* The relay. *)

Waiting(s) == {r \in outbox : r.of = s}

(* It publishes a row, and marks it published unless it fails in between.  It
   takes the rows in the order of their transactions, but another relay, or
   this one after a failed publish, may be ahead with a later row. *)
Relay(r) ==
    /\ r \in outbox
    /\ topic' = [topic EXCEPT ![r.of] = r.tells]
    /\ outbox' \in {outbox, outbox \ {r}}
    /\ excused' = IF \E older \in Waiting(r.of) : older.at < r.at
                  THEN excused \cup {r.of} ELSE excused
    /\ UNCHANGED <<tableVars, call, begun, raced>>

(* The last of its retries failed. *)
GiveUp(r) ==
    /\ r \in outbox
    /\ outbox' = outbox \ {r}
    /\ excused' = excused \cup {r.of}
    /\ UNCHANGED <<tableVars, call, begun, topic, raced>>

RegistryNext ==
    \/ \E r \in outbox : Relay(r) \/ GiveUp(r)
    \/ \E q \in Calls :
       \/ \E s \in Suppliers, k \in Countries :
             \/ \E new \in SUBSET {c \in Contacts : contact[c] = NoRow} : Create(q, s, k, new)
             \/ Update(q, s, k)
       \/ \E s \in Suppliers : Delete(q, s) \/ \E to \in Onboarding : Transition(q, s, to)
       \/ \E ids \in SUBSET Suppliers \ {{}}, status \in Statuses : Bulk(q, ids, status)
       \/ \E c \in Contacts, b \in BOOLEAN :
             \/ \E s \in Suppliers : AddContact(q, s, c, b)
             \/ UpdateContact(q, c, b)
       \/ \E c \in Contacts : DeleteContact(q, c) \/ Demote(q, c)
       \/ Publish(q) \/ Commit(q) \/ Fail(q)

-----------------------------------------------------------------------------
(* Properties. *)

Committing(q) == call[q].stage = "flush" /\ call'[q].stage = "idle"

(* Onboarding moves along the state machine and leaves "rejected" and
   "inactive" to nobody, except for a transition that read another status. *)
MovesLegal ==
    \A s \in Suppliers :
       supplier[s].exists =>
          \/ supplier'[s].onboarding \in NextOf(supplier[s].onboarding) \cup {supplier[s].onboarding}
          \/ \E q \in Calls : /\ Committing(q) /\ call[q].op = "transition" /\ call[q].id = s
                              /\ call[q].read.onboarding # supplier[s].onboarding

(* A deleted supplier is changed only by a request that found it undeleted. *)
DeletedStays ==
    \A s \in Suppliers :
       (supplier[s].exists /\ supplier[s].deleted /\ supplier'[s] # supplier[s]) =>
          \E q \in Calls : Committing(q) /\ call[q].id = s /\ ~call[q].read.deleted

(* Two suppliers of one country, or two primary contacts of one supplier, come
   from requests that overlapped (or one body that brought both contacts), or
   from update_supplier, which moves a supplier into the country of another
   without a check. *)
SecondsExcused ==
    /\ \A s, t \in Suppliers :
          (s # t /\ supplier[s].exists /\ supplier[t].exists
                 /\ supplier[s].country = supplier[t].country)
             => {s, t} \in raced \/ s \in moved \/ t \in moved
    /\ \A c, d \in Contacts :
          (c # d /\ contact[c].exists /\ contact[d].exists
                 /\ contact[c].of = contact[d].of /\ contact[c].primary /\ contact[d].primary)
             => {c, d} \in raced

(* When the relay has caught up and no request about a supplier is between its
   event and its commit, the last event tells the supplier's onboarding status,
   whatever became of the direct sends; unless two transitions overlapped, one
   was undone after its event, or the relay got out of order or gave up. *)
TopicTellsStatus ==
    \A s \in Suppliers \ excused :
       (/\ supplier[s].exists /\ Waiting(s) = {}
        /\ \A q \in Calls : call[q].id = s => call[q].stage # "flush")
          => topic[s] = supplier[s].onboarding

(* The registry keeps its rules unless requests overlap: supplier_service reads,
   checks, publishes and then writes by id, with no version or lock in between. *)
RegistryKept ==
    [][MovesLegal /\ DeletedStays /\ SecondsExcused' /\ TopicTellsStatus']_registryVars

=============================================================================
