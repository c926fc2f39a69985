--------------------------- MODULE AlertSettings ---------------------------
(***************************************************************************)
(* What administrators set up in the alert engine: alert rules and         *)
(* notification channels, with their create, update and delete, the dry    *)
(* run of a rule, and the daily digest.                                    *)
(*                                                                         *)
(* An edit is get, UPDATE of the columns the request names, commit, get;   *)
(* a deletion is an edit of one column.  A rule that another tenant made   *)
(* global is found by the get and is not matched by the UPDATE.            *)
(*                                                                         *)
(* Of a row three columns are kept: whether it is active, its severity,    *)
(* and a rule's conditions or a channel's config, of which only whether it *)
(* asks for digests matters.  Texts are runs of one letter, so that order  *)
(* and containment compare their lengths.                                  *)
(***************************************************************************)
EXTENDS Integers, Sequences, FiniteSets

CONSTANTS
    OwnRules,
    Foreign,     \* the rules of another tenant with is_global: their rows
    MailTargets, \* notification channels of type email and slack
    Bodies,      \* Bodies[i]: the request bodies for i, columns by name
    Payloads,    \* sample and event payloads, values by field
    AlertLevels, \* severities of the unresolved alerts of the last day
    Requests,
    MaxRequests  \* bound

GlobalRules == DOMAIN Foreign
Settings == OwnRules \cup GlobalRules \cup MailTargets

Columns == {"active", "severity", "conditions"}

ASSUME SettingsAssumption ==
    /\ \A i \in Settings : \A body \in Bodies[i] : DOMAIN body \subseteq Columns
    /\ \A i \in GlobalRules : DOMAIN Foreign[i] = Columns
    /\ MaxRequests \in Nat

VARIABLES
    item,     \* item[i]: the committed row, or NoRow
    request,  \* request[q]: what q is at: [stage, item, data, sets], or NoRequest
    requests, \* number of requests begun
    digest,   \* channels the digest task has still to visit
    mailed,   \* mailed[c]: severities of the alerts in c's digests
    latest    \* history: latest[i]: what the last commit that asked for a column gave it

settingsVars == <<item, request, requests, digest, mailed, latest>>

NoRow == <<>>
NoRequest == [stage |-> "none"]

SettingsTypeOK ==
    /\ \A i \in Settings : item[i] = NoRow \/ DOMAIN item[i] = Columns
    /\ DOMAIN item = Settings /\ DOMAIN request = Requests
    /\ \A q \in Requests : request[q].stage \in {"none", "found", "updated"}
    /\ requests \in 0..MaxRequests
    /\ digest \subseteq MailTargets
    /\ mailed \in [MailTargets -> SUBSET AlertLevels]

(* Another tenant's rule is there already. *)
SettingsInit ==
    /\ item = [i \in Settings |-> IF i \in GlobalRules THEN Foreign[i] ELSE NoRow]
    /\ request = [q \in Requests |-> NoRequest]
    /\ requests = 0
    /\ digest = {}
    /\ mailed = [c \in MailTargets |-> {}]
    /\ latest = item

-----------------------------------------------------------------------------
(* Conditions. *)

None == [kind |-> "none"]

Ordered(a, b) == a.kind = b.kind /\ a.kind \in {"num", "text"}

(* _apply_operator: a comparison that raises TypeError is false. *)
Compare(actual, operator, expected) ==
    \/ operator = "gt" /\ Ordered(actual, expected) /\ actual.val > expected.val
    \/ operator = "gte" /\ Ordered(actual, expected) /\ actual.val >= expected.val
    \/ operator = "lt" /\ Ordered(actual, expected) /\ actual.val < expected.val
    \/ operator = "lte" /\ Ordered(actual, expected) /\ actual.val <= expected.val
    \/ operator = "eq" /\ actual = expected
    \/ operator = "neq" /\ actual # expected

(* Python's "part in whole": a text in a text, or a member of a list. *)
Within(part, whole) ==
    \/ whole.kind = "text" /\ part.kind = "text" /\ part.val <= whole.val
    \/ whole.kind = "list" /\ part \in whole.val

(* actual or "" *)
OrEmpty(v) ==
    IF v \in {None, [kind |-> "num", val |-> 0]} THEN [kind |-> "text", val |-> 0] ELSE v

ApplyOperator(actual, operator, expected) ==
    \/ Compare(actual, operator, expected)
    \/ operator = "in" /\ Within(actual, expected)
    \/ operator = "contains" /\ Within(expected, OrEmpty(actual))

CheckConditions(conditions, payload) ==
    \A c \in conditions : ApplyOperator(payload[c.field], c.operator, c.value)

(* test_rule: a field that is missing matches nothing. *)
DryRun(conditions, payload) ==
    \A c \in conditions :
        /\ payload[c.field] # None
        /\ ApplyOperator(payload[c.field], c.operator, c.value)

-----------------------------------------------------------------------------
(* Requests. *)

(* The request schema of a channel has no digest_enabled: only an edit, whose
   config may be anything, turns digests on. *)
Create(i, row) ==
    /\ requests < MaxRequests /\ requests' = requests + 1
    /\ i \notin GlobalRules /\ item[i] = NoRow
    /\ row \in Bodies[i] /\ DOMAIN row = Columns
    /\ i \in MailTargets => row.conditions # "digest"
    /\ item' = [item EXCEPT ![i] = row]
    /\ latest' = [latest EXCEPT ![i] = row]
    /\ UNCHANGED <<request, digest, mailed>>

(* A row with the columns of data replaced. *)
Overlay(data, row) ==
    [c \in DOMAIN data \cup DOMAIN row |-> IF c \in DOMAIN data THEN data[c] ELSE row[c]]

(* Mutant: the statement writes the columns back that were read. *)
SetsWholeRow(i, data) == Overlay(data, item[i])

(* The columns of the UPDATE: those that are not None in the request. *)
Sets(i, data) == data

(* The get that answers 404, and the list of columns. *)
Find(q, i, data) ==
    /\ request[q] = NoRequest
    /\ requests < MaxRequests /\ requests' = requests + 1
    /\ item[i] # NoRow
    /\ request' = [request EXCEPT ![q] =
                     [stage |-> "found", item |-> i, data |-> data, sets |-> Sets(i, data)]]
    /\ UNCHANGED <<item, digest, mailed, latest>>

(* The UPDATE waits for another one of the same row to commit. *)
RunUpdate(q) ==
    /\ request[q].stage = "found"
    /\ \A r \in Requests :
          request[r].stage = "updated" /\ request[r].item = request[q].item
          => request[r].item \in GlobalRules
    /\ request' = [request EXCEPT ![q].stage = "updated"]
    /\ UNCHANGED <<item, requests, digest, mailed, latest>>

(* The commit.  A rule of another tenant was not matched. *)
CommitUpdate(q) ==
    /\ request[q].stage = "updated"
    /\ LET i == request[q].item
       IN  IF i \in GlobalRules THEN UNCHANGED <<item, latest>>
           ELSE /\ item' = [item EXCEPT ![i] = Overlay(request[q].sets, @)]
                /\ latest' = [latest EXCEPT ![i] = Overlay(request[q].data, @)]
    /\ request' = [request EXCEPT ![q] = NoRequest]
    /\ UNCHANGED <<requests, digest, mailed>>

FailUpdate(q) ==
    /\ request[q] # NoRequest
    /\ request' = [request EXCEPT ![q] = NoRequest]
    /\ UNCHANGED <<item, requests, digest, mailed, latest>>

-----------------------------------------------------------------------------
(* The daily digest. *)

Weight == [info |-> 0, low |-> 1, medium |-> 2, high |-> 3, critical |-> 4]

(* unnest(...) OFFSET 4 - weight *)
Slice(min_severity) ==
    LET severities == <<"critical", "high", "medium", "low", "info">>
    IN  {severities[n] : n \in (5 - Weight[min_severity])..5}

(* The severity the task leaves send_digest to choose. *)
DigestSeverity == "medium"

StartDigest ==
    /\ digest = {}
    /\ digest' = {c \in MailTargets :
                    item[c] # NoRow /\ item[c].active /\ item[c].conditions = "digest"}
    /\ digest' # {}
    /\ UNCHANGED <<item, request, requests, mailed, latest>>

(* The channel is read again: it may be off by now.  A send that fails is logged. *)
SendDigest(c) ==
    /\ c \in digest
    /\ digest' = digest \ {c}
    /\ mailed' \in {mailed,
                    [mailed EXCEPT ![c] =
                       @ \cup IF item[c].active THEN AlertLevels \cap Slice(DigestSeverity)
                              ELSE {}]}
    /\ UNCHANGED <<item, request, requests, latest>>

LoseDigest ==
    /\ digest # {} /\ digest' = {}
    /\ UNCHANGED <<item, request, requests, mailed, latest>>

-----------------------------------------------------------------------------
SettingsNext ==
    \/ \E i \in Settings : \E body \in Bodies[i] : Create(i, body)
    \/ \E q \in Requests :
          \/ \E i \in Settings : \E data \in Bodies[i] : Find(q, i, data)
          \/ RunUpdate(q) \/ CommitUpdate(q) \/ FailUpdate(q)
    \/ StartDigest \/ LoseDigest
    \/ \E c \in MailTargets : SendDigest(c)

SettingsSpec == SettingsInit /\ [][SettingsNext]_settingsVars

-----------------------------------------------------------------------------
(* Properties. *)

(* Overlapping edits lose nothing: a column holds what the last committed
   request that named it asked for, so no edit of a name undoes a deletion. *)
EditsKept == \A i \in Settings : item[i] = latest[i]

(* What a dry run says of a rule as it stands is what an event would meet,
   save for a field that is missing. *)
DryRunTrue ==
    \A i \in OwnRules \cup GlobalRules, payload \in Payloads :
        item[i] # NoRow =>
        /\ DryRun(item[i].conditions, payload) => CheckConditions(item[i].conditions, payload)
        /\ CheckConditions(item[i].conditions, payload) =>
             \/ DryRun(item[i].conditions, payload)
             \/ \E c \in item[i].conditions : payload[c.field] = None

SettingsKept == EditsKept /\ DryRunTrue

(* notification_service.py takes the slice "from min_severity upward". *)
DigestFromSeverityUp ==
    \A c \in MailTargets : \A s \in mailed[c] : Weight[s] >= Weight[DigestSeverity]
=============================================================================
