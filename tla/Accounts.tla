------------------------------ MODULE Accounts ------------------------------
(***************************************************************************)
(* The users of a tenant as administrators, an identity provider that      *)
(* provisions them by SCIM, and the users themselves change them.          *)
(*                                                                         *)
(* A call looks a row up and writes it later, by its id alone; only a      *)
(* patch takes several statements, in one transaction.  Hashes are as good *)
(* as the passwords they are of.                                           *)
(***************************************************************************)
EXTENDS Integers, Sequences, FiniteSetsExt

CONSTANTS
    AccountIds, Emails, Passwords,
    Clients,            \* requests under way
    Patches,            \* lists of SCIM operations
    MaxAccountCalls     \* bound: requests in all

Operation == {"true", "false", "null", "text", "other"}

ASSUME AccountsAssumption ==
    /\ MaxAccountCalls \in Nat
    /\ Patches \subseteq Seq(Operation)
    /\ "no mail" \notin Emails

NoMail == "no mail"
Random == "random"  \* the password that SCIM makes up, known to nobody
Nothing == "nothing"

VARIABLES
    mail,       \* mail[a]: the row's e-mail, NoMail before there is a row
    state,      \* state[a]: its status
    secret,     \* secret[a]: its password
    client,     \* client[c]: the request under way
    accountCalls,
    overtaken   \* history: changes of a password that another one overtook

accountVars == <<mail, state, secret, client, accountCalls, overtaken>>
accountRows == <<mail, state, secret>>

States == {"active", "inactive", "suspended", "pending_mfa"}

(* ops, at: a patch and the number of its operations that are done; pending:
   the status they have written, or that the row to create gets.  proof: the
   password that was verified. *)
Client == [op : {"none", "create", "patch", "password"},
           account : AccountIds \cup {Nothing}, mail : Emails \cup {NoMail},
           ops : Patches \cup {<<>>}, at : Nat, pending : States \cup {Nothing},
           proof : Passwords \cup {Random, Nothing}]
NoClient == [op |-> "none", account |-> Nothing, mail |-> NoMail, ops |-> <<>>,
             at |-> 0, pending |-> Nothing, proof |-> Nothing]

AccountsTypeOK ==
    /\ mail \in [AccountIds -> Emails \cup {NoMail}]
    /\ state \in [AccountIds -> States]
    /\ secret \in [AccountIds -> Passwords \cup {Random}]
    /\ client \in [Clients -> Client]
    /\ accountCalls \in 0..MaxAccountCalls
    /\ overtaken \subseteq Clients

AccountsInit ==
    /\ mail = [a \in AccountIds |-> NoMail]
    /\ state = [a \in AccountIds |-> "inactive"]
    /\ secret = [a \in AccountIds |-> Random]
    /\ client = [c \in Clients |-> NoClient]
    /\ accountCalls = 0
    /\ overtaken = {}

Held(a) == mail[a] # NoMail
Used(e) == \E a \in AccountIds : mail[a] = e

(* A patch has the row locked from its first UPDATE on. *)
Unlocked(a) == \A c \in Clients : client[c].account = a => client[c].pending = Nothing

CountAccountCall == accountCalls < MaxAccountCalls /\ accountCalls' = accountCalls + 1

Open(c, request) ==
    /\ CountAccountCall
    /\ client[c] = NoClient
    /\ client' = [client EXCEPT ![c] = request]
    /\ UNCHANGED <<accountRows, overtaken>>

Close(c) == client' = [client EXCEPT ![c] = NoClient]

-----------------------------------------------------------------------------
(* Creating users.  The e-mail is unique in its table. *)

NewRow(a, e, s, password) ==
    /\ ~Held(a) /\ ~Used(e)
    /\ mail' = [mail EXCEPT ![a] = e]
    /\ state' = [state EXCEPT ![a] = s]
    /\ secret' = [secret EXCEPT ![a] = password]

(* create_user: an INSERT that may be refused, which is answered 409. *)
CreateUser(a, e, password) ==
    /\ CountAccountCall
    /\ NewRow(a, e, "active", password)
    /\ UNCHANGED <<client, overtaken>>

Activity(active) == IF active THEN "active" ELSE "inactive"

(* scim_create_user has seen no row, not even an inactive one, ... *)
ScimCheck(c, e, active) ==
    /\ ~Used(e)
    /\ Open(c, [NoClient EXCEPT !.op = "create", !.mail = e, !.pending = Activity(active)])

(* ... and inserts one; if another call was faster that is a 500. *)
ScimInsert(c, a) ==
    /\ client[c].op = "create"
    /\ IF Used(client[c].mail)
       THEN UNCHANGED accountRows
       ELSE NewRow(a, client[c].mail, client[c].pending, Random)
    /\ Close(c)
    /\ UNCHANGED <<accountCalls, overtaken>>

-----------------------------------------------------------------------------
(* Changing their status. *)

SetState(a, s) ==
    /\ Held(a) /\ Unlocked(a)
    /\ CountAccountCall
    /\ state' = [state EXCEPT ![a] = s]
    /\ UNCHANGED <<mail, secret, client, overtaken>>

UpdateUser(a, s) == SetState(a, s)

(* delete_user and scim_delete_user. *)
Deactivate(a) == SetState(a, "inactive")

(* scim_replace_user knows two statuses of the four. *)
ScimReplace(a, active) == SetState(a, Activity(active))

ScimPatch(c, a, ops) ==
    /\ Held(a)
    /\ Open(c, [NoClient EXCEPT !.op = "patch", !.account = a, !.ops = ops])

(* What one operation sets; "replace" of active by null activates. *)
Meaning(operation, before) ==
    CASE operation \in {"true", "null"} -> "active"
      [] operation = "false"            -> "inactive"
      [] OTHER                          -> before

Patching(c) == client[c].op = "patch" /\ client[c].at < Len(client[c].ops)

(* An operation that is a text raises an error, and the transaction ends. *)
PatchFails(c) ==
    /\ Patching(c)
    /\ client[c].ops[client[c].at + 1] = "text"
    /\ Close(c)
    /\ UNCHANGED <<accountRows, accountCalls, overtaken>>

(* Mutant: each operation is committed. *)
PatchNextCommits(c) ==
    LET operation == client[c].ops[client[c].at + 1]
        a == client[c].account
    IN  /\ Patching(c)
        /\ operation # "text"
        /\ Unlocked(a)
        /\ client' = [client EXCEPT ![c].at = @ + 1]
        /\ state' = [state EXCEPT ![a] = Meaning(operation, @)]
        /\ UNCHANGED <<mail, secret, accountCalls, overtaken>>

PatchNext(c) ==
    LET operation == client[c].ops[client[c].at + 1]
        a == client[c].account
    IN  /\ Patching(c)
        /\ operation # "text"
        /\ client[c].pending # Nothing \/ operation = "other" \/ Unlocked(a)
        /\ client' = [client EXCEPT ![c].at = @ + 1,
                                    ![c].pending = Meaning(operation, @)]
        /\ UNCHANGED <<accountRows, accountCalls, overtaken>>

PatchCommit(c) ==
    LET a == client[c].account
    IN  /\ client[c].op = "patch" /\ client[c].at = Len(client[c].ops)
        /\ IF client[c].pending = Nothing
           THEN UNCHANGED state
           ELSE state' = [state EXCEPT ![a] = client[c].pending]
        /\ Close(c)
        /\ UNCHANGED <<mail, secret, accountCalls, overtaken>>

-----------------------------------------------------------------------------
(* change_password, by its user: the sessions there are go on. *)

VerifyPassword(c, a) ==
    /\ Held(a) /\ secret[a] # Random
    /\ Open(c, [NoClient EXCEPT !.op = "password", !.account = a, !.proof = secret[a]])

ChangePassword(c, password) ==
    LET a == client[c].account
    IN  /\ client[c].op = "password"
        /\ Unlocked(a)
        /\ secret' = [secret EXCEPT ![a] = password]
        /\ Close(c)
        /\ overtaken' = (overtaken \cup {d \in Clients : /\ client[d].op = "password"
                                                         /\ client[d].account = a}) \ {c}
        /\ UNCHANGED <<mail, state, accountCalls>>

(* The request fails or its process dies. *)
Drop(c) ==
    /\ client[c] # NoClient
    /\ Close(c)
    /\ overtaken' = overtaken \ {c}
    /\ UNCHANGED <<accountRows, accountCalls>>

AccountsNext ==
    \/ \E a \in AccountIds, e \in Emails, p \in Passwords : CreateUser(a, e, p)
    \/ \E c \in Clients, e \in Emails, active \in BOOLEAN : ScimCheck(c, e, active)
    \/ \E c \in Clients, a \in AccountIds : ScimInsert(c, a) \/ VerifyPassword(c, a)
    \/ \E a \in AccountIds, s \in States : UpdateUser(a, s)
    \/ \E a \in AccountIds : Deactivate(a) \/ \E active \in BOOLEAN : ScimReplace(a, active)
    \/ \E c \in Clients, a \in AccountIds, ops \in Patches : ScimPatch(c, a, ops)
    \/ \E c \in Clients : PatchFails(c) \/ PatchNext(c) \/ PatchCommit(c) \/ Drop(c)
    \/ \E c \in Clients, p \in Passwords : ChangePassword(c, p)

-----------------------------------------------------------------------------
(* Properties. *)

(* However creations overlap, an e-mail has one row. *)
MailsUnique == \A a, b \in AccountIds : Held(a) /\ mail[a] = mail[b] => a = b

(* A patch is done whole or not at all: with an operation that cannot be done
   it changes nothing, and otherwise what it leaves is what its last operation
   on "active" says, with no status of another call or of its own in between. *)
PatchesWhole ==
    [][\A c \in Clients :
         LET ops == client[c].ops
             given == {i \in 1..Len(ops) : ops[i] # "other"}
         IN  client[c].op = "patch" /\ client'[c] # client[c] /\ state' # state
                => /\ client'[c].op # "patch"
                   /\ \A i \in given : ops[i] # "text"
                   /\ state'[client[c].account]
                        = IF ops[Max(given)] = "false" THEN "inactive" ELSE "active"]_accountVars

(* A password is changed by proof of the one it replaces, except by a call
   that another change of it overtook. *)
PasswordsProved ==
    [][\A c \in Clients :
         client[c].op = "password" /\ secret' # secret /\ client'[c] = NoClient
            => c \in overtaken \/ client[c].proof = secret[client[c].account]]_accountVars

AccountsKept == []MailsUnique /\ PatchesWhole /\ PasswordsProved

(* Why these hold: what a patch has written is what the last operation on
   "active" so far says, and none so far failed; ... *)
PatchInOrder(c) ==
    LET ops == client[c].ops
        done == 1..client[c].at
    IN  client[c].op = "patch" =>
          /\ client[c].account \in AccountIds /\ Held(client[c].account)
          /\ client[c].at <= Len(ops)
          /\ \A i \in done : ops[i] # "text"
          /\ client[c].pending = Nothing => \A i \in done : ops[i] = "other"
          /\ client[c].pending # Nothing =>
                \E k \in done : /\ ops[k] # "other"
                               /\ client[c].pending = Meaning(ops[k], Nothing)
                               /\ \A i \in done : k < i => ops[i] = "other"

(* ... and the password that was verified is the row's, unless it was overtaken. *)
ChangeInOrder(c) ==
    client[c].op = "password" =>
        /\ client[c].account \in AccountIds /\ Held(client[c].account)
        /\ c \in overtaken \/ client[c].proof = secret[client[c].account]

CreationInOrder(c) ==
    client[c].op = "create" =>
        client[c].mail \in Emails /\ client[c].pending \in {"active", "inactive"}

ClientsInOrder ==
    \A c \in Clients : PatchInOrder(c) /\ ChangeInOrder(c) /\ CreationInOrder(c)

AccountsInv == AccountsTypeOK /\ MailsUnique /\ ClientsInOrder
=============================================================================
