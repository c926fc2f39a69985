------------------------------- MODULE Roles -------------------------------
(***************************************************************************)
(* Custom roles of a tenant, their permissions and who is assigned them,   *)
(* under overlapping requests of administrators.                           *)
(*                                                                         *)
(* The service locks nothing by name: what order its transactions keep is  *)
(* that of the rows their statements happen to touch.  A statement sees    *)
(* what is committed when it starts, waits for the rows it finds that are  *)
(* locked by another transaction, and skips those gone by then (READ       *)
(* COMMITTED).  The tables are taken to have no constraints but their      *)
(* keys, which is all that the statements rely on.                         *)
(***************************************************************************)
EXTENDS Integers

CONSTANTS
    RoleIds, PermIds,   \* fresh ids
    Titles,             \* names of roles and permissions
    Members,            \* users
    Admins,             \* requests under way at once
    MaxRoleCalls        \* bound: requests in all

ASSUME RolesAssumption ==
    /\ MaxRoleCalls \in Nat /\ RoleIds \cap PermIds = {}
    /\ Titles \cap {"none", "gone"} = {} /\ "null" \notin RoleIds

VARIABLES
    title,      \* title[x]: the name of a row of roles or permissions
    grants,     \* committed rows of role_permissions
    assigned,   \* assigned[m]: role_id of m's row of tenant_memberships
    work,       \* work[c]: the request under way
    roleCalls,
    latest,     \* history: latest[r]: the permissions the last writer gave r
    twins,      \* history: rows created while another of their name was
    raced,      \* history: roles deleted under an update
    stray,      \* history: members assigned a role that was gone or going
    met         \* history: requests that one they do not see has overtaken

roleVars == <<title, grants, assigned, work, roleCalls, latest, twins, raced, stray, met>>
rowVars == <<title, grants, assigned, latest, twins, raced, stray>>

Named == RoleIds \cup PermIds
NoTitle == "none"
GoneTitle == "gone"
NoRole == "null"

(* perms: the set to give, in {} or {set}.  seen: the grants a DELETE found,
   cleared: those it deleted; freed: members set to NULL. *)
Work == [op : {"none", "create", "update", "delete"},
         stage : {"idle", "found", "detached", "clearing", "cleared"},
         item : Named \cup {NoRole}, name : Titles \cup {NoTitle},
         perms : SUBSET (SUBSET PermIds), seen : SUBSET PermIds,
         cleared : SUBSET PermIds, freed : SUBSET Members]
NoWork == [op |-> "none", stage |-> "idle", item |-> NoRole, name |-> NoTitle,
           perms |-> {}, seen |-> {}, cleared |-> {}, freed |-> {}]

RolesTypeOK ==
    /\ title \in [Named -> Titles \cup {NoTitle, GoneTitle}]
    /\ grants \subseteq RoleIds \X PermIds
    /\ assigned \in [Members -> RoleIds \cup {NoRole}]
    /\ work \in [Admins -> Work]
    /\ roleCalls \in 0..MaxRoleCalls
    /\ latest \in [RoleIds -> SUBSET PermIds]
    /\ twins \subseteq Named
    /\ raced \subseteq RoleIds
    /\ stray \subseteq Members
    /\ met \subseteq Admins

RolesInit ==
    /\ title = [x \in Named |-> NoTitle]
    /\ grants = {}
    /\ assigned = [m \in Members |-> NoRole]
    /\ work = [c \in Admins |-> NoWork]
    /\ roleCalls = 0
    /\ latest = [r \in RoleIds |-> {}]
    /\ twins = {} /\ raced = {} /\ stray = {} /\ met = {}

Exists(x) == title[x] \notin {NoTitle, GoneTitle}
Kind(x) == IF x \in RoleIds THEN RoleIds ELSE PermIds
GrantsOf(r) == {p \in PermIds : <<r, p>> \in grants}
Under(r, op) == {c \in Admins : work[c].op = op /\ work[c].item = r}

CountCall == roleCalls < MaxRoleCalls /\ roleCalls' = roleCalls + 1

Accept(c, op, x, n, sets) ==
    /\ CountCall
    /\ work[c] = NoWork
    /\ work' = [work EXCEPT ![c] = [NoWork EXCEPT !.op = op, !.stage = "found",
                                        !.item = x, !.name = n, !.perms = sets]]
    /\ UNCHANGED <<rowVars, met>>

(* c's request is over, and has overtaken others. *)
Finished(c, others) ==
    /\ work' = [work EXCEPT ![c] = NoWork]
    /\ met' = (met \cup others) \ {c}

Advance(c, w) == work' = [work EXCEPT ![c] = w] /\ UNCHANGED <<rowVars, roleCalls, met>>

-----------------------------------------------------------------------------
(* create_role and create_permission. *)

Taken(x, n) == \E y \in Kind(x) : title[y] = n

(* The SELECT; a name it finds is answered 409.  The permissions to attach
   are not looked up. *)
CheckName(c, x, n, ps) ==
    /\ title[x] = NoTitle /\ Under(x, "create") = {}
    /\ ~Taken(x, n)
    /\ x \in PermIds => ps = {}
    /\ Accept(c, "create", x, n, {ps})

(* The INSERTs, on rows that nobody else knows of, and their commit. *)
InsertNamed(c) ==
    LET x == work[c].item
        sameName == {d \in Admins : /\ work[d].op = "create" /\ work[d].name = work[c].name
                                    /\ work[d].item \in Kind(x)}
        ps == UNION work[c].perms
    IN  /\ work[c].op = "create"
        /\ title' = [title EXCEPT ![x] = work[c].name]
        /\ twins' = IF c \in met THEN twins \cup {x} ELSE twins
        /\ Finished(c, sameName)
        /\ IF x \in RoleIds
           THEN grants' = grants \cup {x} \X ps /\ latest' = [latest EXCEPT ![x] = ps]
           ELSE UNCHANGED <<grants, latest>>
        /\ UNCHANGED <<assigned, roleCalls, raced, stray>>

-----------------------------------------------------------------------------
(* update_role and delete_role, once get_role has found the role. *)

FindRole(c, op, r, sets) == Exists(r) /\ Accept(c, op, r, NoTitle, sets)

(* An update has the row locked from its first statement on, if there is one. *)
RowFree(r) == Exists(r) => \A c \in Under(r, "update") : work[c].stage = "found"

(* UPDATE roles, of updated_at at least, which finds no row if the role is gone,
   and the start of DELETE FROM role_permissions if there are some to give. *)
LockRole(c) ==
    LET r == work[c].item
    IN  /\ work[c].op = "update" /\ work[c].stage = "found"
        /\ RowFree(r)
        /\ Advance(c, [work[c] EXCEPT
              !.stage = "clearing",
              !.seen = IF work[c].perms = {} THEN {} ELSE GrantsOf(r)])

(* UPDATE tenant_memberships SET role_id = NULL. *)
Detach(c) ==
    LET found == {m \in Members : assigned[m] = work[c].item}
    IN  /\ work[c].op = "delete" /\ work[c].stage = "found"
        /\ \A d \in Admins : work[d].freed \cap found = {}
        /\ Advance(c, [work[c] EXCEPT !.stage = "detached", !.freed = found])

StartClear(c) ==
    /\ work[c].stage = "detached"
    /\ Advance(c, [work[c] EXCEPT !.stage = "clearing", !.seen = GrantsOf(work[c].item)])

(* The DELETE has the rows it found, once nobody else has them locked. *)
Clear(c) ==
    LET r == work[c].item
    IN  /\ work[c].stage = "clearing"
        /\ \A d \in Under(r, "update") \cup Under(r, "delete") :
              work[d].cleared \cap work[c].seen = {}
        /\ Advance(c, [work[c] EXCEPT !.stage = "cleared",
                                      !.cleared = work[c].seen \cap GrantsOf(r)])

(* The INSERTs of an update, ON CONFLICT DO NOTHING, and its commit. *)
CommitUpdate(c) ==
    LET r == work[c].item
        ps == UNION work[c].perms
    IN  /\ work[c].op = "update" /\ work[c].stage = "cleared"
        /\ IF work[c].perms = {}
           THEN UNCHANGED <<grants, latest>>
           ELSE /\ grants' = (grants \ ({r} \X work[c].cleared)) \cup {r} \X ps
                /\ latest' = [latest EXCEPT ![r] = ps]
        /\ Finished(c, Under(r, "delete"))
        /\ UNCHANGED <<title, assigned, roleCalls, twins, raced, stray>>

(* DELETE FROM roles, once an update lets go of the row, and the commit. *)
CommitDelete(c) ==
    LET r == work[c].item
    IN  /\ work[c].op = "delete" /\ work[c].stage = "cleared"
        /\ RowFree(r)
        /\ title' = [title EXCEPT ![r] = GoneTitle]
        /\ grants' = grants \ ({r} \X work[c].cleared)
        /\ assigned' = [m \in Members |-> IF m \in work[c].freed THEN NoRole ELSE assigned[m]]
        /\ raced' = IF c \in met \/ Under(r, "update") # {} THEN raced \cup {r} ELSE raced
        /\ Finished(c, {})
        /\ UNCHANGED <<roleCalls, latest, twins, stray>>

(* A request fails, or the server breaks a deadlock: of an update that holds
   the role's row and waits for its grants, and a deletion that holds those
   and waits for the row. *)
Undo(c) ==
    /\ work[c] # NoWork
    /\ Finished(c, {})
    /\ UNCHANGED <<rowVars, roleCalls>>

(* assign_role: an upsert that looks neither at the user nor at the role. *)
Assign(m, r) ==
    /\ title[r] # NoTitle
    /\ CountCall
    /\ \A c \in Admins : m \notin work[c].freed
    /\ assigned' = [assigned EXCEPT ![m] = r]
    /\ stray' = IF ~Exists(r) \/ \E c \in Under(r, "delete") : work[c].stage # "found"
                THEN stray \cup {m} ELSE stray \ {m}
    /\ UNCHANGED <<title, grants, work, latest, twins, raced, met>>

RolesNext ==
    \/ \E c \in Admins, x \in Named, n \in Titles, ps \in SUBSET PermIds : CheckName(c, x, n, ps)
    \/ \E c \in Admins, r \in RoleIds, ps \in SUBSET PermIds : FindRole(c, "update", r, {ps})
    \/ \E c \in Admins, r \in RoleIds, op \in {"update", "delete"} : FindRole(c, op, r, {})
    \/ \E c \in Admins :
          \/ InsertNamed(c) \/ LockRole(c) \/ Detach(c) \/ StartClear(c)
          \/ Clear(c) \/ CommitUpdate(c) \/ CommitDelete(c) \/ Undo(c)
    \/ \E m \in Members, r \in RoleIds : Assign(m, r)

-----------------------------------------------------------------------------
(* Properties. *)

(* A role has exactly the permissions that its last writer gave it, never a
   mixture of two updates and never less because of a deletion that failed. *)
PermissionsWhole == \A r \in RoleIds : Exists(r) => GrantsOf(r) = latest[r]

(* Two rows have one name only if they were created at once. *)
NamesUnique ==
    \A x \in Named : \A y \in Kind(x) \ {x} :
        Exists(x) /\ title[x] = title[y] => x \in twins \/ y \in twins

(* What is left of a deleted role, the permissions of an update that overlapped
   its deletion or a member assigned it too late, is left by nothing else. *)
RemainsExplained ==
    /\ \A r \in RoleIds : title[r] = GoneTitle /\ GrantsOf(r) # {} => r \in raced
    /\ \A m \in Members :
          assigned[m] # NoRole /\ ~Exists(assigned[m]) => m \in stray

RolesKept == PermissionsWhole /\ NamesUnique /\ RemainsExplained

(* Why these hold.  A request that creates x is alone in that, and knows of every
   x of its name unless it was overtaken. *)
CreateInOrder(c) ==
    LET x == work[c].item
    IN  work[c].op = "create" =>
          /\ x \in Named /\ work[c].name \in Titles
          /\ title[x] = NoTitle
          /\ x \in PermIds => UNION work[c].perms = {}
          /\ \A d \in Under(x, "create") : d = c
          /\ c \notin met => ~Taken(x, work[c].name)

(* An update that has the role's row locked is alone in that too, and deletes all
   the grants there are. *)
UpdateInOrder(c) ==
    LET r == work[c].item
    IN  work[c].op = "update" =>
          /\ work[c].stage \in {"found", "clearing", "cleared"}
          /\ r \in RoleIds /\ title[r] # NoTitle
          /\ title[r] = GoneTitle => r \in raced
          /\ Exists(r) /\ work[c].stage # "found" =>
                /\ \A d \in Under(r, "update") \ {c} : work[d].stage = "found"
                /\ work[c].stage = "clearing" /\ work[c].perms # {} => work[c].seen = GrantsOf(r)
                /\ work[c].stage = "cleared" /\ work[c].perms # {} => work[c].cleared = GrantsOf(r)

(* So does a deletion, unless it was overtaken, and it has detached every member
   that was not assigned too late. *)
DeleteInOrder(c) ==
    LET r == work[c].item
    IN  work[c].op = "delete" =>
          /\ r \in RoleIds /\ title[r] # NoTitle
          /\ c \notin met /\ work[c].stage = "clearing" => GrantsOf(r) \subseteq work[c].seen
          /\ c \notin met /\ work[c].stage = "cleared" => GrantsOf(r) \subseteq work[c].cleared
          /\ work[c].stage # "found" =>
                \A m \in Members : assigned[m] = r => m \in work[c].freed \cup stray

StagesInOrder(c) ==
    /\ work[c].stage = "detached" => work[c].op = "delete"
    /\ work[c].stage \in {"clearing", "cleared"} => work[c].op \in {"update", "delete"}

WorkInOrder ==
    \A c \in Admins :
        CreateInOrder(c) /\ UpdateInOrder(c) /\ DeleteInOrder(c) /\ StagesInOrder(c)

FreshUnused ==
    /\ \A r \in RoleIds : title[r] = NoTitle => GrantsOf(r) = {}
    /\ \A m \in Members : assigned[m] # NoRole => title[assigned[m]] # NoTitle

RolesInv == RolesTypeOK /\ RolesKept /\ WorkInOrder /\ FreshUnused
=============================================================================
