------------------------------ MODULE Identity ------------------------------
(***************************************************************************)
(* The identity service: sessions, and the roles and users its             *)
(* administrators keep.                                                    *)
(*                                                                         *)
(* What an administrator does to a session is in AuthSessions already,     *)
(* which takes the changes of a user's status from anywhere; roles are     *)
(* read by no login.  So they are checked one part at a time: "focus" is   *)
(* chosen at the start and only the part it names takes steps.             *)
(***************************************************************************)
EXTENDS AuthSessions, Roles, Accounts

VARIABLE focus  \* the part that takes steps

identityVars == <<vars, roleVars, accountVars, focus>>

IdentityTypeOK ==
    /\ TypeOK /\ RolesTypeOK /\ AccountsTypeOK
    /\ focus \in {"sessions", "roles", "accounts"}

IdentityInit ==
    /\ focus \in {"sessions", "roles", "accounts"}
    /\ Init /\ RolesInit /\ AccountsInit

Signing == focus = "sessions" /\ Next /\ UNCHANGED <<roleVars, accountVars>>
Granting == focus = "roles" /\ RolesNext /\ UNCHANGED <<vars, accountVars>>
Provisioning == focus = "accounts" /\ AccountsNext /\ UNCHANGED <<vars, roleVars>>

IdentityNext == UNCHANGED focus /\ (Signing \/ Granting \/ Provisioning)

IdentitySpec == IdentityInit /\ [][IdentityNext]_identityVars

(* What administrators and identity providers do holds together. *)
DirectoryKept == []RolesKept /\ AccountsKept
=============================================================================
