---------------------------- MODULE AuthSessions ----------------------------
(***************************************************************************)
(* Sessions of the identity service: logins, with or without a second      *)
(* factor, the exchange of refresh tokens, logout, TOTP enrolment, and the *)
(* administrators who change a user's status meanwhile.                    *)
(*                                                                         *)
(* The user rows are in PostgreSQL, the refresh tokens in Redis, and an    *)
(* access token is valid by its signature until it expires or is revoked.  *)
(* A request reads one store and later writes another; nothing ties the    *)
(* steps together but the order in which they come.                        *)
(*                                                                         *)
(* A login and the exchanges that follow it are one session, named by the  *)
(* pair of tokens the login issued.  Passwords and TOTP codes are checked  *)
(* by whether they match: a request that fails the check changes nothing.  *)
(***************************************************************************)
EXTENDS Integers

CONSTANTS
    Users,
    Pairs,      \* pairs of an access and a refresh token, by their fresh jti
    Requests,   \* requests in progress
    MaxChanges  \* bound: changes of a user row

NoUser == "no user"
NoPair == "no pair"

ASSUME ConstantsAssumption ==
    /\ NoUser \notin Users /\ NoPair \notin Pairs
    /\ MaxChanges \in Nat

VARIABLES
    status,     \* status[u]: the column of u's row
    mfa,        \* users with mfa_enabled, and a totp_secret with it
    enrolling,  \* users whose pending_totp_secret is set
    version,    \* history: changes of u's status or mfa
    issued,     \* issued[p]: what the tokens of p say, or Unissued
    live,       \* pairs whose refresh token is in Redis
    access,     \* pairs whose access token is neither expired nor revoked
    challenges, \* MFA session tokens that have not expired
    req,        \* req[q]: the request in progress
    ended       \* history: sessions whose refresh token was lost or deleted

userVars  == <<status, mfa, enrolling, version>>
tokenVars == <<issued, live, access, challenges, ended>>
vars == <<userVars, tokenVars, req>>

Status == {"active", "inactive", "suspended", "pending_mfa"}
Admitted == {"active", "pending_mfa"}
Factor == {"password", "totp"}

(* user: whose tokens they are.  session: the pair its login issued.
   checked: the version of the row on which the user was found admissible.
   factor: what the login went by. *)
Issued == [user : Users \cup {NoUser}, session : Pairs \cup {NoPair},
           checked : Nat, factor : Factor]
Unissued == [user |-> NoUser, session |-> NoPair, checked |-> 0, factor |-> "password"]

(* old: the pair the request presents; the rest as in Issued. *)
Phase == {"idle", "exchanging", "issuing", "leaving", "revoked",
          "setup", "confirming", "disabling"}
Request == [phase : Phase, user : Users \cup {NoUser}, old : Pairs \cup {NoPair},
            checked : Nat, factor : Factor]
NoRequest == [phase |-> "idle", user |-> NoUser, old |-> NoPair,
              checked |-> 0, factor |-> "password"]

TypeOK ==
    /\ status \in [Users -> Status]
    /\ mfa \subseteq Users
    /\ enrolling \subseteq Users
    /\ version \in [Users -> 0..MaxChanges]
    /\ issued \in [Pairs -> Issued]
    /\ live \subseteq Pairs
    /\ access \subseteq Pairs
    /\ challenges \subseteq [user : Users, checked : Nat]
    /\ req \in [Requests -> Request]
    /\ ended \subseteq Pairs

(* create_user: users are active and have no second factor. *)
Init ==
    /\ status = [u \in Users |-> "active"]
    /\ mfa = {}
    /\ enrolling = {}
    /\ version = [u \in Users |-> 0]
    /\ issued = [p \in Pairs |-> Unissued]
    /\ live = {}
    /\ access = {}
    /\ challenges = {}
    /\ req = [q \in Requests |-> NoRequest]
    /\ ended = {}

Begin(q, phase, u, p, checked, factor) ==
    /\ req[q].phase = "idle"
    /\ req' = [req EXCEPT ![q] = [phase |-> phase, user |-> u, old |-> p,
                                  checked |-> checked, factor |-> factor]]

Goto(q, phase, checked) ==
    req' = [req EXCEPT ![q] = [phase |-> phase, user |-> req[q].user,
                               old |-> req[q].old, checked |-> checked,
                               factor |-> req[q].factor]]

End(q) == req' = [req EXCEPT ![q] = NoRequest]

-----------------------------------------------------------------------------
(* Logging in. *)

(* Mutant: the first step does not look at the status. *)
MayLoginAnyone(u) == TRUE

MayLogin(u) == status[u] \in Admitted

(* authenticate_user without a second factor, up to the row's commit. *)
Login(q, u) ==
    /\ MayLogin(u) /\ u \notin mfa
    /\ Begin(q, "issuing", u, NoPair, version[u], "password")
    /\ UNCHANGED <<userVars, tokenVars>>

(* authenticate_user with one: the user gets an MFA session token. *)
Challenge(u) ==
    /\ MayLogin(u) /\ u \in mfa
    /\ challenges' = challenges \cup {[user |-> u, checked |-> version[u]]}
    /\ UNCHANGED <<userVars, issued, live, access, ended, req>>

(* verify_mfa: the token may serve several times; the row is read only for
   its secret. *)
VerifyMfa(q, c) ==
    /\ c \in challenges /\ c.user \in mfa
    /\ Begin(q, "issuing", c.user, NoPair, c.checked, "totp")
    /\ UNCHANGED <<userVars, tokenVars>>

IsIssued(p) == issued[p].user # NoUser
SessionOf(p) == issued[p].session

(* _issue_tokens: a fresh pair, whose refresh token goes to Redis. *)
Issue(q, p) ==
    /\ req[q].phase = "issuing"
    /\ ~IsIssued(p)
    /\ LET old == req[q].old
       IN  issued' = [issued EXCEPT ![p] =
               [user    |-> req[q].user,
                session |-> IF old = NoPair THEN p ELSE SessionOf(old),
                checked |-> req[q].checked,
                factor  |-> req[q].factor]]
    /\ live' = live \cup {p}
    /\ access' = access \cup {p}
    /\ End(q)
    /\ UNCHANGED <<userVars, challenges, ended>>

-----------------------------------------------------------------------------
(* Exchanging a refresh token. *)

(* Mutant: GET instead of GETDEL. *)
ExchangeKeeps(q, p) ==
    /\ p \in live
    /\ Begin(q, "exchanging", issued[p].user, p, issued[p].checked, issued[p].factor)
    /\ UNCHANGED <<userVars, tokenVars>>

(* validate_and_rotate_refresh_token; a token that is not in Redis any more
   is refused, which changes nothing. *)
Exchange(q, p) ==
    /\ p \in live
    /\ Begin(q, "exchanging", issued[p].user, p, issued[p].checked, issued[p].factor)
    /\ live' = live \ {p}
    /\ UNCHANGED <<userVars, issued, access, challenges, ended>>

(* Mutant: the row is only looked up. *)
MayExchangeAnyone(u) == TRUE

MayExchange(u) == status[u] = "active"

(* refresh_tokens then reads the row; the old token is gone in any case. *)
Check(q) ==
    /\ req[q].phase = "exchanging"
    /\ IF MayExchange(req[q].user)
       THEN /\ Goto(q, "issuing", version[req[q].user])
            /\ UNCHANGED ended
       ELSE /\ End(q)
            /\ ended' = ended \cup {SessionOf(req[q].old)}
    /\ UNCHANGED <<userVars, issued, live, access, challenges>>

-----------------------------------------------------------------------------
(* Logging out, and TOTP enrolment: requests with an access token. *)

(* get_current_user: the signature, the expiry and the revocation list. *)
Authorized(q, p, phase) ==
    /\ p \in access
    /\ Begin(q, phase, issued[p].user, p, issued[p].checked, issued[p].factor)
    /\ UNCHANGED <<userVars, tokenVars>>

Leave(q, p) == Authorized(q, p, "leaving")

(* revoke_token; without a refresh token that is all. *)
Revoke(q) ==
    /\ req[q].phase = "leaving"
    /\ access' = access \ {req[q].old}
    /\ Goto(q, "revoked", req[q].checked) \/ End(q)
    /\ UNCHANGED <<userVars, issued, live, challenges, ended>>

(* The refresh token the client passed, which may be an old one. *)
DeleteRefresh(q, p) ==
    /\ req[q].phase = "revoked"
    /\ IsIssued(p)
    /\ ended' = IF p \in live THEN ended \cup {SessionOf(p)} ELSE ended
    /\ live' = live \ {p}
    /\ End(q)
    /\ UNCHANGED <<userVars, issued, access, challenges>>

WriteUser(u, s, withMfa) ==
    /\ status' = [status EXCEPT ![u] = s]
    /\ mfa' = withMfa
    /\ IF s = status[u] /\ withMfa = mfa
       THEN UNCHANGED version
       ELSE /\ version[u] < MaxChanges
            /\ version' = [version EXCEPT ![u] = @ + 1]

(* setup_totp stores a pending secret. *)
SetupTotp(q) ==
    /\ req[q].phase = "setup"
    /\ enrolling' = enrolling \cup {req[q].user}
    /\ End(q)
    /\ UNCHANGED <<status, mfa, version, tokenVars>>

(* confirm_totp_setup has read the pending secret. *)
FetchPending(q, p) ==
    /\ issued[p].user \in enrolling
    /\ Authorized(q, p, "confirming")

(* Mutant: the status is the method's name. *)
ConfirmTotpWrong(q) ==
    /\ req[q].phase = "confirming"
    /\ WriteUser(req[q].user, "totp", mfa \cup {req[q].user})
    /\ enrolling' = enrolling \ {req[q].user}
    /\ End(q)
    /\ UNCHANGED tokenVars

(* Its update turns MFA on and makes the user active, whatever the row says
   by then. *)
ConfirmTotp(q) ==
    /\ req[q].phase = "confirming"
    /\ WriteUser(req[q].user, "active", mfa \cup {req[q].user})
    /\ enrolling' = enrolling \ {req[q].user}
    /\ End(q)
    /\ UNCHANGED tokenVars

DisableTotp(q) ==
    /\ req[q].phase = "disabling"
    /\ WriteUser(req[q].user, status[req[q].user], mfa \ {req[q].user})
    /\ enrolling' = enrolling \ {req[q].user}
    /\ End(q)
    /\ UNCHANGED tokenVars

-----------------------------------------------------------------------------
(* Administrators, time and failures. *)

(* update_user, delete_user and their SCIM counterparts. *)
SetStatus(u, s) ==
    /\ WriteUser(u, s, mfa)
    /\ UNCHANGED <<enrolling, tokenVars, req>>

ExpireAccess(p) ==
    /\ p \in access
    /\ access' = access \ {p}
    /\ UNCHANGED <<userVars, issued, live, challenges, ended, req>>

ExpireRefresh(p) ==
    /\ p \in live
    /\ live' = live \ {p}
    /\ ended' = ended \cup {SessionOf(p)}
    /\ UNCHANGED <<userVars, issued, access, challenges, req>>

ExpireChallenge(c) ==
    /\ c \in challenges
    /\ challenges' = challenges \ {c}
    /\ UNCHANGED <<userVars, issued, live, access, ended, req>>

(* A request holds its session's token between GETDEL and SETEX. *)
Holding(q) == req[q].phase \in {"exchanging", "issuing"} /\ req[q].old # NoPair

(* A store fails or the process dies: what is done stays done. *)
Fail(q) ==
    /\ req[q].phase # "idle"
    /\ ended' = IF Holding(q) THEN ended \cup {SessionOf(req[q].old)} ELSE ended
    /\ End(q)
    /\ UNCHANGED <<userVars, issued, live, access, challenges>>

-----------------------------------------------------------------------------
Next ==
    \/ \E u \in Users : Challenge(u) \/ \E q \in Requests : Login(q, u)
    \/ \E q \in Requests, c \in challenges : VerifyMfa(q, c)
    \/ \E q \in Requests, p \in Pairs :
          \/ Issue(q, p) \/ Exchange(q, p)
          \/ Leave(q, p) \/ DeleteRefresh(q, p)
          \/ Authorized(q, p, "setup") \/ FetchPending(q, p)
          \/ Authorized(q, p, "disabling")
    \/ \E q \in Requests :
          \/ Check(q) \/ Revoke(q) \/ SetupTotp(q) \/ ConfirmTotp(q)
          \/ DisableTotp(q) \/ Fail(q)
    \/ \E u \in Users, s \in Status : SetStatus(u, s)
    \/ \E p \in Pairs : ExpireAccess(p) \/ ExpireRefresh(p)
    \/ \E c \in challenges : ExpireChallenge(c)

Spec == Init /\ [][Next]_vars

-----------------------------------------------------------------------------
(* Properties. *)

Sessions == {p \in Pairs : SessionOf(p) = p}
Holders(s) == {q \in Requests : Holding(q) /\ SessionOf(req[q].old) = s}
Tokens(s) == {p \in live : SessionOf(p) = s}

(* A session has one refresh token: it is in Redis, or one request holds it
   between its deletion and the next pair, or it is gone for good.  So two
   requests never exchange one token, no token outlives its exchange, and a
   logout that deletes the current token ends the session even when a late
   request is still at work. *)
OneTokenPerSession ==
    \A s \in Sessions :
        /\ \A p, r \in Tokens(s) : p = r
        /\ \A q, r \in Holders(s) : q = r
        /\ Tokens(s) = {} \/ Holders(s) = {}
        /\ s \in ended <=> Tokens(s) = {} /\ Holders(s) = {}

(* Tokens issued on the current row of their user are those of a user who may
   log in, and a login that MFA applies to has passed it.  What was checked on
   an older row (by a request in flight, or by the first step of an MFA login)
   still yields tokens. *)
IssuedToAdmitted ==
    \A p \in Pairs :
        IsIssued(p) /\ issued[p].checked = version[issued[p].user]
            => /\ status[issued[p].user] \in Admitted
               /\ SessionOf(p) = p /\ issued[p].user \in mfa
                    => issued[p].factor = "totp"

(* A deactivated user becomes active again through an administrator, or
   through a TOTP confirmation whose access token is older than the
   deactivation: confirm_totp_setup does not look at the status it sets. *)
ReactivatedKnowingly ==
    [][\A u \in Users :
         status[u] \notin Admitted /\ status'[u] \in Admitted
            => \/ \E s \in Status : SetStatus(u, s)
               \/ \E q \in Requests : /\ req[q].phase = "confirming"
                                      /\ req[q].user = u
                                      /\ req[q].checked < version[u]]_vars

(* Why these hold: what a request or an MFA token carries was checked on its
   user's row as it is now or as it was before. *)
CheckedBefore(u, checked) ==
    /\ checked <= version[u]
    /\ checked = version[u] => status[u] \in Admitted

PairsInOrder ==
    /\ live \cup access \cup Sessions \subseteq {p \in Pairs : IsIssued(p)}
    /\ ended \subseteq Sessions
    /\ \A p \in Pairs : IsIssued(p) =>
          /\ SessionOf(p) \in Sessions
          /\ IsIssued(SessionOf(p))
          /\ CheckedBefore(issued[p].user, issued[p].checked)

InOrder(r) ==
    r.phase # "idle" =>
        /\ r.user # NoUser
        /\ CheckedBefore(r.user, r.checked)
        /\ r.old # NoPair => IsIssued(r.old)
        /\ r.phase = "exchanging" => r.old # NoPair
        /\ (/\ r.phase = "issuing" /\ r.old = NoPair
            /\ r.checked = version[r.user]
            /\ r.user \in mfa) => r.factor = "totp"

RequestsInOrder == \A q \in Requests : InOrder(req[q])

ChallengesInOrder == \A c \in challenges : CheckedBefore(c.user, c.checked)

IInv ==
    /\ TypeOK
    /\ OneTokenPerSession
    /\ IssuedToAdmitted
    /\ PairsInOrder
    /\ RequestsInOrder
    /\ ChallengesInOrder
=============================================================================
