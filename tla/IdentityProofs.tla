--------------------------- MODULE IdentityProofs ---------------------------
(***************************************************************************)
(* Proofs about the identity service, for any users, requests, roles and   *)
(* accounts: sessions on their own, that they are the same beside roles    *)
(* and accounts, and that administrators keep the directory whole.         *)
(***************************************************************************)
EXTENDS Identity, TLAPS

-----------------------------------------------------------------------------
(* Sessions. *)

USE ConstantsAssumption DEF Status, Admitted, Factor, Phase

(* IInv holds initially. *)
LEMMA InitIInv == Init => IInv
<1> SUFFICES ASSUME Init PROVE IInv OBVIOUS
<1>1. TypeOK
  BY DEF Init, TypeOK, Unissued, NoRequest, Issued, Request
<1>2. OneTokenPerSession
  BY DEF Init, OneTokenPerSession, Sessions, SessionOf, Unissued
<1>3. IssuedToAdmitted BY DEF Init, IssuedToAdmitted, IsIssued, Unissued
<1>4. PairsInOrder
  BY DEF Init, PairsInOrder, IsIssued, Unissued, Sessions, SessionOf
<1>5. RequestsInOrder BY DEF Init, RequestsInOrder, InOrder, NoRequest
<1>6. ChallengesInOrder BY DEF Init, ChallengesInOrder
<1>7. QED BY <1>1, <1>2, <1>3, <1>4, <1>5, <1>6 DEF IInv

(* What OneTokenPerSession looks at stays as it is when no request begins or
   stops holding a token. *)
LEMMA HoldersFrame ==
    ASSUME OneTokenPerSession, UNCHANGED <<issued, live, ended>>,
           \A q \in Requests :
              /\ Holding(q)' <=> Holding(q)
              /\ Holding(q) => req'[q].old = req[q].old
    PROVE  OneTokenPerSession'
<1>1. Sessions' = Sessions BY DEF Sessions, SessionOf
<1>2. \A s \in Sessions : Holders(s)' = Holders(s)
  BY DEF Holders, SessionOf
<1>3. \A s \in Sessions : Tokens(s)' = Tokens(s)
  BY DEF Tokens, SessionOf
<1>4. QED BY <1>1, <1>2, <1>3 DEF OneTokenPerSession

(* The tokens alone: a step that touches neither the users nor the pairs
   issued keeps what they say. *)
LEMMA PairsFrame ==
    ASSUME PairsInOrder, IssuedToAdmitted, UNCHANGED <<userVars, issued>>,
           live' \subseteq live, access' \subseteq access, ended' \subseteq Sessions
    PROVE  PairsInOrder' /\ IssuedToAdmitted'
<1>1. Sessions' = Sessions BY DEF Sessions, SessionOf
<1>2. PairsInOrder'
  BY <1>1 DEF PairsInOrder, userVars, IsIssued, SessionOf, CheckedBefore
<1>3. IssuedToAdmitted'
  BY DEF IssuedToAdmitted, userVars, IsIssued, SessionOf
<1>4. QED BY <1>2, <1>3

(* One request changes to a request in order, and no user row and no pair
   changes. *)
LEMMA RequestFrame ==
    ASSUME TypeOK, RequestsInOrder, UNCHANGED <<userVars, issued>>,
           NEW q \in Requests, NEW r \in Request, InOrder(r),
           req' = [req EXCEPT ![q] = r]
    PROVE  RequestsInOrder' /\ req' \in [Requests -> Request]
<1>1. req' \in [Requests -> Request] /\ req'[q] = r
      /\ \A p \in Requests \ {q} : req'[p] = req[p]
  BY DEF TypeOK
<1>2. \A p \in Requests : InOrder(req'[p])
  BY <1>1 DEF RequestsInOrder, InOrder
<1>3. RequestsInOrder'
  BY <1>2 DEF RequestsInOrder, InOrder, userVars, CheckedBefore, IsIssued
<1>4. QED BY <1>1, <1>3

(* A request that ends, or that never held a token. *)
LEMMA NoRequestInOrder ==
    NoRequest \in Request /\ InOrder(NoRequest)
BY DEF NoRequest, Request, InOrder

(* The token a request holds is the one it presents. *)
LEMMA EndKeepsHolders ==
    ASSUME TypeOK, OneTokenPerSession, UNCHANGED <<issued, live, ended>>,
           NEW q \in Requests, ~Holding(q), NEW r \in Request,
           r.phase \notin {"exchanging", "issuing"} \/ r.old = NoPair,
           req' = [req EXCEPT ![q] = r]
    PROVE  OneTokenPerSession'
<1>1. req'[q] = r /\ \A p \in Requests \ {q} : req'[p] = req[p]
  BY DEF TypeOK
<1>2. \A p \in Requests :
         /\ Holding(p)' <=> Holding(p)
         /\ Holding(p) => req'[p].old = req[p].old
  BY <1>1 DEF Holding
<1>3. QED BY <1>2, HoldersFrame

(* A request begins with what a pair of tokens or a login says. *)
LEMMA BeginPreservesIInv ==
    ASSUME IInv, NEW q \in Requests, NEW phase \in Phase, NEW u \in Users,
           NEW old \in Pairs \cup {NoPair}, NEW checked \in Nat,
           NEW factor \in Factor,
           Begin(q, phase, u, old, checked, factor),
           CheckedBefore(u, checked), old # NoPair => IsIssued(old),
           phase \notin {"exchanging", "issuing"} \/ old = NoPair,
           phase # "exchanging",
           (/\ phase = "issuing" /\ checked = version[u]
            /\ u \in mfa) => factor = "totp",
           UNCHANGED <<userVars, issued, live, access, ended>>,
           challenges' \subseteq challenges
    PROVE  IInv'
<1> USE DEF IInv
<1> DEFINE r == [phase |-> phase, user |-> u, old |-> old,
                 checked |-> checked, factor |-> factor]
<1>1. r \in Request BY DEF Request
<1>2. InOrder(r) BY DEF InOrder
<1>3. req' = [req EXCEPT ![q] = r] /\ ~Holding(q) BY DEF Begin, Holding
<1>4. r.phase \notin {"exchanging", "issuing"} \/ r.old = NoPair OBVIOUS
<1> HIDE DEF r
<1>5. RequestsInOrder' /\ req' \in [Requests -> Request]
  BY <1>1, <1>2, <1>3, RequestFrame
<1>6. OneTokenPerSession' BY <1>1, <1>3, <1>4, EndKeepsHolders
<1>7. PairsInOrder' /\ IssuedToAdmitted'
  BY PairsFrame DEF PairsInOrder
<1>8. ChallengesInOrder' BY DEF ChallengesInOrder, CheckedBefore, userVars
<1>9. TypeOK' BY <1>5 DEF TypeOK, userVars
<1>10. QED BY <1>5, <1>6, <1>7, <1>8, <1>9

(* A request that holds no token ends. *)
LEMMA EndPreservesIInv ==
    ASSUME IInv, NEW q \in Requests, End(q), ~Holding(q),
           UNCHANGED <<userVars, issued, live, ended, challenges>>,
           access' \subseteq access
    PROVE  IInv'
<1> USE DEF IInv
<1>1. RequestsInOrder' /\ req' \in [Requests -> Request]
  BY NoRequestInOrder, RequestFrame DEF End
<1>2. OneTokenPerSession'
  BY NoRequestInOrder, EndKeepsHolders DEF End, NoRequest
<1>3. PairsInOrder' /\ IssuedToAdmitted' BY PairsFrame DEF PairsInOrder
<1>4. ChallengesInOrder' BY DEF ChallengesInOrder, CheckedBefore, userVars
<1>5. TypeOK' BY <1>1, <1>3 DEF TypeOK, userVars
<1>6. QED BY <1>1, <1>2, <1>3, <1>4, <1>5

-----------------------------------------------------------------------------
(* The actions. *)

(* A first step of a login that asks for the second factor. *)
LEMMA ChallengePreservesIInv ==
    ASSUME IInv, NEW u \in Users, Challenge(u)
    PROVE  IInv'
<1> USE DEF IInv
<1>1. CheckedBefore(u, version[u]) /\ version[u] \in Nat
  BY DEF Challenge, MayLogin, CheckedBefore, TypeOK
<1>2. TypeOK' BY <1>1 DEF Challenge, TypeOK, userVars
<1>3. ChallengesInOrder'
  BY <1>1 DEF Challenge, ChallengesInOrder, CheckedBefore, userVars
<1>4. OneTokenPerSession' BY HoldersFrame DEF Challenge, Holding
<1>5. PairsInOrder' /\ IssuedToAdmitted'
  BY PairsFrame DEF Challenge, PairsInOrder
<1>6. RequestsInOrder'
  BY DEF Challenge, RequestsInOrder, InOrder, userVars, CheckedBefore, IsIssued
<1>7. QED BY <1>2, <1>3, <1>4, <1>5, <1>6

(* The requests that begin. *)
LEMMA BeginningsPreserveIInv ==
    ASSUME IInv, NEW q \in Requests,
           \/ \E u \in Users : Login(q, u)
           \/ \E c \in challenges : VerifyMfa(q, c)
           \/ \E p \in Pairs, phase \in {"leaving", "setup", "confirming", "disabling"} :
                 Authorized(q, p, phase)
    PROVE  IInv'
<1> USE DEF IInv
<1>1. ASSUME NEW u \in Users, Login(q, u) PROVE IInv'
  <2>1. CheckedBefore(u, version[u]) /\ version[u] \in Nat
    BY <1>1 DEF Login, MayLogin, CheckedBefore, TypeOK
  <2>2. Begin(q, "issuing", u, NoPair, version[u], "password") /\ u \notin mfa
    BY <1>1 DEF Login
  <2>3. QED BY <1>1, <2>1, <2>2, BeginPreservesIInv DEF Login, tokenVars
<1>2. ASSUME NEW c \in challenges, VerifyMfa(q, c) PROVE IInv'
  <2>1. c.user \in Users /\ c.checked \in Nat /\ CheckedBefore(c.user, c.checked)
    BY DEF TypeOK, ChallengesInOrder
  <2>2. Begin(q, "issuing", c.user, NoPair, c.checked, "totp")
    BY <1>2 DEF VerifyMfa
  <2>3. QED BY <1>2, <2>1, <2>2, BeginPreservesIInv DEF VerifyMfa, tokenVars
<1>3. ASSUME NEW p \in Pairs,
             NEW phase \in {"leaving", "setup", "confirming", "disabling"},
             Authorized(q, p, phase)
      PROVE  IInv'
  <2>1. IsIssued(p) BY <1>3 DEF Authorized, PairsInOrder
  <2>2. /\ issued[p].user \in Users /\ issued[p].checked \in Nat
        /\ issued[p].factor \in Factor
        /\ CheckedBefore(issued[p].user, issued[p].checked)
    BY <2>1 DEF TypeOK, Issued, IsIssued, PairsInOrder
  <2>3. Begin(q, phase, issued[p].user, p, issued[p].checked, issued[p].factor)
    BY <1>3 DEF Authorized
  <2>4. QED BY <1>3, <2>1, <2>2, <2>3, BeginPreservesIInv DEF Authorized, tokenVars
<1>4. QED BY <1>1, <1>2, <1>3

(* A request takes the token out of Redis and holds it: nobody else did. *)
LEMMA ExchangePreservesIInv ==
    ASSUME IInv, NEW q \in Requests, NEW p \in Pairs, Exchange(q, p)
    PROVE  IInv'
<1> USE DEF IInv
<1> DEFINE r == [phase |-> "exchanging", user |-> issued[p].user, old |-> p,
                 checked |-> issued[p].checked, factor |-> issued[p].factor]
<1>1. /\ p \in live /\ IsIssued(p) /\ ~Holding(q)
      /\ req' = [req EXCEPT ![q] = r]
  BY DEF Exchange, Begin, Holding, PairsInOrder
<1>2. r \in Request /\ InOrder(r)
  BY <1>1 DEF Request, InOrder, TypeOK, Issued, IsIssued, PairsInOrder
<1>3. r.phase = "exchanging" /\ r.old = p OBVIOUS
<1> HIDE DEF r
<1>4. RequestsInOrder' /\ req' \in [Requests -> Request]
  BY <1>1, <1>2, RequestFrame DEF Exchange
<1>5. /\ Holding(q)' /\ req'[q].old = p
      /\ \A o \in Requests \ {q} : req'[o] = req[o]
  BY <1>1, <1>3 DEF TypeOK, Holding
<1>6. Sessions' = Sessions BY DEF Exchange, Sessions, SessionOf
<1>7. SessionOf(p) \in Sessions BY <1>1 DEF PairsInOrder
<1>8. \A s \in Sessions :
         /\ Tokens(s)' = Tokens(s) \ {p}
         /\ Holders(s)' = IF s = SessionOf(p) THEN Holders(s) \cup {q} ELSE Holders(s)
  BY <1>1, <1>5 DEF Exchange, Tokens, Holders, Holding, SessionOf
<1>9. p \in Tokens(SessionOf(p)) BY <1>1 DEF Tokens
<1>10. \A s \in Sessions \ {SessionOf(p)} : p \notin Tokens(s) BY DEF Tokens
<1>11. OneTokenPerSession'
  BY <1>6, <1>7, <1>8, <1>9, <1>10 DEF OneTokenPerSession, Exchange
<1>12. PairsInOrder' /\ IssuedToAdmitted'
  BY PairsFrame DEF Exchange, PairsInOrder
<1>13. ChallengesInOrder'
  BY DEF Exchange, ChallengesInOrder, CheckedBefore, userVars
<1>14. TypeOK' BY <1>4 DEF Exchange, TypeOK, userVars
<1>15. QED BY <1>4, <1>11, <1>12, <1>13, <1>14

(* The holder of a session's token gives it up for good. *)
LEMMA LosePreservesIInv ==
    ASSUME IInv, NEW q \in Requests, Holding(q), End(q),
           ended' = ended \cup {SessionOf(req[q].old)},
           UNCHANGED <<userVars, issued, live, access, challenges>>
    PROVE  IInv'
<1> USE DEF IInv
<1> DEFINE s == SessionOf(req[q].old)
<1>1. req[q].old \in Pairs /\ s \in Sessions /\ q \in Holders(s)
  BY DEF Holding, RequestsInOrder, InOrder, PairsInOrder, TypeOK, Request, Holders
<1>2. RequestsInOrder' /\ req' \in [Requests -> Request]
  BY NoRequestInOrder, RequestFrame DEF End
<1>3. ~Holding(q)' /\ \A o \in Requests \ {q} : req'[o] = req[o]
  BY DEF End, TypeOK, Holding, NoRequest
<1>4. Sessions' = Sessions /\ \A t \in Sessions : Tokens(t)' = Tokens(t)
  BY DEF Sessions, SessionOf, Tokens
<1>5. \A t \in Sessions : Holders(t)' = Holders(t) \ {q}
  BY <1>3 DEF Holders, Holding, SessionOf
<1>6. \A t \in Sessions \ {s} : q \notin Holders(t) BY DEF Holders
<1>7. OneTokenPerSession'
  BY <1>1, <1>4, <1>5, <1>6 DEF OneTokenPerSession
<1>8. PairsInOrder' /\ IssuedToAdmitted'
  BY <1>1, PairsFrame DEF PairsInOrder
<1>9. ChallengesInOrder' BY DEF ChallengesInOrder, CheckedBefore, userVars
<1>10. TypeOK' BY <1>1, <1>2 DEF TypeOK, userVars, Sessions
<1>11. QED BY <1>2, <1>7, <1>8, <1>9, <1>10

(* The row decides whether the exchange goes on. *)
LEMMA CheckPreservesIInv ==
    ASSUME IInv, NEW q \in Requests, Check(q)
    PROVE  IInv'
<1> USE DEF IInv
<1>1. /\ Holding(q) /\ req[q].user \in Users /\ req[q].old \in Pairs
      /\ IsIssued(req[q].old) /\ req[q] \in Request
  BY DEF Check, Holding, RequestsInOrder, InOrder, TypeOK, Request
<1>2. CASE ~MayExchange(req[q].user)
  BY <1>1, <1>2, LosePreservesIInv DEF Check
<1>3. CASE MayExchange(req[q].user)
  <2> DEFINE r == [phase |-> "issuing", user |-> req[q].user,
                   old |-> req[q].old, checked |-> version[req[q].user],
                   factor |-> req[q].factor]
  <2>1. /\ req' = [req EXCEPT ![q] = r]
        /\ UNCHANGED <<userVars, tokenVars>>
    BY <1>3 DEF Check, Goto, tokenVars
  <2>2. r \in Request /\ InOrder(r)
    BY <1>1, <1>3 DEF Request, InOrder, MayExchange, CheckedBefore, TypeOK
  <2>3. r.phase = "issuing" /\ r.old = req[q].old OBVIOUS
  <2> HIDE DEF r
  <2>4. RequestsInOrder' /\ req' \in [Requests -> Request]
    BY <2>1, <2>2, RequestFrame DEF tokenVars
  <2>5. \A o \in Requests : /\ Holding(o)' <=> Holding(o)
                            /\ req'[o].old = req[o].old
    BY <1>1, <2>1, <2>3 DEF TypeOK, Holding
  <2>6. OneTokenPerSession' BY <2>1, <2>5, HoldersFrame DEF tokenVars
  <2>7. PairsInOrder' /\ IssuedToAdmitted'
    BY <2>1, PairsFrame DEF PairsInOrder, tokenVars
  <2>8. ChallengesInOrder'
    BY <2>1 DEF ChallengesInOrder, CheckedBefore, userVars, tokenVars
  <2>9. TypeOK' BY <2>1, <2>4 DEF TypeOK, userVars, tokenVars
  <2>10. QED BY <2>4, <2>6, <2>7, <2>8, <2>9
<1>4. QED BY <1>2, <1>3

(* A fresh pair either opens a session or takes over the one its request
   holds: t is what its tokens say, s their session. *)
LEMMA FreshPair ==
    ASSUME IInv, NEW q \in Requests, NEW p \in Pairs, NEW t \in Issued,
           NEW s \in Pairs, NEW old \in Pairs \cup {NoPair},
           Issue(q, p), old = req[q].old, issued' = [issued EXCEPT ![p] = t],
           s = IF old = NoPair THEN p ELSE SessionOf(old),
           t.user = req[q].user, t.session = s,
           t.checked = req[q].checked, t.factor = req[q].factor
    PROVE  IInv'
<1> USE DEF IInv
<1>1. /\ req[q] \in Request /\ req[q].phase = "issuing" /\ InOrder(req[q])
      /\ ~IsIssued(p) /\ live' = live \cup {p} /\ access' = access \cup {p}
      /\ req' = [req EXCEPT ![q] = NoRequest]
      /\ UNCHANGED <<userVars, challenges, ended>>
  BY DEF Issue, End, TypeOK, RequestsInOrder
<1>2. /\ old # NoPair => IsIssued(old) /\ Holding(q)
      /\ old = NoPair => ~Holding(q)
      /\ t.user # NoUser
  BY <1>1 DEF InOrder, Holding
<1>3. old # NoPair => s \in Sessions /\ IsIssued(s) /\ s # p
  BY <1>1, <1>2 DEF PairsInOrder
<1>4. /\ issued' \in [Pairs -> Issued] /\ issued'[p] = t
      /\ \A o \in Pairs \ {p} : issued'[o] = issued[o]
  BY DEF TypeOK
<1>5. /\ IsIssued(p)' /\ SessionOf(p)' = s
      /\ \A o \in Pairs \ {p} : /\ IsIssued(o)' <=> IsIssued(o)
                               /\ SessionOf(o)' = SessionOf(o)
  BY <1>2, <1>4 DEF IsIssued, SessionOf
<1>6. p \notin Sessions /\ p \notin live /\ p \notin ended
  BY <1>1 DEF PairsInOrder
<1>7. \A o \in live : SessionOf(o) \in Sessions /\ o \in Pairs /\ o # p
  BY <1>1 DEF PairsInOrder
<1>8. \A o \in Requests : Holding(o) =>
          /\ req[o].old \in Pairs \ {p} /\ SessionOf(req[o].old) \in Sessions
  BY <1>1 DEF Holding, RequestsInOrder, InOrder, TypeOK, Request, PairsInOrder
<1>9. ~Holding(q)' /\ \A o \in Requests \ {q} : req'[o] = req[o]
  BY <1>1 DEF TypeOK, Holding, NoRequest
<1>10. \A x \in Pairs : Tokens(x)' = Tokens(x) \cup {o \in {p} : s = x}
  BY <1>1, <1>5, <1>7 DEF Tokens
<1>11. \A x \in Pairs : Holders(x)' = Holders(x) \ {q}
  BY <1>5, <1>8, <1>9 DEF Holders, Holding
<1>12. Sessions' = Sessions \cup {o \in {p} : s = p}
  BY <1>5, <1>6 DEF Sessions
<1>13. \A x \in Sessions \ {s} : Tokens(x)' = Tokens(x) /\ Holders(x)' = Holders(x)
  <2>1. ASSUME NEW x \in Sessions \ {s}
        PROVE  Tokens(x)' = Tokens(x) /\ Holders(x)' = Holders(x)
    <3>1. x \in Pairs BY DEF Sessions
    <3>2. {o \in {p} : s = x} = {} OBVIOUS
    <3>3. q \notin Holders(x) BY <1>2 DEF Holders
    <3>4. Tokens(x)' = Tokens(x) BY <3>1, <3>2, <1>10
    <3>5. Holders(x)' = Holders(x) BY <3>1, <3>3, <1>11
    <3>6. QED BY <3>4, <3>5
  <2>2. QED BY <2>1
<1>14. Tokens(s)' = {p} /\ Holders(s)' = {} /\ s \notin ended /\ s \in Sessions'
  <2>1. CASE old = NoPair
    <3>1. s = p BY <2>1
    <3>2. Tokens(s) = {} /\ Holders(s) = {}
      BY <2>1, <1>6, <1>7, <1>8 DEF Tokens, Holders
    <3>3. QED BY <3>1, <3>2, <1>6, <1>10, <1>11, <1>12
  <2>2. CASE old # NoPair
    <3>1. s \in Sessions /\ q \in Holders(s) BY <2>2, <1>2, <1>3 DEF Holders
    <3>2. Holders(s) = {q} /\ Tokens(s) = {} /\ s \notin ended
      BY <3>1 DEF OneTokenPerSession
    <3>3. QED BY <3>1, <3>2, <1>10, <1>11, <1>12
  <2>3. QED BY <2>1, <2>2
<1>15. OneTokenPerSession'
  <2>1. \A x \in Sessions' : x # s => x \in Sessions BY <1>12
  <2>2. ended' = ended BY <1>1
  <2>3. ASSUME NEW x \in Sessions'
        PROVE  /\ \A a, b \in Tokens(x)' : a = b
               /\ \A a, b \in Holders(x)' : a = b
               /\ Tokens(x)' = {} \/ Holders(x)' = {}
               /\ x \in ended' <=> Tokens(x)' = {} /\ Holders(x)' = {}
    <3>1. CASE x = s BY <3>1, <2>2, <1>14
    <3>2. CASE x # s
      BY <3>2, <2>1, <2>2, <1>13 DEF OneTokenPerSession
    <3>3. QED BY <3>1, <3>2
  <2>4. QED BY <2>3 DEF OneTokenPerSession
<1>16. \A u \in Users, n \in Nat : CheckedBefore(u, n)' <=> CheckedBefore(u, n)
  BY <1>1 DEF CheckedBefore, userVars
<1>17. PairsInOrder'
  <2>1. /\ live' \cup access' \cup Sessions' \subseteq {o \in Pairs : IsIssued(o)'}
        /\ ended' \subseteq Sessions'
    BY <1>1, <1>5, <1>12 DEF PairsInOrder
  <2>2. IsIssued(s)' BY <1>3, <1>5
  <2>3. \A o \in Pairs : IsIssued(o)' => SessionOf(o)' \in Sessions'
    BY <1>5, <1>12, <1>14 DEF PairsInOrder
  <2>4. \A o \in Pairs : IsIssued(o)' => \E x \in Pairs : x = SessionOf(o)' /\ IsIssued(x)'
    BY <2>2, <1>5, <1>6 DEF PairsInOrder, Sessions
  <2>5. ASSUME NEW o \in Pairs, IsIssued(o)'
        PROVE  CheckedBefore(issued[o].user, issued[o].checked)'
    <3>1. PICK u \in Users, n \in Nat :
             u = issued'[o].user /\ n = issued'[o].checked
      BY <2>5, <1>4 DEF IsIssued, Issued
    <3>2. CheckedBefore(u, n)
      <4>1. CASE o = p BY <4>1, <3>1, <1>1, <1>4 DEF InOrder
      <4>2. CASE o # p BY <4>2, <3>1, <2>5, <1>4, <1>5 DEF PairsInOrder
      <4>3. QED BY <4>1, <4>2
    <3>3. CheckedBefore(u, n)' BY <3>2, <1>16
    <3>4. QED BY <3>1, <3>3 DEF CheckedBefore
  <2>6. QED BY <2>1, <2>3, <2>4, <2>5 DEF PairsInOrder, IsIssued, SessionOf
<1>18. IssuedToAdmitted'
  <2>1. /\ t.checked = version[t.user] => status[t.user] \in Admitted
        /\ (s = p /\ t.checked = version[t.user] /\ t.user \in mfa)
              => t.factor = "totp"
    BY <1>1, <1>3 DEF InOrder, CheckedBefore
  <2>2. QED BY <2>1, <1>1, <1>4, <1>5 DEF IssuedToAdmitted, userVars
<1>19. RequestsInOrder'
  <2>1. \A o \in Requests : InOrder(req'[o])
    BY <1>1, <1>9, NoRequestInOrder DEF RequestsInOrder, TypeOK
  <2>2. \A r \in Request : InOrder(r) => InOrder(r)'
    BY <1>1, <1>5 DEF InOrder, Request, CheckedBefore, userVars
  <2>3. req' \in [Requests -> Request]
    BY <1>1, NoRequestInOrder DEF TypeOK
  <2>4. QED BY <2>1, <2>2, <2>3 DEF RequestsInOrder
<1>20. ChallengesInOrder'
  BY <1>1 DEF ChallengesInOrder, CheckedBefore, userVars
<1>21. TypeOK'
  BY <1>1, <1>4, NoRequestInOrder DEF TypeOK, userVars
<1>22. QED BY <1>15, <1>17, <1>18, <1>19, <1>20, <1>21

LEMMA IssuePreservesIInv ==
    ASSUME IInv, NEW q \in Requests, NEW p \in Pairs, Issue(q, p)
    PROVE  IInv'
<1> USE DEF IInv
<1> DEFINE s == IF req[q].old = NoPair THEN p ELSE SessionOf(req[q].old)
           t == [user |-> req[q].user, session |-> s,
                 checked |-> req[q].checked, factor |-> req[q].factor]
<1>1. /\ req[q] \in Request /\ req[q].user # NoUser
      /\ req[q].old # NoPair => IsIssued(req[q].old)
  BY DEF Issue, TypeOK, RequestsInOrder, InOrder
<1>2. req[q].old \in Pairs \cup {NoPair} /\ s \in Pairs
  BY <1>1 DEF Request, PairsInOrder, Sessions
<1>3. t \in Issued BY <1>1, <1>2 DEF Request, Issued
<1>4. issued' = [issued EXCEPT ![p] = t] BY DEF Issue
<1>5. /\ t.user = req[q].user /\ t.session = s
      /\ t.checked = req[q].checked /\ t.factor = req[q].factor
  OBVIOUS
<1>6. s = IF req[q].old = NoPair THEN p ELSE SessionOf(req[q].old) OBVIOUS
<1> HIDE DEF s, t
<1>7. QED BY <1>2, <1>3, <1>4, <1>5, <1>6, FreshPair

(* A token leaves Redis for good. *)
LEMMA DropToken ==
    ASSUME IInv, NEW p \in live, live' = live \ {p},
           ended' = ended \cup {SessionOf(p)}, issued' = issued,
           \A q \in Requests : /\ Holding(q)' <=> Holding(q)
                               /\ Holding(q) => req'[q].old = req[q].old
    PROVE  OneTokenPerSession' /\ ended' \subseteq Sessions /\ p \in Pairs
<1> USE DEF IInv
<1>1. p \in Pairs /\ SessionOf(p) \in Sessions BY DEF PairsInOrder
<1>2. Sessions' = Sessions BY DEF Sessions, SessionOf
<1>3. \A s \in Sessions : /\ Holders(s)' = Holders(s)
                          /\ Tokens(s)' = Tokens(s) \ {p}
  BY DEF Holders, Tokens, SessionOf
<1>4. \A s \in Sessions \ {SessionOf(p)} : p \notin Tokens(s) BY DEF Tokens
<1>5. p \in Tokens(SessionOf(p)) BY DEF Tokens
<1>6. OneTokenPerSession'
  BY <1>1, <1>2, <1>3, <1>4, <1>5 DEF OneTokenPerSession
<1>7. QED BY <1>1, <1>6 DEF PairsInOrder

(* A logout revokes its access token and may go on to the refresh token. *)
LEMMA RevokePreservesIInv ==
    ASSUME IInv, NEW q \in Requests, Revoke(q)
    PROVE  IInv'
<1> USE DEF IInv
<1>1. /\ ~Holding(q) /\ access' \subseteq access /\ req[q] \in Request
      /\ UNCHANGED <<userVars, issued, live, challenges, ended>>
      /\ InOrder(req[q]) /\ req[q].phase = "leaving"
  BY DEF Revoke, Holding, TypeOK, RequestsInOrder
<1>2. CASE End(q) BY <1>1, <1>2, EndPreservesIInv
<1>3. CASE Goto(q, "revoked", req[q].checked)
  <2> DEFINE r == [phase |-> "revoked", user |-> req[q].user,
                   old |-> req[q].old, checked |-> req[q].checked,
                   factor |-> req[q].factor]
  <2>1. req' = [req EXCEPT ![q] = r] BY <1>3 DEF Goto
  <2>2. r \in Request /\ InOrder(r) /\ r.phase = "revoked"
    BY <1>1 DEF Request, InOrder
  <2> HIDE DEF r
  <2>3. RequestsInOrder' /\ req' \in [Requests -> Request]
    BY <1>1, <2>1, <2>2, RequestFrame
  <2>4. OneTokenPerSession' BY <1>1, <2>1, <2>2, EndKeepsHolders
  <2>5. PairsInOrder' /\ IssuedToAdmitted' BY <1>1, PairsFrame DEF PairsInOrder
  <2>6. ChallengesInOrder'
    BY <1>1 DEF ChallengesInOrder, CheckedBefore, userVars
  <2>7. TypeOK' BY <1>1, <2>3 DEF TypeOK, userVars
  <2>8. QED BY <2>3, <2>4, <2>5, <2>6, <2>7
<1>4. QED BY <1>2, <1>3 DEF Revoke

(* It deletes the refresh token the client passed, if Redis still has it. *)
LEMMA DeleteRefreshPreservesIInv ==
    ASSUME IInv, NEW q \in Requests, NEW p \in Pairs, DeleteRefresh(q, p)
    PROVE  IInv'
<1> USE DEF IInv
<1>1. ~Holding(q) /\ End(q) BY DEF DeleteRefresh, Holding
<1>2. CASE p \notin live
  BY <1>1, <1>2, EndPreservesIInv DEF DeleteRefresh
<1>3. CASE p \in live
  <2>1. \A o \in Requests : /\ Holding(o)' <=> Holding(o)
                            /\ Holding(o) => req'[o].old = req[o].old
    BY <1>1 DEF End, TypeOK, Holding, NoRequest
  <2>2. OneTokenPerSession' /\ ended' \subseteq Sessions
    BY <1>3, <2>1, DropToken DEF DeleteRefresh
  <2>3. RequestsInOrder' /\ req' \in [Requests -> Request]
    BY <1>1, NoRequestInOrder, RequestFrame DEF End, DeleteRefresh
  <2>4. PairsInOrder' /\ IssuedToAdmitted'
    BY <2>2, PairsFrame DEF DeleteRefresh, PairsInOrder
  <2>5. ChallengesInOrder'
    BY DEF DeleteRefresh, ChallengesInOrder, CheckedBefore, userVars
  <2>6. TypeOK'
    BY <2>2, <2>3 DEF DeleteRefresh, TypeOK, userVars, Sessions
  <2>7. QED BY <2>2, <2>3, <2>4, <2>5, <2>6
<1>4. QED BY <1>2, <1>3

(* It expires. *)
LEMMA ExpireRefreshPreservesIInv ==
    ASSUME IInv, NEW p \in Pairs, ExpireRefresh(p)
    PROVE  IInv'
<1> USE DEF IInv
<1>1. OneTokenPerSession' /\ ended' \subseteq Sessions
  BY DropToken DEF ExpireRefresh, Holding
<1>2. PairsInOrder' /\ IssuedToAdmitted'
  BY <1>1, PairsFrame DEF ExpireRefresh, PairsInOrder
<1>3. RequestsInOrder'
  BY DEF ExpireRefresh, RequestsInOrder, InOrder, userVars, CheckedBefore, IsIssued
<1>4. ChallengesInOrder'
  BY DEF ExpireRefresh, ChallengesInOrder, CheckedBefore, userVars
<1>5. TypeOK' BY <1>1 DEF ExpireRefresh, TypeOK, userVars, Sessions
<1>6. QED BY <1>1, <1>2, <1>3, <1>4, <1>5

(* A row is written: what was checked on it is now of an older version, or
   nothing changed. *)
LEMMA WritePreservesIInv ==
    ASSUME IInv, NEW u \in Users, NEW s \in Status, NEW withMfa \in SUBSET Users,
           withMfa \ {u} = mfa \ {u}, WriteUser(u, s, withMfa),
           UNCHANGED tokenVars, enrolling' \subseteq Users,
           UNCHANGED req \/ \E q \in Requests : End(q) /\ ~Holding(q)
    PROVE  IInv'
<1> USE DEF IInv, tokenVars
<1>1. /\ status' \in [Users -> Status] /\ mfa' \subseteq Users
      /\ version' \in [Users -> 0..MaxChanges]
  BY DEF WriteUser, TypeOK
<1>2. \A v \in Users :
         /\ version[v] \in Nat /\ version'[v] \in Nat /\ version[v] <= version'[v]
         /\ version'[v] = version[v] => /\ status'[v] = status[v]
                                        /\ (v \in mfa' => v \in mfa)
  BY DEF WriteUser, TypeOK
<1>3. ASSUME NEW v \in Users, NEW n \in Nat, CheckedBefore(v, n), n = version'[v]
      PROVE  n = version[v] /\ status'[v] \in Admitted /\ (v \in mfa' => v \in mfa)
  <2>1. n <= version[v] /\ version[v] <= n BY <1>2, <1>3 DEF CheckedBefore
  <2>2. n = version[v] BY <2>1, <1>2
  <2>3. version'[v] = version[v] BY <2>2, <1>3
  <2>4. status'[v] = status[v] /\ (v \in mfa' => v \in mfa) BY <2>3, <1>2
  <2>5. status[v] \in Admitted BY <2>2, <1>3 DEF CheckedBefore
  <2>6. QED BY <2>2, <2>4, <2>5
<1>4. ASSUME NEW v \in Users, NEW n \in Nat, CheckedBefore(v, n)
      PROVE  CheckedBefore(v, n)'
  <2>1. n <= version[v] BY <1>4 DEF CheckedBefore
  <2>2. n <= version'[v] BY <2>1, <1>2
  <2>3. QED BY <2>2, <1>4, <1>3 DEF CheckedBefore
<1>5. Sessions' = Sessions BY DEF Sessions, SessionOf
<1>6. \A p \in Pairs : IsIssued(p) =>
         issued[p].user \in Users /\ issued[p].checked \in Nat
  BY DEF TypeOK, Issued, IsIssued
<1>7. PairsInOrder'
  <2>1. \A p \in Pairs : IsIssued(p) => CheckedBefore(issued[p].user, issued[p].checked)'
    <3>1. ASSUME NEW p \in Pairs, IsIssued(p)
          PROVE  CheckedBefore(issued[p].user, issued[p].checked)'
      <4>1. PICK v \in Users, n \in Nat : v = issued[p].user /\ n = issued[p].checked
        BY <3>1, <1>6
      <4>2. CheckedBefore(v, n)' BY <3>1, <4>1, <1>4 DEF PairsInOrder
      <4>3. QED BY <4>1, <4>2 DEF CheckedBefore
    <3>2. QED BY <3>1
  <2>2. QED BY <2>1, <1>5 DEF PairsInOrder, IsIssued, SessionOf
<1>8. IssuedToAdmitted'
  BY <1>3, <1>6 DEF IssuedToAdmitted, PairsInOrder, IsIssued, SessionOf
<1>9. \A r \in Request : InOrder(r) => InOrder(r)'
  BY <1>4, <1>3 DEF InOrder, Request, IsIssued
<1>10. \A o \in Requests : /\ Holding(o)' <=> Holding(o)
                           /\ Holding(o) => req'[o].old = req[o].old
  BY DEF End, TypeOK, Holding, NoRequest
<1>11. OneTokenPerSession' BY <1>10, HoldersFrame
<1>12. req' \in [Requests -> Request] /\ \A o \in Requests : InOrder(req'[o])
  BY NoRequestInOrder DEF End, TypeOK, RequestsInOrder
<1>13. RequestsInOrder' BY <1>9, <1>12 DEF RequestsInOrder
<1>14. ChallengesInOrder'
  <2>1. ASSUME NEW c \in challenges PROVE CheckedBefore(c.user, c.checked)'
    <3>1. c.user \in Users /\ c.checked \in Nat BY DEF TypeOK
    <3>2. QED BY <3>1, <1>4 DEF ChallengesInOrder
  <2>2. QED BY <2>1 DEF ChallengesInOrder
<1>15. TypeOK' BY <1>1, <1>12 DEF TypeOK
<1>16. QED BY <1>7, <1>8, <1>11, <1>13, <1>14, <1>15

(* Every step keeps IInv. *)
LEMMA StepPreservesIInv == IInv /\ [Next]_vars => IInv'
<1> SUFFICES ASSUME IInv, [Next]_vars PROVE IInv' OBVIOUS
<1>1. ASSUME NEW u \in Users, NEW q \in Requests, Login(q, u) PROVE IInv'
  BY <1>1, BeginningsPreserveIInv
<1>2. ASSUME NEW u \in Users, Challenge(u) PROVE IInv'
  BY <1>2, ChallengePreservesIInv
<1>3. ASSUME NEW q \in Requests, NEW c \in challenges, VerifyMfa(q, c) PROVE IInv'
  BY <1>3, BeginningsPreserveIInv
<1>4. ASSUME NEW q \in Requests, NEW p \in Pairs, Issue(q, p) PROVE IInv'
  BY <1>4, IssuePreservesIInv
<1>5. ASSUME NEW q \in Requests, NEW p \in Pairs, Exchange(q, p) PROVE IInv'
  BY <1>5, ExchangePreservesIInv
<1>6. ASSUME NEW q \in Requests, NEW p \in Pairs,
             \/ Leave(q, p)
             \/ Authorized(q, p, "setup") \/ FetchPending(q, p)
             \/ Authorized(q, p, "disabling")
      PROVE  IInv'
  BY <1>6, BeginningsPreserveIInv DEF Leave, FetchPending
<1>7. ASSUME NEW q \in Requests, NEW p \in Pairs, DeleteRefresh(q, p) PROVE IInv'
  BY <1>7, DeleteRefreshPreservesIInv
<1>8. ASSUME NEW q \in Requests, Check(q) PROVE IInv'
  BY <1>8, CheckPreservesIInv
<1>9. ASSUME NEW q \in Requests, Revoke(q) PROVE IInv'
  BY <1>9, RevokePreservesIInv
<1>10. ASSUME NEW q \in Requests, req[q].phase # "idle" PROVE req[q].user \in Users
  BY <1>10 DEF IInv, TypeOK, Request, RequestsInOrder, InOrder
<1>11. ASSUME NEW q \in Requests, SetupTotp(q) PROVE IInv'
  <2>1. req[q].user \in Users /\ ~Holding(q) /\ End(q)
    BY <1>10, <1>11 DEF SetupTotp, Holding
  <2>2. WriteUser(req[q].user, status[req[q].user], mfa)
    BY <2>1, <1>11 DEF SetupTotp, WriteUser, IInv, TypeOK
  <2>3. enrolling' \subseteq Users /\ status[req[q].user] \in Status /\ mfa \in SUBSET Users
    BY <2>1, <1>11 DEF SetupTotp, IInv, TypeOK
  <2>4. QED BY <2>1, <2>2, <2>3, <1>11, WritePreservesIInv DEF SetupTotp
<1>12. ASSUME NEW q \in Requests, ConfirmTotp(q) PROVE IInv'
  <2>1. req[q].user \in Users /\ ~Holding(q) /\ End(q)
    BY <1>10, <1>12 DEF ConfirmTotp, Holding
  <2>2. WriteUser(req[q].user, "active", mfa \cup {req[q].user})
    BY <1>12 DEF ConfirmTotp
  <2>3. enrolling' \subseteq Users /\ mfa \cup {req[q].user} \in SUBSET Users
        /\ (mfa \cup {req[q].user}) \ {req[q].user} = mfa \ {req[q].user}
    BY <2>1, <1>12 DEF ConfirmTotp, IInv, TypeOK
  <2>4. QED BY <2>1, <2>2, <2>3, <1>12, WritePreservesIInv DEF ConfirmTotp
<1>13. ASSUME NEW q \in Requests, DisableTotp(q) PROVE IInv'
  <2>1. req[q].user \in Users /\ ~Holding(q) /\ End(q)
    BY <1>10, <1>13 DEF DisableTotp, Holding
  <2>2. WriteUser(req[q].user, status[req[q].user], mfa \ {req[q].user})
    BY <1>13 DEF DisableTotp
  <2>3. enrolling' \subseteq Users /\ mfa \ {req[q].user} \in SUBSET Users
        /\ (mfa \ {req[q].user}) \ {req[q].user} = mfa \ {req[q].user}
        /\ status[req[q].user] \in Status
    BY <2>1, <1>13 DEF DisableTotp, IInv, TypeOK
  <2>4. QED BY <2>1, <2>2, <2>3, <1>13, WritePreservesIInv DEF DisableTotp
<1>14. ASSUME NEW u \in Users, NEW s \in Status, SetStatus(u, s) PROVE IInv'
  BY <1>14, WritePreservesIInv DEF SetStatus, IInv, TypeOK
<1>15. ASSUME NEW q \in Requests, Fail(q) PROVE IInv'
  <2>1. CASE Holding(q) BY <2>1, <1>15, LosePreservesIInv DEF Fail
  <2>2. CASE ~Holding(q) BY <2>2, <1>15, EndPreservesIInv DEF Fail
  <2>3. QED BY <2>1, <2>2
<1>16. ASSUME NEW p \in Pairs, ExpireRefresh(p) PROVE IInv'
  BY <1>16, ExpireRefreshPreservesIInv
<1>17. ASSUME UNCHANGED <<userVars, issued, live, ended, req>>,
              access' \subseteq access, challenges' \subseteq challenges
       PROVE  IInv'
  <2>1. OneTokenPerSession' BY <1>17, HoldersFrame DEF IInv, Holding
  <2>2. PairsInOrder' /\ IssuedToAdmitted'
    BY <1>17, PairsFrame DEF IInv, PairsInOrder
  <2>3. RequestsInOrder'
    BY <1>17 DEF IInv, RequestsInOrder, InOrder, userVars, CheckedBefore, IsIssued
  <2>4. ChallengesInOrder'
    BY <1>17 DEF IInv, ChallengesInOrder, CheckedBefore, userVars
  <2>5. TypeOK' BY <1>17 DEF IInv, TypeOK, userVars
  <2>6. QED BY <2>1, <2>2, <2>3, <2>4, <2>5 DEF IInv
<1>18. ASSUME NEW p \in Pairs, ExpireAccess(p) PROVE IInv'
  BY <1>17, <1>18 DEF ExpireAccess
<1>19. ASSUME NEW c \in challenges, ExpireChallenge(c) PROVE IInv'
  BY <1>17, <1>19 DEF ExpireChallenge
<1>20. CASE UNCHANGED vars
  BY <1>17, <1>20 DEF vars, tokenVars
<1>21. QED
  BY <1>1, <1>2, <1>3, <1>4, <1>5, <1>6, <1>7, <1>8, <1>9, <1>11, <1>12,
     <1>13, <1>14, <1>15, <1>16, <1>18, <1>19, <1>20 DEF Next

-----------------------------------------------------------------------------
(* Theorems. *)

(* The inductive invariant holds in every reachable state. *)
THEOREM SessionsInvariant == Spec => []IInv
<1>1. Init => IInv BY InitIInv
<1>2. IInv /\ [Next]_vars => IInv' BY StepPreservesIInv
<1>3. QED BY <1>1, <1>2, PTL DEF Spec

(* The rows, tokens and requests have their types, whatever the constants. *)
THEOREM TypeCorrect == Spec => []TypeOK
<1>1. IInv => TypeOK BY DEF IInv
<1>2. QED BY <1>1, SessionsInvariant, PTL

(* However many requests exchange, log out and fail, a session has one
   refresh token, or one request holding it, or is over. *)
THEOREM OneToken == Spec => []OneTokenPerSession
<1>1. IInv => OneTokenPerSession BY DEF IInv
<1>2. QED BY <1>1, SessionsInvariant, PTL

(* Tokens checked on the current row are a login's that this row admits. *)
THEOREM OnlyAdmitted == Spec => []IssuedToAdmitted
<1>1. IInv => IssuedToAdmitted BY DEF IInv
<1>2. QED BY <1>1, SessionsInvariant, PTL

(* Nobody but an administrator, or a TOTP confirmation that began before the
   deactivation, makes a deactivated user active. *)
THEOREM Reactivation == Spec => ReactivatedKnowingly
<1> DEFINE Known(u) == \/ \E s \in Status : SetStatus(u, s)
                       \/ \E q \in Requests : /\ req[q].phase = "confirming"
                                              /\ req[q].user = u
                                              /\ req[q].checked < version[u]
           Knowing == \A u \in Users :
              status[u] \notin Admitted /\ status'[u] \in Admitted => Known(u)
<1>1. IInv /\ [Next]_vars => [Knowing]_vars
  <2> SUFFICES ASSUME IInv, Next, NEW u \in Users,
                      status[u] \notin Admitted, status'[u] \in Admitted
               PROVE  Known(u)
    OBVIOUS
  <2>1. status' # status OBVIOUS
  <2>2. \/ \E q \in Requests : ConfirmTotp(q) \/ DisableTotp(q)
        \/ \E v \in Users, s \in Status : SetStatus(v, s)
    BY <2>1 DEF Next, Login, Challenge, VerifyMfa, Issue, Exchange, Leave,
       Authorized, DeleteRefresh, FetchPending, Check, Revoke, SetupTotp,
       Fail, ExpireAccess, ExpireRefresh, ExpireChallenge, userVars
  <2>3. ASSUME NEW q \in Requests, ConfirmTotp(q) PROVE Known(u)
    <3>1. req[q].phase = "confirming" /\ req[q].user = u
      BY <2>3 DEF ConfirmTotp, WriteUser, IInv, TypeOK
    <3>2. CheckedBefore(u, req[q].checked) /\ req[q].checked \in Nat
      BY <3>1 DEF IInv, RequestsInOrder, InOrder, TypeOK, Request
    <3>3. req[q].checked < version[u]
      BY <3>2 DEF CheckedBefore, IInv, TypeOK
    <3>4. QED BY <3>1, <3>3
  <2>4. ASSUME NEW q \in Requests, DisableTotp(q) PROVE FALSE
    BY <2>4 DEF DisableTotp, WriteUser, IInv, TypeOK
  <2>5. ASSUME NEW v \in Users, NEW s \in Status, SetStatus(v, s) PROVE Known(u)
    <3>1. v = u BY <2>5 DEF SetStatus, WriteUser, IInv, TypeOK
    <3>2. QED BY <2>5, <3>1
  <2>6. QED BY <2>2, <2>3, <2>4, <2>5
<1>2. QED BY <1>1, SessionsInvariant, PTL DEF Spec, ReactivatedKnowingly

HIDE ConstantsAssumption DEF Status, Admitted, Factor, Phase

-----------------------------------------------------------------------------
(* Sessions beside roles and accounts. *)

(* The sessions of the identity service are those of AuthSessions. *)
LEMMA SessionsStep == IdentityNext => [Next]_vars
BY DEF IdentityNext, Signing, Granting, Provisioning

LEMMA RefinesSessions == IdentitySpec => Spec
<1>1. IdentityInit => Init BY DEF IdentityInit
<1>2. [IdentityNext]_identityVars => [Next]_vars
  BY SessionsStep DEF identityVars
<1>3. QED BY <1>1, <1>2, PTL DEF IdentitySpec, Spec

(* A session of the service has one refresh token, or one request holding it, or
   is over. *)
THEOREM IdentityOneToken == IdentitySpec => []OneTokenPerSession
BY RefinesSessions, OneToken, PTL

(* Its tokens are those of users found admissible. *)
THEOREM IdentityOnlyAdmitted == IdentitySpec => []IssuedToAdmitted
BY RefinesSessions, OnlyAdmitted, PTL

(* A deactivation is undone only knowingly, or by an older TOTP confirmation. *)
THEOREM IdentityReactivation == IdentitySpec => ReactivatedKnowingly
BY RefinesSessions, Reactivation, PTL

-----------------------------------------------------------------------------
(* Accounts. *)

LEMMA CallsBounded == MaxAccountCalls \in Nat
BY AccountsAssumption

LEMMA LenNat == ASSUME NEW S, NEW s \in Seq(S) PROVE Len(s) \in Nat
OBVIOUS

LEMMA PatchesAreLists == \A ops \in Patches : Len(ops) \in Nat
<1> TAKE ops \in Patches
<1>1. ops \in Seq(Operation) BY AccountsAssumption
<1>2. QED BY <1>1, LenNat

LEMMA InitAccounts == AccountsInit => AccountsInv
<1> SUFFICES ASSUME AccountsInit PROVE AccountsInv OBVIOUS
<1>1. AccountsTypeOK
  <2>1. NoClient \in Client BY DEF NoClient, Client
  <2>2. QED BY <2>1, CallsBounded DEF AccountsInit, AccountsTypeOK, States
<1>2. MailsUnique BY DEF AccountsInit, MailsUnique, Held
<1>3. ClientsInOrder
  BY DEF AccountsInit, ClientsInOrder, PatchInOrder, ChangeInOrder, CreationInOrder, NoClient
<1>4. QED BY <1>1, <1>2, <1>3 DEF AccountsInv

(* What a client has done stays in order when rows are only added or change in
   what it did not look at. *)
LEMMA ClientFrame ==
    ASSUME AccountsInv, NEW c \in Clients, client'[c] = client[c],
           \A a \in AccountIds : Held(a) => mail'[a] = mail[a],
           \A a \in AccountIds :
              Held(a) /\ client[c].op = "password" /\ client[c].account = a
                 => secret'[a] = secret[a] \/ c \in overtaken',
           c \in overtaken => c \in overtaken'
    PROVE  PatchInOrder(c)' /\ ChangeInOrder(c)' /\ CreationInOrder(c)'
<1>1. PatchInOrder(c) /\ ChangeInOrder(c) /\ CreationInOrder(c)
  BY DEF AccountsInv, ClientsInOrder
<1>2. PatchInOrder(c)' BY <1>1 DEF PatchInOrder, Held, Meaning
<1>3. ChangeInOrder(c)' BY <1>1 DEF ChangeInOrder, Held
<1>4. CreationInOrder(c)' BY <1>1 DEF CreationInOrder
<1>5. QED BY <1>2, <1>3, <1>4

(* A request ends, and the rows stay what they were to the others. *)
LEMMA CloseInOrder ==
    ASSUME AccountsInv, NEW c \in Clients, Close(c),
           \A a \in AccountIds : Held(a) => mail'[a] = mail[a] /\ secret'[a] = secret[a],
           overtaken \ {c} \subseteq overtaken'
    PROVE  ClientsInOrder' /\ client' \in [Clients -> Client]
<1>1. /\ client' \in [Clients -> Client] /\ client'[c] = NoClient
      /\ \A d \in Clients \ {c} : client'[d] = client[d]
  BY DEF AccountsInv, AccountsTypeOK, Close, NoClient, Client
<1>2. PatchInOrder(c)' /\ ChangeInOrder(c)' /\ CreationInOrder(c)'
  BY <1>1 DEF PatchInOrder, ChangeInOrder, CreationInOrder, NoClient
<1>3. ASSUME NEW d \in Clients \ {c}
      PROVE  PatchInOrder(d)' /\ ChangeInOrder(d)' /\ CreationInOrder(d)'
  BY <1>1, ClientFrame
<1>4. QED BY <1>1, <1>2, <1>3 DEF ClientsInOrder

(* A new row has an e-mail of its own, and is nobody's yet. *)
LEMMA NewRowKeeps ==
    ASSUME AccountsInv, NEW a \in AccountIds, NEW e \in Emails, NEW s \in States,
           NEW p \in Passwords \cup {Random}, NewRow(a, e, s, p)
    PROVE  /\ MailsUnique'
           /\ mail' \in [AccountIds -> Emails \cup {NoMail}]
           /\ state' \in [AccountIds -> States]
           /\ secret' \in [AccountIds -> Passwords \cup {Random}]
           /\ \A b \in AccountIds : Held(b) => mail'[b] = mail[b] /\ secret'[b] = secret[b]
<1>1. /\ mail' = [mail EXCEPT ![a] = e] /\ state' = [state EXCEPT ![a] = s]
      /\ secret' = [secret EXCEPT ![a] = p] /\ ~Held(a) /\ ~Used(e)
  BY DEF NewRow
<1>2. /\ mail \in [AccountIds -> Emails \cup {NoMail}] /\ state \in [AccountIds -> States]
      /\ secret \in [AccountIds -> Passwords \cup {Random}]
  BY DEF AccountsInv, AccountsTypeOK
<1>3. mail'[a] = e /\ \A b \in AccountIds \ {a} : mail'[b] = mail[b] BY <1>1, <1>2
<1>4. \A b \in AccountIds : mail[b] # e BY <1>1 DEF Used
<1>5. MailsUnique' BY <1>3, <1>4 DEF AccountsInv, MailsUnique, Held
<1>6. \A b \in AccountIds : Held(b) => mail'[b] = mail[b] /\ secret'[b] = secret[b]
  BY <1>1, <1>2, <1>3
<1>7. QED BY <1>1, <1>2, <1>5, <1>6

Opens(c, r) == client' = [client EXCEPT ![c] = r] /\ UNCHANGED <<accountRows, overtaken>>

(* A request begins, or goes on, in order. *)
LEMMA OpenInOrder ==
    ASSUME AccountsInv, NEW c \in Clients, NEW r \in Client, Opens(c, r),
           PatchInOrder(c)', ChangeInOrder(c)', CreationInOrder(c)',
           accountCalls' \in 0..MaxAccountCalls
    PROVE  AccountsInv'
<1>1. /\ client' \in [Clients -> Client]
      /\ \A d \in Clients \ {c} : client'[d] = client[d]
  BY DEF AccountsInv, AccountsTypeOK, Opens
<1>2. AccountsTypeOK' BY <1>1 DEF AccountsInv, AccountsTypeOK, Opens, accountRows
<1>3. MailsUnique' BY DEF AccountsInv, MailsUnique, Held, Opens, accountRows
<1>4. ASSUME NEW d \in Clients \ {c}
      PROVE  PatchInOrder(d)' /\ ChangeInOrder(d)' /\ CreationInOrder(d)'
  BY <1>1, ClientFrame DEF Opens, accountRows
<1>5. QED BY <1>2, <1>3, <1>4 DEF AccountsInv, ClientsInOrder

LEMMA CreateUserKeeps ==
    ASSUME AccountsInv, NEW a \in AccountIds, NEW e \in Emails, NEW p \in Passwords,
           CreateUser(a, e, p)
    PROVE  AccountsInv'
<1>1. NewRow(a, e, "active", p) /\ UNCHANGED <<client, overtaken>>
      /\ accountCalls' \in 0..MaxAccountCalls
  BY CallsBounded DEF CreateUser, CountAccountCall, AccountsInv, AccountsTypeOK
<1>2. "active" \in States BY DEF States
<1>3. /\ MailsUnique'
      /\ mail' \in [AccountIds -> Emails \cup {NoMail}]
      /\ state' \in [AccountIds -> States]
      /\ secret' \in [AccountIds -> Passwords \cup {Random}]
      /\ \A b \in AccountIds : Held(b) => mail'[b] = mail[b] /\ secret'[b] = secret[b]
  BY <1>1, <1>2, NewRowKeeps
<1>4. AccountsTypeOK' BY <1>1, <1>3 DEF AccountsInv, AccountsTypeOK
<1>5. ASSUME NEW d \in Clients
      PROVE  PatchInOrder(d)' /\ ChangeInOrder(d)' /\ CreationInOrder(d)'
  BY <1>1, <1>3, ClientFrame
<1>6. QED BY <1>3, <1>4, <1>5 DEF AccountsInv, ClientsInOrder

LEMMA ScimCheckKeeps ==
    ASSUME AccountsInv, NEW c \in Clients, NEW e \in Emails, NEW active \in BOOLEAN,
           ScimCheck(c, e, active)
    PROVE  AccountsInv'
<1> DEFINE r == [NoClient EXCEPT !.op = "create", !.mail = e, !.pending = Activity(active)]
<1>1. Activity(active) \in {"active", "inactive"} BY DEF Activity
<1>2. r \in Client BY <1>1 DEF Client, NoClient, States
<1>3. r.op = "create" /\ r.mail = e /\ r.pending \in {"active", "inactive"}
  BY <1>1 DEF NoClient
<1>4. Opens(c, r) /\ accountCalls' \in 0..MaxAccountCalls
  BY CallsBounded
  DEF ScimCheck, Open, Opens, CountAccountCall, AccountsInv, AccountsTypeOK
<1> HIDE DEF r
<1>5. client'[c] = r BY <1>4 DEF Opens, AccountsInv, AccountsTypeOK
<1>6. PatchInOrder(c)' /\ ChangeInOrder(c)' /\ CreationInOrder(c)'
  BY <1>3, <1>5 DEF PatchInOrder, ChangeInOrder, CreationInOrder
<1>7. QED BY <1>2, <1>4, <1>6, OpenInOrder

LEMMA ScimPatchKeeps ==
    ASSUME AccountsInv, NEW c \in Clients, NEW a \in AccountIds, NEW ops \in Patches,
           ScimPatch(c, a, ops)
    PROVE  AccountsInv'
<1> DEFINE r == [NoClient EXCEPT !.op = "patch", !.account = a, !.ops = ops]
<1>1. r \in Client BY DEF Client, NoClient
<1>2. r.op = "patch" /\ r.account = a /\ r.ops = ops /\ r.at = 0 /\ r.pending = Nothing
  BY DEF NoClient
<1>3. Opens(c, r) /\ Held(a) /\ accountCalls' \in 0..MaxAccountCalls
  BY CallsBounded
  DEF ScimPatch, Open, Opens, CountAccountCall, AccountsInv, AccountsTypeOK
<1> HIDE DEF r
<1>4. client'[c] = r /\ mail' = mail
  BY <1>3 DEF Opens, AccountsInv, AccountsTypeOK, accountRows
<1>5. Len(ops) \in Nat BY PatchesAreLists
<1>6. PatchInOrder(c)' /\ ChangeInOrder(c)' /\ CreationInOrder(c)'
  BY <1>2, <1>3, <1>4, <1>5 DEF PatchInOrder, ChangeInOrder, CreationInOrder, Held
<1>7. QED BY <1>1, <1>3, <1>6, OpenInOrder

LEMMA VerifyPasswordKeeps ==
    ASSUME AccountsInv, NEW c \in Clients, NEW a \in AccountIds, VerifyPassword(c, a)
    PROVE  AccountsInv'
<1> DEFINE r == [NoClient EXCEPT !.op = "password", !.account = a, !.proof = secret[a]]
<1>1. r \in Client BY DEF Client, NoClient, AccountsInv, AccountsTypeOK
<1>2. r.op = "password" /\ r.account = a /\ r.proof = secret[a] BY DEF NoClient
<1>3. Opens(c, r) /\ Held(a) /\ accountCalls' \in 0..MaxAccountCalls
  BY CallsBounded
  DEF VerifyPassword, Open, Opens, CountAccountCall, AccountsInv, AccountsTypeOK
<1> HIDE DEF r
<1>4. client'[c] = r /\ mail' = mail /\ secret' = secret
  BY <1>3 DEF Opens, AccountsInv, AccountsTypeOK, accountRows
<1>5. PatchInOrder(c)' /\ ChangeInOrder(c)' /\ CreationInOrder(c)'
  BY <1>2, <1>3, <1>4 DEF PatchInOrder, ChangeInOrder, CreationInOrder, Held
<1>6. QED BY <1>1, <1>3, <1>5, OpenInOrder

LEMMA ScimInsertKeeps ==
    ASSUME AccountsInv, NEW c \in Clients, NEW a \in AccountIds, ScimInsert(c, a)
    PROVE  AccountsInv'
<1>1. /\ client[c].op = "create" /\ Close(c)
      /\ UNCHANGED <<accountCalls, overtaken>>
      /\ \/ UNCHANGED accountRows
         \/ NewRow(a, client[c].mail, client[c].pending, Random)
  BY DEF ScimInsert
<1>2. client[c].mail \in Emails /\ client[c].pending \in States
  BY <1>1 DEF AccountsInv, ClientsInOrder, CreationInOrder, States
<1>3. /\ MailsUnique'
      /\ mail' \in [AccountIds -> Emails \cup {NoMail}]
      /\ state' \in [AccountIds -> States]
      /\ secret' \in [AccountIds -> Passwords \cup {Random}]
      /\ \A b \in AccountIds : Held(b) => mail'[b] = mail[b] /\ secret'[b] = secret[b]
  <2>1. CASE UNCHANGED accountRows
    BY <2>1 DEF AccountsInv, AccountsTypeOK, MailsUnique, Held, accountRows
  <2>2. CASE NewRow(a, client[c].mail, client[c].pending, Random)
    BY <1>2, <2>2, NewRowKeeps
  <2>3. QED BY <1>1, <2>1, <2>2
<1>4. ClientsInOrder' /\ client' \in [Clients -> Client] BY <1>1, <1>3, CloseInOrder
<1>5. QED BY <1>1, <1>3, <1>4 DEF AccountsInv, AccountsTypeOK

(* A step that leaves every e-mail and every password as it is. *)
LEMMA StatusStep ==
    ASSUME AccountsInv, UNCHANGED <<mail, secret>>, state' \in [AccountIds -> States],
           accountCalls' \in 0..MaxAccountCalls, overtaken' \subseteq Clients,
           ClientsInOrder', client' \in [Clients -> Client]
    PROVE  AccountsInv'
BY DEF AccountsInv, AccountsTypeOK, MailsUnique, Held

LEMMA SetStateKeeps ==
    ASSUME AccountsInv, NEW a \in AccountIds, NEW s \in States, SetState(a, s)
    PROVE  AccountsInv'
<1>1. /\ UNCHANGED <<mail, secret, client, overtaken>>
      /\ state' \in [AccountIds -> States]
      /\ accountCalls' \in 0..MaxAccountCalls
  BY CallsBounded DEF SetState, CountAccountCall, AccountsInv, AccountsTypeOK
<1>2. ClientsInOrder' BY <1>1, ClientFrame DEF ClientsInOrder
<1>3. QED BY <1>1, <1>2, StatusStep DEF AccountsInv, AccountsTypeOK

LEMMA PatchFailsKeeps ==
    ASSUME AccountsInv, NEW c \in Clients, PatchFails(c)
    PROVE  AccountsInv'
<1>1. Close(c) /\ UNCHANGED <<mail, state, secret, accountCalls, overtaken>>
  BY DEF PatchFails, accountRows
<1>2. ClientsInOrder' /\ client' \in [Clients -> Client] BY <1>1, CloseInOrder
<1>3. QED BY <1>1, <1>2, StatusStep DEF AccountsInv, AccountsTypeOK

LEMMA DropKeeps ==
    ASSUME AccountsInv, NEW c \in Clients, Drop(c)
    PROVE  AccountsInv'
<1>1. /\ Close(c) /\ UNCHANGED <<mail, state, secret, accountCalls>>
      /\ overtaken' = overtaken \ {c}
  BY DEF Drop, accountRows
<1>2. ClientsInOrder' /\ client' \in [Clients -> Client] BY <1>1, CloseInOrder
<1>3. QED BY <1>1, <1>2, StatusStep DEF AccountsInv, AccountsTypeOK

LEMMA PatchCommitKeeps ==
    ASSUME AccountsInv, NEW c \in Clients, PatchCommit(c)
    PROVE  AccountsInv'
<1>1. /\ Close(c) /\ UNCHANGED <<mail, secret, accountCalls, overtaken>>
      /\ \/ UNCHANGED state
         \/ /\ client[c].pending # Nothing
            /\ state' = [state EXCEPT ![client[c].account] = client[c].pending]
  BY DEF PatchCommit
<1>2. client[c].pending \in States \cup {Nothing}
  BY DEF AccountsInv, AccountsTypeOK, Client
<1>3. state' \in [AccountIds -> States] BY <1>1, <1>2 DEF AccountsInv, AccountsTypeOK
<1>4. ClientsInOrder' /\ client' \in [Clients -> Client] BY <1>1, CloseInOrder
<1>5. QED BY <1>1, <1>3, <1>4, StatusStep DEF AccountsInv, AccountsTypeOK

LEMMA ChangePasswordKeeps ==
    ASSUME AccountsInv, NEW c \in Clients, NEW p \in Passwords, ChangePassword(c, p)
    PROVE  AccountsInv'
<1> DEFINE a == client[c].account
<1>1. /\ client[c].op = "password" /\ Close(c)
      /\ secret' = [secret EXCEPT ![a] = p]
      /\ overtaken' = (overtaken \cup {d \in Clients : /\ client[d].op = "password"
                                                       /\ client[d].account = a}) \ {c}
      /\ UNCHANGED <<mail, state, accountCalls>>
  BY DEF ChangePassword
<1>2. a \in AccountIds BY <1>1 DEF AccountsInv, ClientsInOrder, ChangeInOrder
<1> HIDE DEF a
<1>3. /\ secret' \in [AccountIds -> Passwords \cup {Random}]
      /\ \A b \in AccountIds \ {a} : secret'[b] = secret[b]
  BY <1>1, <1>2 DEF AccountsInv, AccountsTypeOK
<1>4. /\ client' \in [Clients -> Client] /\ client'[c] = NoClient
      /\ \A d \in Clients \ {c} : client'[d] = client[d]
  BY <1>1 DEF AccountsInv, AccountsTypeOK, Close, NoClient, Client
<1>5. PatchInOrder(c)' /\ ChangeInOrder(c)' /\ CreationInOrder(c)'
  BY <1>4 DEF PatchInOrder, ChangeInOrder, CreationInOrder, NoClient
<1>6. ASSUME NEW d \in Clients \ {c}
      PROVE  PatchInOrder(d)' /\ ChangeInOrder(d)' /\ CreationInOrder(d)'
  <2>1. \A b \in AccountIds :
            Held(b) /\ client[d].op = "password" /\ client[d].account = b
               => secret'[b] = secret[b] \/ d \in overtaken'
    BY <1>1, <1>3
  <2>2. d \in overtaken => d \in overtaken' BY <1>1
  <2>3. QED BY <1>1, <1>4, <2>1, <2>2, ClientFrame
<1>7. AccountsTypeOK' BY <1>1, <1>3, <1>4 DEF AccountsInv, AccountsTypeOK
<1>8. MailsUnique' BY <1>1 DEF AccountsInv, MailsUnique, Held
<1>9. QED BY <1>5, <1>6, <1>7, <1>8 DEF AccountsInv, ClientsInOrder

(* What an operation sets. *)
LEMMA MeaningOf ==
    \A s : /\ Meaning("true", s) = "active" /\ Meaning("null", s) = "active"
           /\ Meaning("false", s) = "inactive" /\ Meaning("other", s) = s
BY DEF Meaning

LEMMA PatchNextKeeps ==
    ASSUME AccountsInv, NEW c \in Clients, PatchNext(c)
    PROVE  AccountsInv'
<1> DEFINE was == client[c]
           ops == was.ops
           n == was.at + 1
           r == [was EXCEPT !.at = n, !.pending = Meaning(ops[n], was.pending)]
<1>1. /\ was.op = "patch" /\ was.at < Len(ops) /\ ops[n] # "text"
      /\ client' = [client EXCEPT ![c] = r]
      /\ UNCHANGED <<accountRows, accountCalls, overtaken>>
  BY DEF PatchNext, Patching, AccountsInv, AccountsTypeOK
<1>2. was \in Client /\ was.at \in Nat /\ ops \in Patches \cup {<<>>}
      /\ was.pending \in States \cup {Nothing}
  BY DEF AccountsInv, AccountsTypeOK, Client
<1>3. ops \in Seq(Operation)
  <2>1. Patches \subseteq Seq(Operation) BY AccountsAssumption
  <2>2. <<>> \in Seq(Operation) OBVIOUS
  <2>3. QED BY <1>2, <2>1, <2>2
<1>4. n \in 1..Len(ops) /\ ops[n] \in {"true", "false", "null", "other"}
  BY <1>1, <1>2, <1>3 DEF Operation
<1>5. Meaning(ops[n], was.pending) \in States \cup {Nothing}
  BY <1>2, <1>4, MeaningOf DEF States
<1>6. /\ r \in Client /\ r.op = "patch" /\ r.account = was.account /\ r.ops = ops
      /\ r.at = n /\ r.pending = Meaning(ops[n], was.pending)
  <2>1. n \in Nat BY <1>2
  <2> DEFINE s == Meaning(ops[n], was.pending)
  <2>2. s \in States \cup {Nothing} BY <1>5
  <2> HIDE DEF s
  <2>3. [was EXCEPT !.at = n, !.pending = s] \in Client BY <1>2, <2>1, <2>2 DEF Client
  <2>4. QED BY <1>1, <1>2, <2>3 DEF Client, s
<1>7. PatchInOrder(c) BY DEF AccountsInv, ClientsInOrder
<1>8. Opens(c, r) /\ client'[c] = r /\ mail' = mail
  BY <1>1 DEF Opens, AccountsInv, AccountsTypeOK, accountRows
<1> HIDE DEF r
<1>9. PatchInOrder(c)'
  <2>1. /\ was.account \in AccountIds /\ Held(was.account)
        /\ \A i \in 1..was.at : ops[i] # "text"
        /\ was.pending = Nothing => \A i \in 1..was.at : ops[i] = "other"
        /\ was.pending # Nothing =>
              \E k \in 1..was.at : /\ ops[k] # "other"
                                   /\ was.pending = Meaning(ops[k], Nothing)
                                   /\ \A i \in 1..was.at : k < i => ops[i] = "other"
    BY <1>1, <1>7 DEF PatchInOrder
  <2> DEFINE done == 1..n
  <2>2. \A i \in done : i = n \/ i \in 1..was.at BY <1>2
  <2>3. \A i \in done : ops[i] # "text" BY <1>1, <2>1, <2>2
  <2>4. /\ r.pending = Nothing => \A i \in done : ops[i] = "other"
        /\ r.pending # Nothing =>
              \E k \in done : /\ ops[k] # "other"
                              /\ r.pending = Meaning(ops[k], Nothing)
                              /\ \A i \in done : k < i => ops[i] = "other"
    <3>1. CASE ops[n] = "other"
      <4>1. r.pending = was.pending BY <1>6, <3>1, MeaningOf
      <4>2. CASE was.pending = Nothing BY <2>1, <2>2, <3>1, <4>1, <4>2
      <4>3. CASE was.pending # Nothing
        <5>1. PICK k \in 1..was.at :
                 /\ ops[k] # "other" /\ was.pending = Meaning(ops[k], Nothing)
                 /\ \A i \in 1..was.at : k < i => ops[i] = "other"
          BY <2>1, <4>3
        <5>2. k \in done BY <1>2
        <5>3. \A i \in done : k < i => ops[i] = "other" BY <2>2, <3>1, <5>1
        <5>4. QED BY <4>1, <4>3, <5>1, <5>2, <5>3
      <4>4. QED BY <4>2, <4>3
    <3>2. CASE ops[n] # "other"
      <4>1. r.pending = Meaning(ops[n], Nothing) /\ r.pending # Nothing
        BY <1>4, <1>6, <3>2, MeaningOf DEF Nothing
      <4>2. n \in done /\ \A i \in done : ~(n < i) BY <1>2
      <4>3. QED BY <3>2, <4>1, <4>2
    <3>3. QED BY <3>1, <3>2
  <2> HIDE DEF done
  <2>5. n <= Len(ops) BY <1>1, <1>2, <1>3
  <2>6. /\ client'[c].account \in AccountIds /\ mail'[client'[c].account] # NoMail
        /\ client'[c].at = n /\ client'[c].ops = ops /\ client'[c].pending = r.pending
    BY <1>6, <1>8, <2>1 DEF Held
  <2>7. QED BY <2>3, <2>4, <2>5, <2>6 DEF PatchInOrder, done, Meaning, Held
<1>10. ChangeInOrder(c)' /\ CreationInOrder(c)'
  BY <1>6, <1>8 DEF ChangeInOrder, CreationInOrder
<1>11. accountCalls' \in 0..MaxAccountCalls BY <1>1 DEF AccountsInv, AccountsTypeOK
<1>12. QED BY <1>6, <1>8, <1>9, <1>10, <1>11, OpenInOrder

LEMMA AccountsStep == AccountsInv /\ [AccountsNext]_accountVars => AccountsInv'
<1> SUFFICES ASSUME AccountsInv, [AccountsNext]_accountVars PROVE AccountsInv' OBVIOUS
<1>1. CASE UNCHANGED accountVars
  BY <1>1 DEF accountVars, AccountsInv, AccountsTypeOK, MailsUnique, ClientsInOrder,
              PatchInOrder, ChangeInOrder, CreationInOrder, Held, Meaning
<1>2. ASSUME NEW a \in AccountIds, NEW e \in Emails, NEW p \in Passwords, CreateUser(a, e, p)
      PROVE  AccountsInv'
  BY <1>2, CreateUserKeeps
<1>3. ASSUME NEW c \in Clients, NEW e \in Emails, NEW active \in BOOLEAN,
             ScimCheck(c, e, active)
      PROVE  AccountsInv'
  BY <1>3, ScimCheckKeeps
<1>4. ASSUME NEW c \in Clients, NEW a \in AccountIds, ScimInsert(c, a) \/ VerifyPassword(c, a)
      PROVE  AccountsInv'
  BY <1>4, ScimInsertKeeps, VerifyPasswordKeeps
<1>5. ASSUME NEW a \in AccountIds, NEW s \in States, UpdateUser(a, s)
      PROVE  AccountsInv'
  BY <1>5, SetStateKeeps DEF UpdateUser
<1>6. ASSUME NEW a \in AccountIds,
             Deactivate(a) \/ \E active \in BOOLEAN : ScimReplace(a, active)
      PROVE  AccountsInv'
  <2>1. "inactive" \in States /\ \A active \in BOOLEAN : Activity(active) \in States
    BY DEF States, Activity
  <2>2. QED BY <1>6, <2>1, SetStateKeeps DEF Deactivate, ScimReplace
<1>7. ASSUME NEW c \in Clients, NEW a \in AccountIds, NEW ops \in Patches, ScimPatch(c, a, ops)
      PROVE  AccountsInv'
  BY <1>7, ScimPatchKeeps
<1>8. ASSUME NEW c \in Clients, PatchFails(c) \/ PatchNext(c) \/ PatchCommit(c) \/ Drop(c)
      PROVE  AccountsInv'
  BY <1>8, PatchFailsKeeps, PatchNextKeeps, PatchCommitKeeps, DropKeeps
<1>9. ASSUME NEW c \in Clients, NEW p \in Passwords, ChangePassword(c, p)
      PROVE  AccountsInv'
  BY <1>9, ChangePasswordKeeps
<1>10. QED
  BY <1>1, <1>2, <1>3, <1>4, <1>5, <1>6, <1>7, <1>8, <1>9 DEF AccountsNext

(* What a request looks like stays as it is in the steps of the others. *)
LEMMA CloseAlone ==
    ASSUME AccountsInv, NEW c \in Clients, Close(c)
    PROVE  \A d \in Clients \ {c} : client'[d] = client[d]
BY DEF AccountsInv, AccountsTypeOK, Close

(* Only its commit changes both a patch and the status of a row. *)
LEMMA CommitsOnly ==
    ASSUME AccountsInv, AccountsNext, NEW c \in Clients, client[c].op = "patch",
           client'[c] # client[c], state' # state
    PROVE  PatchCommit(c)
<1>1. ASSUME NEW d \in Clients, NEW a \in AccountIds, ScimInsert(d, a) PROVE FALSE
  BY <1>1, CloseAlone DEF ScimInsert
<1>2. ASSUME NEW d \in Clients, PatchCommit(d) PROVE d = c
  BY <1>2, CloseAlone DEF PatchCommit
<1>3. ASSUME NEW d \in Clients, PatchFails(d) \/ PatchNext(d) \/ Drop(d) PROVE FALSE
  BY <1>3 DEF PatchFails, PatchNext, Drop, accountRows
<1>4. ASSUME NEW a, NEW s, SetState(a, s) PROVE FALSE BY <1>4 DEF SetState
<1>5. ASSUME NEW d, NEW r, Open(d, r) PROVE FALSE BY <1>5 DEF Open, accountRows
<1>6. QED
  BY <1>1, <1>2, <1>3, <1>4, <1>5
  DEF AccountsNext, CreateUser, ScimCheck, VerifyPassword, UpdateUser, Deactivate,
      ScimReplace, ScimPatch, ChangePassword

(* A patch that commits a status commits what its last operation on "active" says. *)
LEMMA PatchWhole ==
    ASSUME AccountsInv, NEW c \in Clients, PatchCommit(c), state' # state
    PROVE  LET ops == client[c].ops
               given == {i \in 1..Len(ops) : ops[i] # "other"}
           IN  /\ client'[c].op # "patch"
               /\ \A i \in given : ops[i] # "text"
               /\ state'[client[c].account]
                    = IF ops[Max(given)] = "false" THEN "inactive" ELSE "active"
<1> DEFINE a == client[c].account
           ops == client[c].ops
           given == {i \in 1..Len(ops) : ops[i] # "other"}
<1>1. /\ client[c].op = "patch" /\ client[c].at = Len(ops) /\ client[c].pending # Nothing
      /\ state' = [state EXCEPT ![a] = client[c].pending] /\ Close(c)
  BY DEF PatchCommit
<1>2. PatchInOrder(c) BY DEF AccountsInv, ClientsInOrder
<1>3. /\ a \in AccountIds /\ \A i \in 1..Len(ops) : ops[i] # "text"
      /\ \E k \in 1..Len(ops) : /\ ops[k] # "other"
                                /\ client[c].pending = Meaning(ops[k], Nothing)
                                /\ \A i \in 1..Len(ops) : k < i => ops[i] = "other"
  BY <1>1, <1>2 DEF PatchInOrder
<1>4. PICK k \in 1..Len(ops) :
         /\ ops[k] # "other" /\ client[c].pending = Meaning(ops[k], Nothing)
         /\ \A i \in 1..Len(ops) : k < i => ops[i] = "other"
  BY <1>3
<1>5. ops \in Seq(Operation)
  <2>1. ops \in Patches \cup {<<>>} BY DEF AccountsInv, AccountsTypeOK, Client
  <2>2. Patches \subseteq Seq(Operation) BY AccountsAssumption
  <2>3. <<>> \in Seq(Operation) OBVIOUS
  <2>4. QED BY <2>1, <2>2, <2>3
<1>6. ops[k] \in {"true", "false", "null"} BY <1>3, <1>4, <1>5 DEF Operation
<1>7. Max(given) = k
  <2>1. Len(ops) \in Nat BY <1>5, LenNat
  <2>2. k \in given /\ \A i \in given : k >= i BY <1>4, <2>1
  <2>3. given \subseteq Nat BY <2>1
  <2> HIDE DEF given
  <2>4. \A j \in given : (\A i \in given : j >= i) => j = k BY <2>2, <2>3
  <2>5. QED BY <2>2, <2>4 DEF Max
<1>8. state'[a] = client[c].pending BY <1>1, <1>3 DEF AccountsInv, AccountsTypeOK
<1>9. state'[a] = IF ops[k] = "false" THEN "inactive" ELSE "active"
  BY <1>4, <1>6, <1>8, MeaningOf
<1>10. client'[c].op = "none" BY <1>1 DEF Close, NoClient, AccountsInv, AccountsTypeOK
<1>11. QED BY <1>3, <1>7, <1>9, <1>10

LEMMA AccountsSteps ==
    ASSUME AccountsInv, [AccountsNext]_accountVars
    PROVE  /\ [\A c \in Clients :
                 LET ops == client[c].ops
                     given == {i \in 1..Len(ops) : ops[i] # "other"}
                 IN  client[c].op = "patch" /\ client'[c] # client[c] /\ state' # state
                        => /\ client'[c].op # "patch"
                           /\ \A i \in given : ops[i] # "text"
                           /\ state'[client[c].account]
                                = IF ops[Max(given)] = "false" THEN "inactive" ELSE "active"]_accountVars
           /\ [\A c \in Clients :
                 client[c].op = "password" /\ secret' # secret /\ client'[c] = NoClient
                    => c \in overtaken \/ client[c].proof = secret[client[c].account]]_accountVars
<1>1. \A c \in Clients : ChangeInOrder(c) BY DEF AccountsInv, ClientsInOrder
<1>2. ASSUME AccountsNext, NEW c \in Clients,
             client[c].op = "patch", client'[c] # client[c], state' # state
      PROVE  PatchCommit(c)
  BY <1>2, CommitsOnly
<1>3. QED BY <1>1, <1>2, PatchWhole DEF ChangeInOrder

LEMMA RefinesAccounts == IdentitySpec => AccountsInit /\ [][AccountsNext]_accountVars
<1>1. IdentityInit => AccountsInit BY DEF IdentityInit
<1>2. [IdentityNext]_identityVars => [AccountsNext]_accountVars
  BY DEF IdentityNext, Signing, Granting, Provisioning, identityVars
<1>3. QED BY <1>1, <1>2, PTL DEF IdentitySpec

(* However calls on users overlap, an e-mail has one row, a patch is done whole
   or not at all, and a password is changed by proof of the one it replaces. *)
THEOREM IdentityAccountsKept == IdentitySpec => AccountsKept
<1>1. AccountsInv => MailsUnique BY DEF AccountsInv
<1>2. QED
  BY RefinesAccounts, InitAccounts, AccountsStep, AccountsSteps, <1>1, PTL
  DEF AccountsKept, PatchesWhole, PasswordsProved

-----------------------------------------------------------------------------
(* Roles. *)

LEMMA InitRoles == RolesInit => RolesInv
<1> SUFFICES ASSUME RolesInit PROVE RolesInv OBVIOUS
<1>1. NoWork \in Work BY DEF NoWork, Work, Named
<1>2. RolesTypeOK BY <1>1, RolesAssumption DEF RolesInit, RolesTypeOK
<1>3. RolesKept
  BY DEF RolesInit, RolesKept, PermissionsWhole, NamesUnique, RemainsExplained, Exists,
         GrantsOf, Kind, Named, GoneTitle, NoTitle
<1>4. WorkInOrder
  BY DEF RolesInit, WorkInOrder, CreateInOrder, UpdateInOrder, DeleteInOrder,
         StagesInOrder, NoWork
<1>5. FreshUnused BY DEF RolesInit, FreshUnused, GrantsOf
<1>6. QED BY <1>2, <1>3, <1>4, <1>5 DEF RolesInv

Becomes(c, w) == work' = [work EXCEPT ![c] = w]
InOrderOf(c) == CreateInOrder(c) /\ UpdateInOrder(c) /\ DeleteInOrder(c) /\ StagesInOrder(c)

LEMMA BecomesOnly ==
    ASSUME RolesInv, NEW c \in Admins, NEW w \in Work, Becomes(c, w)
    PROVE  /\ work' \in [Admins -> Work] /\ work'[c] = w
           /\ \A d \in Admins \ {c} : work'[d] = work[d]
BY DEF RolesInv, RolesTypeOK, Becomes

(* A request that goes on in order, and changes no row, leaves the others in order:
   it is alone in what it does, so they are not in its way. *)
LEMMA RowsSame ==
    ASSUME RolesInv, UNCHANGED rowVars, NEW c \in Admins, NEW w \in Work, Becomes(c, w),
           InOrderOf(c)', met' \subseteq Admins, met \subseteq met' \cup {c},
           roleCalls' \in 0..MaxRoleCalls
    PROVE  RolesInv'
<1>1. /\ work' \in [Admins -> Work] /\ work'[c] = w
      /\ \A d \in Admins \ {c} : work'[d] = work[d]
  BY BecomesOnly
<1>2. RolesTypeOK' BY <1>1 DEF RolesInv, RolesTypeOK, rowVars
<1>3. RolesKept'
  BY DEF RolesInv, RolesKept, PermissionsWhole, NamesUnique, RemainsExplained, Exists,
         GrantsOf, rowVars
<1>4. ASSUME NEW d \in Admins \ {c} PROVE InOrderOf(d)'
  <2>1. InOrderOf(d) BY DEF RolesInv, WorkInOrder, InOrderOf
  <2>2. CreateInOrder(d)'
    BY <1>1, <2>1 DEF CreateInOrder, InOrderOf, Under, Taken, rowVars
  <2>3. UpdateInOrder(d)'
    BY <1>1, <2>1 DEF UpdateInOrder, InOrderOf, Under, Exists, GrantsOf, rowVars
  <2>4. DeleteInOrder(d)'
    BY <1>1, <2>1 DEF DeleteInOrder, InOrderOf, GrantsOf, rowVars
  <2>5. StagesInOrder(d)' BY <1>1, <2>1 DEF StagesInOrder, InOrderOf
  <2>6. QED BY <2>2, <2>3, <2>4, <2>5 DEF InOrderOf
<1>5. WorkInOrder' BY <1>4 DEF WorkInOrder, InOrderOf
<1>6. FreshUnused' BY DEF RolesInv, FreshUnused, GrantsOf, rowVars
<1>7. QED BY <1>2, <1>3, <1>5, <1>6 DEF RolesInv

LEMMA AcceptKeeps ==
    ASSUME RolesInv, NEW c \in Admins, NEW op \in {"create", "update", "delete"},
           NEW x \in Named, NEW n \in Titles \cup {NoTitle},
           NEW sets \in SUBSET (SUBSET PermIds), Accept(c, op, x, n, sets)
    PROVE  \E w \in Work :
              /\ w.op = op /\ w.stage = "found" /\ w.item = x /\ w.name = n /\ w.perms = sets
              /\ Becomes(c, w) /\ UNCHANGED <<rowVars, met>>
              /\ roleCalls' \in 0..MaxRoleCalls /\ work[c] = NoWork
<1> DEFINE w == [NoWork EXCEPT !.op = op, !.stage = "found", !.item = x, !.name = n,
                               !.perms = sets]
<1>1. w \in Work BY DEF NoWork, Work
<1>2. /\ w.op = op /\ w.stage = "found" /\ w.item = x /\ w.name = n /\ w.perms = sets
  BY DEF NoWork
<1>3. Becomes(c, w) /\ UNCHANGED <<rowVars, met>> /\ work[c] = NoWork
  BY DEF Accept, Becomes
<1>4. roleCalls' \in 0..MaxRoleCalls
  BY RolesAssumption DEF Accept, CountCall, RolesInv, RolesTypeOK
<1>5. QED BY <1>1, <1>2, <1>3, <1>4

LEMMA CheckNameKeeps ==
    ASSUME RolesInv, NEW c \in Admins, NEW x \in Named, NEW n \in Titles,
           NEW ps \in SUBSET PermIds, CheckName(c, x, n, ps)
    PROVE  RolesInv'
<1>1. /\ title[x] = NoTitle /\ Under(x, "create") = {} /\ ~Taken(x, n)
      /\ x \in PermIds => ps = {}
      /\ Accept(c, "create", x, n, {ps})
  BY DEF CheckName
<1>2. PICK w \in Work :
         /\ w.op = "create" /\ w.stage = "found" /\ w.item = x /\ w.name = n /\ w.perms = {ps}
         /\ Becomes(c, w) /\ UNCHANGED <<rowVars, met>>
         /\ roleCalls' \in 0..MaxRoleCalls /\ work[c] = NoWork
  BY <1>1, AcceptKeeps
<1>3. work'[c] = w /\ \A d \in Admins \ {c} : work'[d] = work[d] BY <1>2, BecomesOnly
<1>4. CreateInOrder(c)'
  BY <1>1, <1>2, <1>3 DEF CreateInOrder, Under, Taken, rowVars
<1>5. InOrderOf(c)'
  BY <1>2, <1>3, <1>4 DEF InOrderOf, UpdateInOrder, DeleteInOrder, StagesInOrder
<1>6. met' \subseteq Admins BY <1>2 DEF RolesInv, RolesTypeOK
<1>7. QED BY <1>2, <1>5, <1>6, RowsSame

LEMMA FindRoleKeeps ==
    ASSUME RolesInv, NEW c \in Admins, NEW op \in {"update", "delete"}, NEW r \in RoleIds,
           NEW sets \in SUBSET (SUBSET PermIds), FindRole(c, op, r, sets)
    PROVE  RolesInv'
<1>1. Exists(r) /\ Accept(c, op, r, NoTitle, sets) BY DEF FindRole
<1>2. PICK w \in Work :
         /\ w.op = op /\ w.stage = "found" /\ w.item = r /\ w.name = NoTitle /\ w.perms = sets
         /\ Becomes(c, w) /\ UNCHANGED <<rowVars, met>>
         /\ roleCalls' \in 0..MaxRoleCalls /\ work[c] = NoWork
  BY <1>1, AcceptKeeps DEF Named
<1>3. work'[c] = w BY <1>2, BecomesOnly
<1>4. InOrderOf(c)'
  BY <1>1, <1>2, <1>3
  DEF InOrderOf, CreateInOrder, UpdateInOrder, DeleteInOrder, StagesInOrder, Exists, rowVars
<1>5. met' \subseteq Admins BY <1>2 DEF RolesInv, RolesTypeOK
<1>6. QED BY <1>2, <1>4, <1>5, RowsSame

(* A step of a request that only looks at rows or locks them. *)
LEMMA AdvanceKeeps ==
    ASSUME RolesInv, NEW c \in Admins, NEW w \in Work, Advance(c, w),
           w.op = work[c].op, w.item = work[c].item, w.perms = work[c].perms,
           w.op # "create",
           work'[c] = w => UpdateInOrder(c)' /\ DeleteInOrder(c)' /\ StagesInOrder(c)'
    PROVE  RolesInv'
<1>1. Becomes(c, w) /\ UNCHANGED rowVars /\ UNCHANGED <<roleCalls, met>>
  BY DEF Advance, Becomes
<1>2. work'[c] = w BY <1>1, BecomesOnly
<1>3. InOrderOf(c)' BY <1>2 DEF InOrderOf, CreateInOrder
<1>4. met' \subseteq Admins /\ roleCalls' \in 0..MaxRoleCalls
  BY <1>1 DEF RolesInv, RolesTypeOK
<1>5. QED BY <1>1, <1>3, <1>4, RowsSame

LEMMA LockRoleKeeps ==
    ASSUME RolesInv, NEW c \in Admins, LockRole(c)
    PROVE  RolesInv'
<1> DEFINE r == work[c].item
           found == IF work[c].perms = {} THEN {} ELSE GrantsOf(r)
           w == [work[c] EXCEPT !.stage = "clearing", !.seen = found]
<1>1. /\ work[c].op = "update" /\ work[c].stage = "found" /\ RowFree(r) /\ Advance(c, w)
  BY DEF LockRole
<1>2. work[c] \in Work /\ found \in SUBSET PermIds
  BY DEF RolesInv, RolesTypeOK, GrantsOf
<1> HIDE DEF found
<1>3. /\ w \in Work /\ w.op = "update" /\ w.stage = "clearing" /\ w.item = r
      /\ w.perms = work[c].perms /\ w.seen = found
  BY <1>1, <1>2 DEF Work
<1>4. UpdateInOrder(c) BY DEF RolesInv, WorkInOrder
<1>5. Becomes(c, w) /\ UNCHANGED rowVars BY <1>1 DEF Advance, Becomes
<1> HIDE DEF w
<1>6. work'[c] = w /\ \A d \in Admins \ {c} : work'[d] = work[d]
  BY <1>3, <1>5, BecomesOnly
<1>7. UpdateInOrder(c)'
  BY <1>1, <1>3, <1>4, <1>5, <1>6
  DEF UpdateInOrder, RowFree, Under, Exists, GrantsOf, rowVars, found
<1>8. DeleteInOrder(c)' /\ StagesInOrder(c)'
  BY <1>3, <1>6 DEF DeleteInOrder, StagesInOrder
<1>9. QED BY <1>1, <1>3, <1>7, <1>8, AdvanceKeeps

LEMMA DetachKeeps ==
    ASSUME RolesInv, NEW c \in Admins, Detach(c)
    PROVE  RolesInv'
<1> DEFINE found == {m \in Members : assigned[m] = work[c].item}
           w == [work[c] EXCEPT !.stage = "detached", !.freed = found]
<1>1. work[c].op = "delete" /\ work[c].stage = "found" /\ Advance(c, w) BY DEF Detach
<1>2. work[c] \in Work BY DEF RolesInv, RolesTypeOK
<1>3. /\ w \in Work /\ w.op = "delete" /\ w.stage = "detached" /\ w.item = work[c].item
      /\ w.perms = work[c].perms /\ w.freed = found
  BY <1>1, <1>2 DEF Work
<1>4. DeleteInOrder(c) BY DEF RolesInv, WorkInOrder
<1>5. Becomes(c, w) /\ UNCHANGED rowVars BY <1>1 DEF Advance, Becomes
<1> HIDE DEF w
<1>6. work'[c] = w BY <1>3, <1>5, BecomesOnly
<1>7. DeleteInOrder(c)' BY <1>1, <1>3, <1>4, <1>5, <1>6 DEF DeleteInOrder, rowVars
<1>8. UpdateInOrder(c)' /\ StagesInOrder(c)'
  BY <1>3, <1>6 DEF UpdateInOrder, StagesInOrder
<1>9. QED BY <1>1, <1>3, <1>7, <1>8, AdvanceKeeps

LEMMA StartClearKeeps ==
    ASSUME RolesInv, NEW c \in Admins, StartClear(c)
    PROVE  RolesInv'
<1> DEFINE found == GrantsOf(work[c].item)
           w == [work[c] EXCEPT !.stage = "clearing", !.seen = found]
<1>1. work[c].stage = "detached" /\ Advance(c, w) BY DEF StartClear
<1>2. work[c] \in Work /\ found \in SUBSET PermIds
  BY DEF RolesInv, RolesTypeOK, GrantsOf
<1>3. DeleteInOrder(c) /\ StagesInOrder(c) BY DEF RolesInv, WorkInOrder
<1>4. work[c].op = "delete" BY <1>1, <1>3 DEF StagesInOrder
<1> HIDE DEF found
<1>5. /\ w \in Work /\ w.op = "delete" /\ w.stage = "clearing" /\ w.item = work[c].item
      /\ w.perms = work[c].perms /\ w.freed = work[c].freed /\ w.seen = found
  BY <1>2, <1>4 DEF Work
<1>6. Becomes(c, w) /\ UNCHANGED rowVars BY <1>1 DEF Advance, Becomes
<1> HIDE DEF w
<1>7. work'[c] = w BY <1>5, <1>6, BecomesOnly
<1>8. DeleteInOrder(c)'
  BY <1>1, <1>3, <1>4, <1>5, <1>6, <1>7 DEF DeleteInOrder, GrantsOf, rowVars, found
<1>9. UpdateInOrder(c)' /\ StagesInOrder(c)'
  BY <1>5, <1>7 DEF UpdateInOrder, StagesInOrder
<1>10. QED BY <1>1, <1>4, <1>5, <1>8, <1>9, AdvanceKeeps

LEMMA ClearKeeps ==
    ASSUME RolesInv, NEW c \in Admins, Clear(c)
    PROVE  RolesInv'
<1> DEFINE r == work[c].item
           cut == work[c].seen \cap GrantsOf(r)
           w == [work[c] EXCEPT !.stage = "cleared", !.cleared = cut]
<1>1. work[c].stage = "clearing" /\ Advance(c, w) BY DEF Clear
<1>2. work[c] \in Work /\ cut \in SUBSET PermIds
  BY DEF RolesInv, RolesTypeOK, GrantsOf
<1>3. UpdateInOrder(c) /\ DeleteInOrder(c) /\ StagesInOrder(c) BY DEF RolesInv, WorkInOrder
<1>4. work[c].op \in {"update", "delete"} BY <1>1, <1>3 DEF StagesInOrder
<1> HIDE DEF cut
<1>5. /\ w \in Work /\ w.op = work[c].op /\ w.stage = "cleared" /\ w.item = r
      /\ w.perms = work[c].perms /\ w.freed = work[c].freed /\ w.cleared = cut
  BY <1>2 DEF Work
<1>6. Becomes(c, w) /\ UNCHANGED <<rowVars, met>> BY <1>1 DEF Advance, Becomes
<1> HIDE DEF w
<1>7. work'[c] = w /\ \A d \in Admins \ {c} : work'[d] = work[d]
  BY <1>5, <1>6, BecomesOnly
<1>8. UpdateInOrder(c)'
  BY <1>1, <1>3, <1>5, <1>6, <1>7
  DEF UpdateInOrder, Under, Exists, GrantsOf, rowVars, cut
<1>9. DeleteInOrder(c)'
  BY <1>1, <1>3, <1>5, <1>6, <1>7 DEF DeleteInOrder, GrantsOf, rowVars, cut
<1>10. StagesInOrder(c)' BY <1>4, <1>5, <1>7 DEF StagesInOrder
<1>11. QED BY <1>1, <1>4, <1>5, <1>8, <1>9, <1>10, AdvanceKeeps

(* A request ends, and has overtaken others. *)
LEMMA FinishedOnly ==
    ASSUME RolesInv, NEW c \in Admins, NEW others \in SUBSET Admins, Finished(c, others)
    PROVE  /\ Becomes(c, NoWork) /\ NoWork \in Work
           /\ work' \in [Admins -> Work] /\ work'[c] = NoWork
           /\ \A d \in Admins \ {c} : work'[d] = work[d]
           /\ met' = (met \cup others) \ {c} /\ met' \subseteq Admins
           /\ InOrderOf(c)'
<1>1. NoWork \in Work BY DEF NoWork, Work
<1>2. Becomes(c, NoWork) /\ met' = (met \cup others) \ {c} BY DEF Finished, Becomes
<1>3. met' \subseteq Admins BY <1>2 DEF RolesInv, RolesTypeOK
<1>4. /\ work' \in [Admins -> Work] /\ work'[c] = NoWork
      /\ \A d \in Admins \ {c} : work'[d] = work[d]
  BY <1>1, <1>2, BecomesOnly
<1>5. InOrderOf(c)'
  BY <1>4
  DEF InOrderOf, CreateInOrder, UpdateInOrder, DeleteInOrder, StagesInOrder, NoWork
<1>6. QED BY <1>1, <1>2, <1>3, <1>4, <1>5

LEMMA UndoKeeps ==
    ASSUME RolesInv, NEW c \in Admins, Undo(c)
    PROVE  RolesInv'
<1>1. Finished(c, {}) /\ UNCHANGED <<rowVars, roleCalls>> BY DEF Undo
<1>2. roleCalls' \in 0..MaxRoleCalls BY <1>1 DEF RolesInv, RolesTypeOK
<1>3. QED BY <1>1, <1>2, FinishedOnly, RowsSame

(* The grants of one role are replaced. *)
LEMMA GrantsAfter ==
    ASSUME NEW r \in RoleIds, NEW D, NEW P \in SUBSET PermIds,
           grants \subseteq RoleIds \X PermIds,
           grants' = (grants \ ({r} \X D)) \cup {r} \X P
    PROVE  /\ grants' \subseteq RoleIds \X PermIds
           /\ GrantsOf(r)' = (GrantsOf(r) \ D) \cup P
           /\ \A s \in RoleIds \ {r} : GrantsOf(s)' = GrantsOf(s)
BY DEF GrantsOf

LEMMA CommitUpdateKeeps ==
    ASSUME RolesInv, NEW c \in Admins, CommitUpdate(c)
    PROVE  RolesInv'
<1> DEFINE ps == UNION work[c].perms
<1>0. PICK r \in RoleIds : r = work[c].item
  BY DEF RolesInv, WorkInOrder, UpdateInOrder, CommitUpdate
<1>1. /\ work[c].op = "update" /\ work[c].stage = "cleared"
      /\ Finished(c, Under(r, "delete"))
      /\ UNCHANGED <<title, assigned, roleCalls, twins, raced, stray>>
  BY <1>0 DEF CommitUpdate
<1>2. Under(r, "delete") \in SUBSET Admins BY DEF Under
<1>3. /\ Becomes(c, NoWork) /\ NoWork \in Work
      /\ work' \in [Admins -> Work] /\ work'[c] = NoWork
      /\ \A d \in Admins \ {c} : work'[d] = work[d]
      /\ met' = (met \cup Under(r, "delete")) \ {c} /\ met' \subseteq Admins
      /\ InOrderOf(c)'
  BY <1>1, <1>2, FinishedOnly
<1>4. CASE work[c].perms = {}
  <2>1. UNCHANGED rowVars BY <1>1, <1>4 DEF CommitUpdate, rowVars
  <2>2. roleCalls' \in 0..MaxRoleCalls BY <1>1 DEF RolesInv, RolesTypeOK
  <2>3. met \subseteq met' \cup {c} BY <1>3
  <2>4. QED BY <1>3, <2>1, <2>2, <2>3, RowsSame
<1>5. CASE work[c].perms # {}
  <2>1. /\ grants' = (grants \ ({r} \X work[c].cleared)) \cup {r} \X ps
        /\ latest' = [latest EXCEPT ![r] = ps]
    BY <1>0, <1>5 DEF CommitUpdate
  <2>2. work[c] \in Work /\ ps \in SUBSET PermIds
    BY DEF RolesInv, RolesTypeOK, Work
  <2>3. /\ title[r] # NoTitle
        /\ title[r] = GoneTitle => r \in raced
        /\ Exists(r) => work[c].cleared = GrantsOf(r)
        /\ Exists(r) => \A d \in Under(r, "update") \ {c} : work[d].stage = "found"
    BY <1>0, <1>1, <1>5 DEF RolesInv, WorkInOrder, UpdateInOrder
  <2> HIDE DEF ps
  <2>4. /\ grants' \subseteq RoleIds \X PermIds
        /\ GrantsOf(r)' = (GrantsOf(r) \ work[c].cleared) \cup ps
        /\ \A s \in RoleIds \ {r} : GrantsOf(s)' = GrantsOf(s)
    BY <2>1, <2>2, <2>3, GrantsAfter DEF RolesInv, RolesTypeOK
  <2>5. Exists(r) => GrantsOf(r)' = ps BY <2>3, <2>4
  <2>6. /\ latest' \in [RoleIds -> SUBSET PermIds] /\ latest'[r] = ps
        /\ \A s \in RoleIds \ {r} : latest'[s] = latest[s]
    BY <2>1, <2>2, <2>3 DEF RolesInv, RolesTypeOK
  <2>7. RolesTypeOK' BY <1>1, <1>3, <2>4, <2>6 DEF RolesInv, RolesTypeOK
  <2>8. PermissionsWhole'
    BY <1>1, <2>4, <2>5, <2>6 DEF RolesInv, RolesKept, PermissionsWhole, Exists
  <2>9. NamesUnique' BY <1>1 DEF RolesInv, RolesKept, NamesUnique, Exists
  <2>10. RemainsExplained'
    BY <1>1, <2>3, <2>4 DEF RolesInv, RolesKept, RemainsExplained, Exists
  <2>11. ASSUME NEW d \in Admins \ {c} PROVE InOrderOf(d)'
    <3>1. InOrderOf(d) BY DEF RolesInv, WorkInOrder, InOrderOf
    <3>2. CreateInOrder(d)'
      BY <1>1, <1>3, <3>1 DEF CreateInOrder, InOrderOf, Under, Taken, NoWork
    <3>3. UpdateInOrder(d)'
      <4>1. CASE work[d].item = r
        BY <1>1, <1>3, <2>3, <3>1, <4>1
        DEF UpdateInOrder, InOrderOf, Under, Exists
      <4>2. CASE work[d].item # r
        BY <1>1, <1>3, <2>4, <3>1, <4>2
        DEF UpdateInOrder, InOrderOf, Under, Exists, NoWork
      <4>3. QED BY <4>1, <4>2
    <3>4. DeleteInOrder(d)'
      <4>1. CASE work[d].item = r
        BY <1>1, <1>3, <2>3, <3>1, <4>1 DEF DeleteInOrder, InOrderOf, Under
      <4>2. CASE work[d].item # r
        BY <1>1, <1>3, <2>4, <3>1, <4>2 DEF DeleteInOrder, InOrderOf
      <4>3. QED BY <4>1, <4>2
    <3>5. StagesInOrder(d)' BY <1>3, <3>1 DEF StagesInOrder, InOrderOf
    <3>6. QED BY <3>2, <3>3, <3>4, <3>5 DEF InOrderOf
  <2>12. WorkInOrder' BY <1>3, <2>11 DEF WorkInOrder, InOrderOf
  <2>13. FreshUnused' BY <1>1, <2>3, <2>4 DEF RolesInv, FreshUnused
  <2>14. QED BY <2>7, <2>8, <2>9, <2>10, <2>12, <2>13 DEF RolesInv, RolesKept
<1>6. QED BY <1>4, <1>5

LEMMA CommitDeleteKeeps ==
    ASSUME RolesInv, NEW c \in Admins, CommitDelete(c)
    PROVE  RolesInv'
<1>0. PICK r \in RoleIds : r = work[c].item
  BY DEF RolesInv, WorkInOrder, DeleteInOrder, CommitDelete
<1> DEFINE raced2 == IF c \in met \/ Under(r, "update") # {} THEN raced \cup {r} ELSE raced
<1>1. /\ work[c].op = "delete" /\ work[c].stage = "cleared"
      /\ title' = [title EXCEPT ![r] = GoneTitle]
      /\ grants' = grants \ ({r} \X work[c].cleared)
      /\ assigned' = [m \in Members |-> IF m \in work[c].freed THEN NoRole ELSE assigned[m]]
      /\ raced' = raced2 /\ Finished(c, {})
      /\ UNCHANGED <<roleCalls, latest, twins, stray>>
  BY <1>0 DEF CommitDelete
<1>2. /\ work' \in [Admins -> Work] /\ work'[c] = NoWork
      /\ \A d \in Admins \ {c} : work'[d] = work[d]
      /\ met' = met \ {c} /\ met' \subseteq Admins /\ InOrderOf(c)'
  BY <1>1, FinishedOnly
<1>3. /\ title[r] # NoTitle
      /\ c \notin met => GrantsOf(r) \subseteq work[c].cleared
      /\ \A m \in Members : assigned[m] = r => m \in work[c].freed \cup stray
  BY <1>0, <1>1 DEF RolesInv, WorkInOrder, DeleteInOrder
<1>4. /\ raced \subseteq raced' /\ raced' \subseteq RoleIds
      /\ c \in met => r \in raced'
      /\ \A d \in Admins : work[d].op = "update" /\ work[d].item = r => r \in raced'
  BY <1>1, <1>3 DEF RolesInv, RolesTypeOK, Under
<1> HIDE DEF raced2
<1>5. /\ grants' \subseteq RoleIds \X PermIds
      /\ GrantsOf(r)' = GrantsOf(r) \ work[c].cleared
      /\ \A s \in RoleIds \ {r} : GrantsOf(s)' = GrantsOf(s)
  <2>1. grants' = (grants \ ({r} \X work[c].cleared)) \cup {r} \X {} BY <1>1
  <2>2. {} \in SUBSET PermIds /\ grants \subseteq RoleIds \X PermIds
    BY DEF RolesInv, RolesTypeOK
  <2>3. /\ grants' \subseteq RoleIds \X PermIds
        /\ GrantsOf(r)' = (GrantsOf(r) \ work[c].cleared) \cup {}
        /\ \A s \in RoleIds \ {r} : GrantsOf(s)' = GrantsOf(s)
    BY <1>3, <2>1, <2>2, GrantsAfter
  <2>4. QED BY <2>3
<1>6. /\ title' \in [Named -> Titles \cup {NoTitle, GoneTitle}] /\ title'[r] = GoneTitle
      /\ \A x \in Named \ {r} : title'[x] = title[x]
  BY <1>1, <1>3 DEF RolesInv, RolesTypeOK, Named
<1>7. /\ assigned' \in [Members -> RoleIds \cup {NoRole}]
      /\ \A m \in Members : assigned'[m] # NoRole =>
            assigned'[m] = assigned[m] /\ m \notin work[c].freed
  BY <1>1 DEF RolesInv, RolesTypeOK
<1>8. NoRole \notin RoleIds BY RolesAssumption DEF NoRole
<1>9. RolesTypeOK'
  BY <1>1, <1>2, <1>4, <1>5, <1>6, <1>7 DEF RolesInv, RolesTypeOK
<1>10. PermissionsWhole'
  BY <1>1, <1>5, <1>6 DEF RolesInv, RolesKept, PermissionsWhole, Exists, Named
<1>11. NamesUnique'
  BY <1>1, <1>6
  DEF RolesInv, RolesKept, NamesUnique, Exists, Kind, Named
<1>12. RemainsExplained'
  <2>1. ASSUME NEW s \in RoleIds, title'[s] = GoneTitle, GrantsOf(s)' # {}
        PROVE  s \in raced'
    BY <1>3, <1>4, <1>5, <1>6, <2>1
    DEF RolesInv, RolesKept, RemainsExplained, Named
  <2>2. ASSUME NEW m \in Members, assigned'[m] # NoRole,
               title'[assigned'[m]] \in {NoTitle, GoneTitle}
        PROVE  m \in stray'
    <3>1. /\ assigned'[m] = assigned[m] /\ m \notin work[c].freed
          /\ assigned[m] \in RoleIds
      BY <1>7, <2>2
    <3>2. CASE assigned[m] = r BY <1>1, <1>3, <3>1, <3>2
    <3>3. CASE assigned[m] # r
      BY <1>1, <1>6, <2>2, <3>1, <3>3
      DEF RolesInv, RolesKept, RemainsExplained, Exists, Named
    <3>4. QED BY <3>2, <3>3
  <2>3. QED BY <2>1, <2>2 DEF RemainsExplained, Exists
<1>13. ASSUME NEW d \in Admins \ {c} PROVE InOrderOf(d)'
  <2>1. InOrderOf(d) BY DEF RolesInv, WorkInOrder, InOrderOf
  <2>2. CreateInOrder(d)'
    BY <1>1, <1>2, <1>3, <1>6, <2>1, RolesAssumption
    DEF CreateInOrder, InOrderOf, Under, Taken, Kind, NoWork, Named, GoneTitle
  <2>3. UpdateInOrder(d)'
    <3>1. CASE work[d].item = r
      BY <1>2, <1>4, <1>6, <2>1, <3>1
      DEF UpdateInOrder, InOrderOf, Exists, NoTitle, GoneTitle
    <3>2. CASE work[d].item # r
      BY <1>2, <1>4, <1>5, <1>6, <2>1, <3>2
      DEF UpdateInOrder, InOrderOf, Under, Exists, NoWork, Named
    <3>3. QED BY <3>1, <3>2
  <2>4. DeleteInOrder(d)'
    <3>1. CASE work[d].op = "delete"
      <4>1. PICK s \in RoleIds : s = work[d].item BY <2>1, <3>1 DEF InOrderOf, DeleteInOrder
      <4>2. GrantsOf(s)' \subseteq GrantsOf(s) BY <1>5, <4>1
      <4>3. \A m \in Members : assigned'[m] = s => assigned[m] = s
        BY <1>7, <1>8, <4>1
      <4>4. title'[s] # NoTitle
        BY <1>6, <2>1, <3>1, <4>1 DEF InOrderOf, DeleteInOrder, Named, NoTitle, GoneTitle
      <4>5. QED
        BY <1>1, <1>2, <2>1, <3>1, <4>1, <4>2, <4>3, <4>4 DEF InOrderOf, DeleteInOrder
    <3>2. QED BY <1>2, <3>1 DEF DeleteInOrder
  <2>5. StagesInOrder(d)' BY <1>2, <2>1 DEF StagesInOrder, InOrderOf
  <2>6. QED BY <2>2, <2>3, <2>4, <2>5 DEF InOrderOf
<1>14. WorkInOrder' BY <1>2, <1>13 DEF WorkInOrder, InOrderOf
<1>15. FreshUnused'
  <2>1. ASSUME NEW s \in RoleIds, title'[s] = NoTitle PROVE GrantsOf(s)' = {}
    BY <1>5, <1>6, <2>1 DEF RolesInv, FreshUnused, Named, NoTitle, GoneTitle
  <2>2. ASSUME NEW m \in Members, assigned'[m] # NoRole PROVE title'[assigned'[m]] # NoTitle
    BY <1>6, <1>7, <2>2
    DEF RolesInv, RolesTypeOK, FreshUnused, Named, NoTitle, GoneTitle
  <2>3. QED BY <2>1, <2>2 DEF FreshUnused
<1>16. QED BY <1>9, <1>10, <1>11, <1>12, <1>14, <1>15 DEF RolesInv, RolesKept

LEMMA InsertNamedKeeps ==
    ASSUME RolesInv, NEW c \in Admins, InsertNamed(c)
    PROVE  RolesInv'
<1>1. CreateInOrder(c) /\ work[c].op = "create"
  BY DEF RolesInv, WorkInOrder, InsertNamed
<1>2. PICK x \in Named : x = work[c].item BY <1>1 DEF CreateInOrder
<1>3. PICK n \in Titles : n = work[c].name BY <1>1 DEF CreateInOrder
<1> DEFINE ps == UNION work[c].perms
           sameName == {d \in Admins : /\ work[d].op = "create" /\ work[d].name = n
                                       /\ work[d].item \in Kind(x)}
           twins2 == IF c \in met THEN twins \cup {x} ELSE twins
<1>4. /\ title' = [title EXCEPT ![x] = n] /\ twins' = twins2
      /\ Finished(c, sameName)
      /\ x \in RoleIds => grants' = grants \cup {x} \X ps /\ latest' = [latest EXCEPT ![x] = ps]
      /\ x \notin RoleIds => UNCHANGED <<grants, latest>>
      /\ UNCHANGED <<assigned, roleCalls, raced, stray>>
  BY <1>2, <1>3 DEF InsertNamed
<1>5. ps \in SUBSET PermIds
  <2>1. work[c] \in Work BY DEF RolesInv, RolesTypeOK
  <2>2. QED BY <2>1 DEF Work
<1>6. /\ title[x] = NoTitle /\ \A d \in Under(x, "create") : d = c
      /\ c \notin met => ~Taken(x, n)
  BY <1>1, <1>2, <1>3 DEF CreateInOrder
<1>7. n # NoTitle /\ n # GoneTitle BY RolesAssumption DEF NoTitle, GoneTitle
<1>8. /\ work' \in [Admins -> Work] /\ work'[c] = NoWork
      /\ \A d \in Admins \ {c} : work'[d] = work[d]
      /\ met' = (met \cup sameName) \ {c} /\ met' \subseteq Admins /\ InOrderOf(c)'
  BY <1>4, FinishedOnly
<1>9. /\ twins \subseteq twins' /\ twins' \subseteq Named
      /\ c \in met => x \in twins'
  BY <1>4 DEF RolesInv, RolesTypeOK
<1>10. \A d \in Admins \ {c} :
          work[d].op = "create" /\ work[d].name = n /\ work[d].item \in Kind(x) => d \in met'
  BY <1>8
<1>11. \A d \in Admins \ {c} : d \in met => d \in met' BY <1>8
<1> HIDE DEF ps, sameName, twins2
<1>12. /\ title' \in [Named -> Titles \cup {NoTitle, GoneTitle}] /\ title'[x] = n
       /\ \A y \in Named \ {x} : title'[y] = title[y]
  BY <1>4 DEF RolesInv, RolesTypeOK
<1>13. /\ grants' \subseteq RoleIds \X PermIds
       /\ \A s \in RoleIds \ {x} : GrantsOf(s)' = GrantsOf(s)
       /\ latest' \in [RoleIds -> SUBSET PermIds]
       /\ \A s \in RoleIds \ {x} : latest'[s] = latest[s]
       /\ x \in RoleIds => GrantsOf(x)' = latest'[x]
  <2>1. CASE x \in RoleIds
    <3>1. grants' = (grants \ ({x} \X {})) \cup {x} \X ps BY <1>4, <2>1
    <3>2. grants \subseteq RoleIds \X PermIds BY DEF RolesInv, RolesTypeOK
    <3>3. /\ grants' \subseteq RoleIds \X PermIds
          /\ GrantsOf(x)' = (GrantsOf(x) \ {}) \cup ps
          /\ \A s \in RoleIds \ {x} : GrantsOf(s)' = GrantsOf(s)
      BY <1>5, <2>1, <3>1, <3>2, GrantsAfter
    <3>4. GrantsOf(x) = {} BY <1>6, <2>1 DEF RolesInv, FreshUnused
    <3>5. /\ latest' \in [RoleIds -> SUBSET PermIds] /\ latest'[x] = ps
          /\ \A s \in RoleIds \ {x} : latest'[s] = latest[s]
      BY <1>4, <1>5, <2>1 DEF RolesInv, RolesTypeOK
    <3>6. QED BY <3>3, <3>4, <3>5
  <2>2. CASE x \notin RoleIds
    BY <1>4, <2>2 DEF RolesInv, RolesTypeOK, GrantsOf
  <2>3. QED BY <2>1, <2>2
<1>14. RolesTypeOK'
  BY <1>4, <1>8, <1>9, <1>12, <1>13 DEF RolesInv, RolesTypeOK
<1>15. PermissionsWhole'
  BY <1>12, <1>13 DEF RolesInv, RolesKept, PermissionsWhole, Exists, Named
<1>16. \A y \in Kind(x) \ {x} : title[y] = n => x \in twins'
  BY <1>6, <1>9 DEF Taken
<1>17. NamesUnique'
  <2>1. SUFFICES ASSUME NEW y \in Named, NEW z \in Kind(y) \ {y},
                        title'[y] \notin {NoTitle, GoneTitle}, title'[y] = title'[z]
                 PROVE  y \in twins' \/ z \in twins'
    BY DEF NamesUnique, Exists, Kind
  <2>2. z \in Named /\ y \in Kind(z)
    BY <2>1, RolesAssumption DEF Kind, Named
  <2>3. CASE y = x BY <1>12, <1>16, <2>1, <2>2, <2>3
  <2>4. CASE z = x BY <1>12, <1>16, <2>1, <2>2, <2>4
  <2>5. CASE y # x /\ z # x
    BY <1>9, <1>12, <2>1, <2>2, <2>5 DEF RolesInv, RolesKept, NamesUnique, Exists
  <2>6. QED BY <2>3, <2>4, <2>5
<1>18. RemainsExplained'
  <2>1. ASSUME NEW s \in RoleIds, title'[s] = GoneTitle, GrantsOf(s)' # {}
        PROVE  s \in raced'
    BY <1>4, <1>7, <1>12, <1>13, <2>1 DEF RolesInv, RolesKept, RemainsExplained, Named
  <2>2. ASSUME NEW m \in Members, assigned'[m] # NoRole,
               title'[assigned'[m]] \in {NoTitle, GoneTitle}
        PROVE  m \in stray'
    <3>1. assigned'[m] = assigned[m] /\ assigned[m] \in Named
      BY <1>4, <2>2 DEF RolesInv, RolesTypeOK, Named
    <3>2. assigned[m] # x BY <1>7, <1>12, <2>2, <3>1
    <3>3. title[assigned[m]] \in {NoTitle, GoneTitle} BY <1>12, <2>2, <3>1, <3>2
    <3>4. QED BY <1>4, <2>2, <3>1, <3>3 DEF RolesInv, RolesKept, RemainsExplained, Exists
  <2>3. QED BY <2>1, <2>2 DEF RemainsExplained, Exists
<1>19. ASSUME NEW d \in Admins \ {c} PROVE InOrderOf(d)'
  <2>1. InOrderOf(d) BY DEF RolesInv, WorkInOrder, InOrderOf
  <2>2. CreateInOrder(d)'
    <3>1. CASE work[d].op = "create"
      <4>1. PICK y \in Named : y = work[d].item BY <2>1, <3>1 DEF InOrderOf, CreateInOrder
      <4>2. y # x
        BY <1>6, <3>1, <4>1 DEF Under
      <4>3. /\ title[y] = NoTitle
            /\ y \in PermIds => UNION work[d].perms = {}
            /\ work[d].name \in Titles /\ \A e \in Under(y, "create") : e = d
        BY <2>1, <3>1, <4>1 DEF InOrderOf, CreateInOrder
      <4>4. \A e \in Admins : work'[e].op = "create" /\ work'[e].item = y => e = d
        BY <1>8, <4>3 DEF Under, NoWork
      <4>5. ASSUME d \notin met', NEW z \in Kind(y), title'[z] = work[d].name PROVE FALSE
        <5>1. d \notin met BY <1>11, <4>5
        <5>2. title[z] # work[d].name
          BY <2>1, <3>1, <4>1, <5>1 DEF InOrderOf, CreateInOrder, Taken
        <5>3. z \in Named BY DEF Kind, Named
        <5>4. z = x /\ work[d].name = n BY <1>12, <4>5, <5>2, <5>3
        <5>5. y \in Kind(x) BY <5>4, RolesAssumption DEF Kind, Named
        <5>6. QED BY <1>10, <3>1, <4>1, <4>5, <5>4, <5>5
      <4>6. title'[y] = NoTitle BY <1>12, <4>2, <4>3
      <4>7. QED
        BY <1>8, <4>1, <4>3, <4>4, <4>5, <4>6 DEF CreateInOrder, Under, Taken, Kind
    <3>2. QED BY <1>8, <3>1 DEF CreateInOrder
  <2>3. UpdateInOrder(d)'
    <3>1. CASE work[d].op = "update"
      <4>1. PICK r \in RoleIds : r = work[d].item BY <2>1, <3>1 DEF InOrderOf, UpdateInOrder
      <4>2. r # x BY <1>6, <2>1, <3>1, <4>1 DEF InOrderOf, UpdateInOrder
      <4>3. title'[r] = title[r] /\ GrantsOf(r)' = GrantsOf(r)
        BY <1>12, <1>13, <4>2 DEF Named
      <4>4. QED
        BY <1>4, <1>8, <2>1, <3>1, <4>1, <4>3
        DEF InOrderOf, UpdateInOrder, Under, Exists, NoWork
    <3>2. QED BY <1>8, <3>1 DEF UpdateInOrder
  <2>4. DeleteInOrder(d)'
    <3>1. CASE work[d].op = "delete"
      <4>1. PICK r \in RoleIds : r = work[d].item BY <2>1, <3>1 DEF InOrderOf, DeleteInOrder
      <4>2. r # x BY <1>6, <2>1, <3>1, <4>1 DEF InOrderOf, DeleteInOrder
      <4>3. title'[r] = title[r] /\ GrantsOf(r)' = GrantsOf(r)
        BY <1>12, <1>13, <4>2 DEF Named
      <4>4. QED
        BY <1>4, <1>8, <1>11, <2>1, <3>1, <4>1, <4>3 DEF InOrderOf, DeleteInOrder
    <3>2. QED BY <1>8, <3>1 DEF DeleteInOrder
  <2>5. StagesInOrder(d)' BY <1>8, <2>1 DEF StagesInOrder, InOrderOf
  <2>6. QED BY <2>2, <2>3, <2>4, <2>5 DEF InOrderOf
<1>20. WorkInOrder' BY <1>8, <1>19 DEF WorkInOrder, InOrderOf
<1>21. FreshUnused'
  <2>1. ASSUME NEW s \in RoleIds, title'[s] = NoTitle PROVE GrantsOf(s)' = {}
    BY <1>7, <1>12, <1>13, <2>1 DEF RolesInv, FreshUnused, Named
  <2>2. ASSUME NEW m \in Members, assigned'[m] # NoRole PROVE title'[assigned'[m]] # NoTitle
    <3>1. assigned'[m] = assigned[m] /\ assigned[m] \in Named
      BY <1>4, <2>2 DEF RolesInv, RolesTypeOK, Named
    <3>2. QED BY <1>7, <1>12, <2>2, <3>1 DEF RolesInv, FreshUnused
  <2>3. QED BY <2>1, <2>2 DEF FreshUnused
<1>22. QED BY <1>14, <1>15, <1>17, <1>18, <1>20, <1>21 DEF RolesInv, RolesKept

LEMMA AssignKeeps ==
    ASSUME RolesInv, NEW m \in Members, NEW r \in RoleIds, Assign(m, r)
    PROVE  RolesInv'
<1> DEFINE late == ~Exists(r) \/ \E c \in Under(r, "delete") : work[c].stage # "found"
           stray2 == IF late THEN stray \cup {m} ELSE stray \ {m}
<1>1. /\ title[r] # NoTitle /\ assigned' = [assigned EXCEPT ![m] = r]
      /\ stray' = stray2
      /\ UNCHANGED <<title, grants, work, latest, twins, raced, met>>
  BY DEF Assign
<1>2. roleCalls' \in 0..MaxRoleCalls
  BY RolesAssumption DEF Assign, CountCall, RolesInv, RolesTypeOK
<1>3. /\ assigned' \in [Members -> RoleIds \cup {NoRole}] /\ assigned'[m] = r
      /\ \A k \in Members \ {m} : assigned'[k] = assigned[k]
  BY <1>1 DEF RolesInv, RolesTypeOK
<1>4. /\ stray' \subseteq Members
      /\ \A k \in Members \ {m} : k \in stray => k \in stray'
      /\ ~Exists(r) => m \in stray'
      /\ \A c \in Under(r, "delete") : work[c].stage # "found" => m \in stray'
  BY <1>1 DEF RolesInv, RolesTypeOK
<1> HIDE DEF stray2, late
<1>5. RolesTypeOK' BY <1>1, <1>2, <1>3, <1>4 DEF RolesInv, RolesTypeOK
<1>6. PermissionsWhole' /\ NamesUnique'
  BY <1>1 DEF RolesInv, RolesKept, PermissionsWhole, NamesUnique, Exists, GrantsOf
<1>7. RemainsExplained'
  <2>1. \A s \in RoleIds : title'[s] = GoneTitle /\ GrantsOf(s)' # {} => s \in raced'
    BY <1>1 DEF RolesInv, RolesKept, RemainsExplained, GrantsOf
  <2>2. ASSUME NEW k \in Members, assigned'[k] # NoRole,
               title'[assigned'[k]] \in {NoTitle, GoneTitle}
        PROVE  k \in stray'
    <3>1. CASE k = m BY <1>1, <1>3, <1>4, <2>2, <3>1 DEF Exists
    <3>2. CASE k # m
      BY <1>1, <1>3, <1>4, <2>2, <3>2 DEF RolesInv, RolesKept, RemainsExplained, Exists
    <3>3. QED BY <3>1, <3>2
  <2>3. QED BY <2>1, <2>2 DEF RemainsExplained, Exists
<1>8. ASSUME NEW d \in Admins PROVE InOrderOf(d)'
  <2>1. InOrderOf(d) BY DEF RolesInv, WorkInOrder, InOrderOf
  <2>2. CreateInOrder(d)' BY <1>1, <2>1 DEF InOrderOf, CreateInOrder, Under, Taken
  <2>3. UpdateInOrder(d)' BY <1>1, <2>1 DEF InOrderOf, UpdateInOrder, Under, Exists, GrantsOf
  <2>4. DeleteInOrder(d)'
    <3>1. ASSUME work[d].op = "delete", work[d].stage # "found",
                 NEW k \in Members, assigned'[k] = work[d].item
          PROVE  k \in work[d].freed \cup stray'
      <4>1. CASE k = m BY <1>3, <1>4, <3>1, <4>1 DEF Under
      <4>2. CASE k # m BY <1>3, <1>4, <2>1, <3>1, <4>2 DEF InOrderOf, DeleteInOrder
      <4>3. QED BY <4>1, <4>2
    <3>2. QED BY <1>1, <2>1, <3>1 DEF InOrderOf, DeleteInOrder, GrantsOf
  <2>5. StagesInOrder(d)' BY <1>1, <2>1 DEF InOrderOf, StagesInOrder
  <2>6. QED BY <2>2, <2>3, <2>4, <2>5 DEF InOrderOf
<1>9. WorkInOrder' BY <1>8 DEF WorkInOrder, InOrderOf
<1>10. FreshUnused' BY <1>1, <1>3 DEF RolesInv, FreshUnused, GrantsOf
<1>11. QED BY <1>5, <1>6, <1>7, <1>9, <1>10 DEF RolesInv, RolesKept

LEMMA RolesStep == RolesInv /\ [RolesNext]_roleVars => RolesInv'
<1> SUFFICES ASSUME RolesInv, [RolesNext]_roleVars PROVE RolesInv' OBVIOUS
<1>1. CASE UNCHANGED roleVars
  BY <1>1
  DEF roleVars, RolesInv, RolesTypeOK, RolesKept, PermissionsWhole, NamesUnique,
      RemainsExplained, WorkInOrder, CreateInOrder, UpdateInOrder, DeleteInOrder,
      StagesInOrder, FreshUnused, Exists, GrantsOf, Under, Taken
<1>2. ASSUME NEW c \in Admins, NEW x \in Named, NEW n \in Titles, NEW ps \in SUBSET PermIds,
             CheckName(c, x, n, ps)
      PROVE  RolesInv'
  BY <1>2, CheckNameKeeps
<1>3. ASSUME NEW c \in Admins, NEW r \in RoleIds, NEW ps \in SUBSET PermIds,
             FindRole(c, "update", r, {ps})
      PROVE  RolesInv'
  <2>1. {ps} \in SUBSET (SUBSET PermIds) OBVIOUS
  <2>2. QED BY <1>3, <2>1, FindRoleKeeps
<1>4. ASSUME NEW c \in Admins, NEW r \in RoleIds, NEW op \in {"update", "delete"},
             FindRole(c, op, r, {})
      PROVE  RolesInv'
  <2>1. {} \in SUBSET (SUBSET PermIds) OBVIOUS
  <2>2. QED BY <1>4, <2>1, FindRoleKeeps
<1>5. ASSUME NEW c \in Admins,
             \/ InsertNamed(c) \/ LockRole(c) \/ Detach(c) \/ StartClear(c)
             \/ Clear(c) \/ CommitUpdate(c) \/ CommitDelete(c) \/ Undo(c)
      PROVE  RolesInv'
  BY <1>5, InsertNamedKeeps, LockRoleKeeps, DetachKeeps, StartClearKeeps, ClearKeeps,
     CommitUpdateKeeps, CommitDeleteKeeps, UndoKeeps
<1>6. ASSUME NEW m \in Members, NEW r \in RoleIds, Assign(m, r) PROVE RolesInv'
  BY <1>6, AssignKeeps
<1>7. QED BY <1>1, <1>2, <1>3, <1>4, <1>5, <1>6 DEF RolesNext

LEMMA RefinesRoles == IdentitySpec => RolesInit /\ [][RolesNext]_roleVars
<1>1. IdentityInit => RolesInit BY DEF IdentityInit
<1>2. [IdentityNext]_identityVars => [RolesNext]_roleVars
  BY DEF IdentityNext, Signing, Granting, Provisioning, identityVars
<1>3. QED BY <1>1, <1>2, PTL DEF IdentitySpec

(* However administrators' requests overlap, fail and wait for each other, a role
   has the permissions its last writer gave it, and what is left of a deleted one
   or bears the name of another is left by the overlaps that are named. *)
THEOREM IdentityRolesKept == IdentitySpec => []RolesKept
<1>1. RolesInv => RolesKept BY DEF RolesInv
<1>2. QED BY RefinesRoles, InitRoles, RolesStep, <1>1, PTL

(* So the directory is kept. *)
THEOREM IdentityDirectoryKept == IdentitySpec => DirectoryKept
BY IdentityRolesKept, IdentityAccountsKept, PTL DEF DirectoryKept

(* Every part has its type in every reachable state. *)
THEOREM IdentityTypes == IdentitySpec => []IdentityTypeOK
<1> DEFINE FocusOK == focus \in {"sessions", "roles", "accounts"}
<1>1. IdentityInit => FocusOK BY DEF IdentityInit
<1>2. FocusOK /\ [IdentityNext]_identityVars => FocusOK'
  BY DEF IdentityNext, identityVars
<1>3. RolesInv => RolesTypeOK BY DEF RolesInv
<1>4. AccountsInv => AccountsTypeOK BY DEF AccountsInv
<1>5. TypeOK /\ RolesTypeOK /\ AccountsTypeOK /\ FocusOK => IdentityTypeOK
  BY DEF IdentityTypeOK
<1>6. IdentitySpec => []FocusOK BY <1>1, <1>2, PTL DEF IdentitySpec
<1>7. IdentitySpec => []RolesTypeOK
  BY RefinesRoles, InitRoles, RolesStep, <1>3, PTL
<1>8. IdentitySpec => []AccountsTypeOK
  BY RefinesAccounts, InitAccounts, AccountsStep, <1>4, PTL
<1>9. IdentitySpec => []TypeOK BY RefinesSessions, TypeCorrect, PTL
<1>10. QED BY <1>5, <1>6, <1>7, <1>8, <1>9, PTL

=============================================================================
