--------------------------- MODULE InboundProofs ---------------------------
(***************************************************************************)
(* Proofs about what reaches the platform from outside: the webhooks, the  *)
(* shipments, the telemetry, the purchase orders and the ERP sync of       *)
(* Inbound, for every value of the constants.                              *)
(*                                                                         *)
(* Each part has an inductive invariant of its own, HooksInv, ShipmentsInv,*)
(* ReadingsInv, OrdersInv and ErpInv; only telemetry touches what is not   *)
(* its own, the position of a shipment, and ReportsKeepShipments says that *)
(* this breaks nothing.                                                    *)
(***************************************************************************)
EXTENDS Inbound, FiniteSetTheorems, WellFoundedInduction, TLAPS

-----------------------------------------------------------------------------
(* Webhooks.  The sorted set holds every admitted time later than the window it
   was last cut to, and Redis drops it only when all of them are older than the
   window; a request points at the stores it has been through. *)

AdmittedOf(Q) == UNION {admittedAt[q] : q \in Q}
Admitted == AdmittedOf(HookRequests)

MembersKnown ==
    /\ members \subseteq Admitted
    /\ Admitted \subseteq 0..trimmed
    /\ trimmed <= millis
    /\ \A t \in Admitted : t > trimmed - RateWindow => t \in members
    /\ \A t \in Admitted : t + RateWindow <= expires
    /\ \A q \in HookRequests : clockRead[q] <= millis

Passed == {"admitted", "parsed", "acknowledged", "unacknowledged", "202"}

StoresFollowed ==
    \A q \in HookRequests :
        /\ ask[q] \in {"new", "verified", "timed"} =>
              admittedAt[q] = {} /\ refusedAt[q] = {} /\ q \notin overtaken
        /\ ask[q] \in Passed => admittedAt[q] # {}
        /\ ask[q] = "acknowledged" => q \in onTopic
        /\ q \in onTopic =>
              /\ admittedAt[q] # {}
              /\ ask[q] \in {"acknowledged", "unacknowledged", "202", "500"}

HooksInv ==
    /\ WebhooksTypeOK /\ MembersKnown /\ StoresFollowed
    /\ LimitExact /\ EventsAccounted

(* Moments between two bounds are finitely many. *)
LEMMA Moments ==
    ASSUME NEW S, NEW low \in Int, NEW high \in Int
    PROVE  /\ IsFiniteSet(S \cap (low + 1)..high)
           /\ Cardinality(S \cap (low + 1)..high) \in Nat
           /\ \A t : t \in S \cap (low + 1)..high <=> t \in S /\ t \in Int /\ low < t /\ t <= high
<1>1. low + 1 \in Int OBVIOUS
<1>2. IsFiniteSet((low + 1)..high) BY <1>1, FS_Interval
<1>3. S \cap (low + 1)..high \in SUBSET ((low + 1)..high) OBVIOUS
<1>4. IsFiniteSet(S \cap (low + 1)..high) BY <1>2, <1>3, FS_Subset
<1>5. QED BY <1>1, <1>4, FS_CardinalityType

(* More of them in a larger set. *)
LEMMA MoreMoments ==
    ASSUME NEW S, NEW T, S \subseteq T, NEW low \in Int, NEW high \in Int, NEW later \in Int,
           high <= later
    PROVE  Cardinality(S \cap (low + 1)..high) <= Cardinality(T \cap (low + 1)..later)
<1>1. S \cap (low + 1)..high \in SUBSET (T \cap (low + 1)..later) OBVIOUS
<1>2. IsFiniteSet(T \cap (low + 1)..later) BY Moments
<1>3. QED BY <1>1, <1>2, FS_Subset

LEMMA InitHooks == WebhooksInit => HooksInv
<1> SUFFICES ASSUME WebhooksInit PROVE HooksInv OBVIOUS
<1> USE DEF WebhooksInit
<1>1. WebhooksTypeOK
  BY WebhookAssumption DEF WebhooksTypeOK, Underway, Answers
<1>2. Admitted = {} BY DEF Admitted, AdmittedOf
<1>3. \A low, high : AdmittedIn(OnTime, low, high) = {} BY DEF AdmittedIn, OnTime
<1>4. MembersKnown BY <1>2 DEF MembersKnown
<1>5. StoresFollowed BY DEF StoresFollowed, Passed
<1>6. LimitExact
  BY <1>3, FS_EmptySet, WebhookAssumption DEF LimitExact
<1>7. EventsAccounted BY DEF EventsAccounted
<1>8. QED BY <1>1, <1>4, <1>5, <1>6, <1>7 DEF HooksInv

(* A step that leaves the limiter alone. *)
LEMMA LimiterAlone ==
    ASSUME MembersKnown, LimitExact, UNCHANGED limiterVars
    PROVE  MembersKnown' /\ LimitExact'
BY DEF MembersKnown, LimitExact, limiterVars, Admitted, AdmittedOf, AdmittedIn, OnTime

(* Time passes and the clock is read: nothing is admitted and no member goes. *)
LEMMA ClockKeeps ==
    ASSUME HooksInv, Millisecond \/ \E q \in HookRequests : ReadClock(q)
    PROVE  HooksInv'
<1> USE DEF HooksInv
<1>1. /\ members' = members /\ expires' = expires /\ admittedAt' = admittedAt
      /\ refusedAt' = refusedAt /\ trimmed' = trimmed /\ overtaken' = overtaken
      /\ hook' = hook /\ onTopic' = onTopic /\ hookLog' = hookLog /\ troubles' = troubles
  BY DEF Millisecond, ReadClock
<1>2. /\ millis \in Int /\ millis' \in 0..MaxMillis /\ millis <= millis'
      /\ clockRead' \in [HookRequests -> 0..MaxMillis]
      /\ \A p \in HookRequests : clockRead'[p] <= millis'
  BY WebhookAssumption DEF WebhooksTypeOK, MembersKnown, Millisecond, ReadClock
<1>3. /\ ask' \in [HookRequests -> {"new"} \cup Underway \cup Answers]
      /\ \A p \in HookRequests : ask'[p] = ask[p] \/ (ask[p] = "verified" /\ ask'[p] = "timed")
  <2>1. "timed" \in {"new"} \cup Underway \cup Answers BY DEF Underway
  <2>2. CASE Millisecond BY <2>2 DEF WebhooksTypeOK, Millisecond
  <2>3. ASSUME NEW q \in HookRequests, ReadClock(q)
        PROVE  /\ ask' \in [HookRequests -> {"new"} \cup Underway \cup Answers]
               /\ \A p \in HookRequests :
                     ask'[p] = ask[p] \/ (ask[p] = "verified" /\ ask'[p] = "timed")
    BY <2>1, <2>3 DEF WebhooksTypeOK, ReadClock, Reach
  <2>4. QED BY <2>2, <2>3
<1>4. WebhooksTypeOK' BY <1>1, <1>2, <1>3 DEF WebhooksTypeOK
<1>5. MembersKnown'
  <2>1. trimmed <= millis'
    BY <1>2 DEF MembersKnown, WebhooksTypeOK
  <2>2. QED BY <1>1, <1>2, <2>1 DEF MembersKnown, Admitted, AdmittedOf
<1>6. LimitExact' BY <1>1 DEF LimitExact, AdmittedIn, OnTime
<1>7. StoresFollowed' BY <1>1, <1>3 DEF StoresFollowed, Passed
<1>8. EventsAccounted'
  <2>1. ASSUME NEW p \in HookRequests, p \in onTopic
        PROVE  admittedAt[p] # {} /\ ask'[p] \in Underway \cup {"202", "500"}
    BY <2>1, <1>3 DEF EventsAccounted, Underway
  <2>2. QED BY <1>1, <1>3, <2>1 DEF EventsAccounted
<1>9. QED BY <1>4, <1>5, <1>6, <1>7, <1>8

(* What the script finds: everything admitted later than the window of the cut. *)
LEMMA ScriptFinds ==
    ASSUME HooksInv
    PROVE  /\ Cut \in 0..MaxMillis /\ Cut <= millis /\ trimmed <= Cut
           /\ Live \subseteq Admitted /\ Admitted \subseteq 0..Cut
           /\ \A t \in Admitted : t > Cut - RateWindow => t \in Live
<1> USE DEF HooksInv
<1>1. /\ millis \in 0..MaxMillis /\ trimmed \in 0..MaxMillis /\ RateWindow \in Nat
      /\ MaxMillis \in Nat /\ expires \in 0..MaxMillis + RateWindow
  BY WebhookAssumption DEF WebhooksTypeOK
<1>2. Cut \in 0..MaxMillis /\ Cut <= millis /\ trimmed <= Cut
  BY <1>1 DEF Cut, Expired, MembersKnown
<1>3. Live \subseteq Admitted BY DEF Live, MembersKnown
<1>4. Admitted \subseteq 0..Cut
  <2>1. SUFFICES ASSUME NEW t \in Admitted PROVE t \in 0..Cut OBVIOUS
  <2>2. t \in 0..trimmed BY DEF MembersKnown
  <2>3. QED BY <2>2, <1>1, <1>2
<1>5. ASSUME NEW t \in Admitted, t > Cut - RateWindow PROVE t \in Live
  <2>1. t \in Int /\ t + RateWindow <= expires
    BY <1>4, <1>2, <1>1 DEF MembersKnown
  <2>2. PICK c : c = Cut OBVIOUS
  <2>3. c \in Int /\ t > c - RateWindow /\ trimmed <= c BY <1>2, <1>5, <2>2
  <2>4. ~Expired
    <3>1. SUFFICES ASSUME Expired PROVE FALSE OBVIOUS
    <3>2. c >= expires BY <3>1, <2>2, <1>1 DEF Cut
    <3>3. QED BY <3>2, <2>1, <2>3, <1>1
  <2>5. t > trimmed - RateWindow BY <2>1, <2>3, <1>1
  <2>6. QED BY <2>4, <2>5 DEF Live, MembersKnown
<1>6. QED BY <1>2, <1>3, <1>4, <1>5

(* The limiter's script: an admission that is not overtaken adds its time to all
   that was admitted in its window, and a later window holds no more than this
   one. *)
LEMMA CheckLimitKeeps ==
    ASSUME HooksInv, NEW q \in HookRequests, CheckLimit(q)
    PROVE  HooksInv'
<1> USE DEF HooksInv
<1>a. PICK now, cut, live, kept :
        /\ now = clockRead[q] /\ cut = Cut /\ live = Live
        /\ kept = {t \in live : t > now - RateWindow}
  OBVIOUS
<1>b. /\ millis \in 0..MaxMillis /\ RateWindow \in Nat \ {0} /\ RateLimit \in Nat \ {0}
      /\ MaxMillis \in Nat /\ now \in 0..MaxMillis /\ trimmed \in 0..MaxMillis
  BY <1>a, WebhookAssumption DEF WebhooksTypeOK
<1>c. /\ ask[q] = "timed" /\ admittedAt[q] = {} /\ refusedAt[q] = {} /\ q \notin overtaken
      /\ q \notin onTopic /\ hookLog[q] = "none" /\ now <= millis
  BY <1>a DEF CheckLimit, StoresFollowed, EventsAccounted, MembersKnown
<1>d. /\ cut \in 0..MaxMillis /\ cut <= millis /\ trimmed <= cut
      /\ live \subseteq Admitted /\ Admitted \subseteq 0..cut
      /\ \A t \in Admitted : t > cut - RateWindow => t \in live
  BY <1>a, ScriptFinds
<1>e. PICK past : past = Admitted OBVIOUS
<1>f. /\ past \subseteq 0..cut /\ live \subseteq past
      /\ \A t \in past : t \in Int /\ 0 <= t /\ t <= cut
      /\ \A t \in past : t > cut - RateWindow => t \in live
  BY <1>d, <1>e, <1>b
<1>1. /\ trimmed' = IF now > cut THEN now ELSE cut
      /\ overtaken' = IF now < cut THEN overtaken \cup {q} ELSE overtaken
      /\ UNCHANGED <<hook, millis, clockRead, onTopic, hookLog, troubles>>
  BY <1>a DEF CheckLimit
<1>2. \/ /\ Cardinality(kept) < RateLimit
         /\ members' = kept \cup {now} /\ expires' = millis + RateWindow
         /\ admittedAt' = [admittedAt EXCEPT ![q] = {now}]
         /\ ask' = [ask EXCEPT ![q] = "admitted"] /\ refusedAt' = refusedAt
      \/ /\ ~(Cardinality(kept) < RateLimit)
         /\ members' = kept /\ expires' = expires /\ admittedAt' = admittedAt
         /\ refusedAt' = [refusedAt EXCEPT ![q] = {now}]
         /\ ask' = [ask EXCEPT ![q] = "limited"]
  BY <1>a DEF CheckLimit, Reach, Room
<1>3. kept \subseteq past /\ kept = kept \cap ((now - RateWindow) + 1)..MaxMillis
  <2>1. \A t \in kept : t \in past /\ t > now - RateWindow BY <1>a, <1>f
  <2>2. ASSUME NEW t \in kept PROVE t \in ((now - RateWindow) + 1)..MaxMillis
    <3>1. t \in Int /\ t <= cut /\ t > now - RateWindow BY <2>1, <1>f
    <3>2. cut \in Int /\ cut <= MaxMillis BY <1>d, <1>b
    <3>3. QED BY <3>1, <3>2, <1>b
  <2>3. QED BY <2>1, <2>2
<1>4. IsFiniteSet(kept) /\ Cardinality(kept) \in Nat
  <2>1. PICK low : low = now - RateWindow OBVIOUS
  <2>2. low \in Int /\ MaxMillis \in Int BY <2>1, <1>b
  <2>3. IsFiniteSet(kept \cap (low + 1)..MaxMillis)
        /\ Cardinality(kept \cap (low + 1)..MaxMillis) \in Nat
    BY <2>2, Moments
  <2>4. QED BY <1>3, <2>1, <2>3
<1>5. PICK after : after = Admitted' OBVIOUS
<1>6. /\ past \subseteq after /\ after \subseteq past \cup {now}
      /\ admittedAt' # admittedAt => after = past \cup {now}
      /\ \A p \in HookRequests : p # q => admittedAt'[p] = admittedAt[p] /\ refusedAt'[p] = refusedAt[p]
      /\ \A p \in HookRequests : p # q => ask'[p] = ask[p]
  BY <1>2, <1>5, <1>e, <1>c DEF Admitted, AdmittedOf, WebhooksTypeOK
<1>7. trimmed' \in Int /\ cut <= trimmed' /\ now <= trimmed' /\ trimmed' <= millis
      /\ trimmed' \in 0..MaxMillis
  BY <1>1, <1>b, <1>c, <1>d
<1>8. WebhooksTypeOK'
  <2>1. {now} \in SUBSET (0..MaxMillis) /\ kept \in SUBSET (0..MaxMillis)
    BY <1>b, <1>3, <1>f, <1>d
  <2>2. {"admitted", "limited"} \subseteq {"new"} \cup Underway \cup Answers
    BY DEF Underway, Answers
  <2>3. /\ members' \in SUBSET (0..MaxMillis)
        /\ admittedAt' \in [HookRequests -> SUBSET (0..MaxMillis)]
        /\ refusedAt' \in [HookRequests -> SUBSET (0..MaxMillis)]
        /\ ask' \in [HookRequests -> {"new"} \cup Underway \cup Answers]
    <3>1. members' = kept \cup {now} \/ members' = kept BY <1>2
    <3>2. admittedAt' = [admittedAt EXCEPT ![q] = {now}] \/ admittedAt' = admittedAt BY <1>2
    <3>3. refusedAt' = [refusedAt EXCEPT ![q] = {now}] \/ refusedAt' = refusedAt BY <1>2
    <3>4. ask' = [ask EXCEPT ![q] = "admitted"] \/ ask' = [ask EXCEPT ![q] = "limited"]
      BY <1>2
    <3>5. members' \in SUBSET (0..MaxMillis) BY <3>1, <2>1
    <3>6. admittedAt' \in [HookRequests -> SUBSET (0..MaxMillis)]
      BY <3>2, <2>1 DEF WebhooksTypeOK
    <3>7. refusedAt' \in [HookRequests -> SUBSET (0..MaxMillis)]
      BY <3>3, <2>1 DEF WebhooksTypeOK
    <3>8. ask' \in [HookRequests -> {"new"} \cup Underway \cup Answers]
      BY <3>4, <2>2 DEF WebhooksTypeOK
    <3>9. QED BY <3>5, <3>6, <3>7, <3>8
  <2>4. expires' \in 0..MaxMillis + RateWindow
    BY <1>2, <1>b DEF WebhooksTypeOK
  <2>5. overtaken' \subseteq HookRequests BY <1>1 DEF WebhooksTypeOK
  <2>6. QED BY <1>1, <1>7, <2>3, <2>4, <2>5 DEF WebhooksTypeOK
<1>9. MembersKnown'
  <2>1. members' \subseteq after /\ after \subseteq 0..trimmed'
    <3>1. \A t \in after : t \in Int /\ 0 <= t /\ t <= trimmed'
      BY <1>6, <1>f, <1>7, <1>b, <1>d
    <3>2. members' \subseteq after
      <4>1. CASE members' = kept BY <4>1, <1>3, <1>6
      <4>2. CASE members' = kept \cup {now} /\ admittedAt' = [admittedAt EXCEPT ![q] = {now}]
        <5>1. admittedAt'[q] # admittedAt[q] BY <4>2, <1>c DEF WebhooksTypeOK
        <5>2. QED BY <4>2, <5>1, <1>3, <1>6
      <4>3. QED BY <1>2, <4>1, <4>2
    <3>3. QED BY <3>1, <3>2, <1>7
  <2>2. ASSUME NEW t \in after, t > trimmed' - RateWindow PROVE t \in members'
    <3>1. CASE t \in past
      <4>1. t > cut - RateWindow /\ t > now - RateWindow
        <5>1. PICK is : is = trimmed' OBVIOUS
        <5>2. is \in Int /\ cut <= is /\ now <= is /\ t > is - RateWindow BY <5>1, <1>7, <2>2
        <5>3. t \in Int /\ cut \in Int BY <3>1, <1>f, <1>d, <1>b
        <5>4. QED BY <5>2, <5>3, <1>b
      <4>2. t \in kept BY <3>1, <4>1, <1>a, <1>f
      <4>3. QED BY <4>2, <1>2
    <3>2. CASE t \notin past
      <4>1. t = now /\ after # past BY <2>2, <3>2, <1>6
      <4>2. admittedAt' # admittedAt BY <4>1, <1>5, <1>e DEF Admitted, AdmittedOf
      <4>3. QED BY <4>1, <4>2, <1>2
    <3>3. QED BY <3>1, <3>2
  <2>3. ASSUME NEW t \in after PROVE t + RateWindow <= expires'
    <3>1. CASE expires' = millis + RateWindow
      <4>1. t = now \/ (t \in Int /\ t <= cut) BY <1>6, <1>f
      <4>2. t \in Int /\ t <= millis BY <4>1, <1>b, <1>c, <1>d
      <4>3. QED BY <3>1, <4>2, <1>b
    <3>2. CASE expires' = expires /\ admittedAt' = admittedAt
      <4>1. t \in Admitted BY <3>2, <1>5 DEF Admitted, AdmittedOf
      <4>2. QED BY <3>2, <4>1 DEF MembersKnown
    <3>3. QED BY <1>2, <3>1, <3>2
  <2>4. \A p \in HookRequests : clockRead'[p] <= millis' BY <1>1 DEF MembersKnown
  <2>5. trimmed' <= millis' BY <1>1, <1>7
  <2>6. QED BY <2>1, <2>2, <2>3, <2>4, <2>5, <1>5 DEF MembersKnown
<1>10. StoresFollowed' /\ EventsAccounted'
  <2>1. (ask'[q] = "admitted" /\ admittedAt'[q] # {}) \/ ask'[q] = "limited"
    BY <1>2 DEF WebhooksTypeOK
  <2>2. q \notin onTopic' /\ hookLog'[q] = "none" BY <1>1, <1>c
  <2>3. \A p \in HookRequests : p # q => (p \in overtaken' <=> p \in overtaken) BY <1>1
  <2>4. onTopic' = onTopic /\ hookLog' = hookLog BY <1>1
  <2>5. QED BY <2>1, <2>2, <2>3, <2>4, <1>6 DEF StoresFollowed, EventsAccounted, Passed
<1>11. LimitExact'
  <2>1. SUFFICES ASSUME NEW t \in 0..MaxMillis
                 PROVE
                   /\ Cardinality(AdmittedIn(OnTime, t - RateWindow, t)') <= RateLimit
                   /\ \A p \in HookRequests :
                        t \in refusedAt'[p] =>
                          Cardinality(AdmittedIn(HookRequests, t - RateWindow,
                             IF p \in overtaken THEN MaxMillis ELSE t)') >= RateLimit
    BY DEF LimitExact
  <2>t. t \in Int /\ t - RateWindow \in Int /\ t <= MaxMillis /\ MaxMillis \in Int BY <1>b
  <2>2. PICK was, is : was = AdmittedOf(OnTime) /\ is = AdmittedOf(OnTime)' OBVIOUS
  <2>3. Cardinality(was \cap ((t - RateWindow) + 1)..t) <= RateLimit
    BY <2>2 DEF LimitExact, AdmittedIn, AdmittedOf
  <2>4. is \subseteq after
    BY <2>2, <1>5 DEF Admitted, AdmittedOf, OnTime
  <2>5. Cardinality(is \cap ((t - RateWindow) + 1)..t) <= RateLimit
    <3>1. CASE is = was BY <3>1, <2>3
    <3>2. CASE is # was
      <4>1. /\ cut <= now /\ is \subseteq was \cup {now} /\ Cardinality(kept) < RateLimit
        <5>1. CASE admittedAt' = admittedAt
          <6>1. overtaken' # overtaken BY <5>1, <3>2, <2>2 DEF AdmittedOf, OnTime
          <6>2. overtaken' = overtaken \cup {q} BY <6>1, <1>1
          <6>3. is = was BY <5>1, <6>2, <2>2, <1>c DEF AdmittedOf, OnTime
          <6>4. QED BY <6>3, <3>2
        <5>2. CASE admittedAt' # admittedAt
          <6>1. admittedAt' = [admittedAt EXCEPT ![q] = {now}] /\ Cardinality(kept) < RateLimit
            BY <5>2, <1>2
          <6>2. CASE now < cut
            <7>1. overtaken' = overtaken \cup {q} BY <6>2, <1>1
            <7>2. is = was BY <6>1, <7>1, <2>2, <1>c DEF AdmittedOf, OnTime, WebhooksTypeOK
            <7>3. QED BY <7>2, <3>2
          <6>3. CASE ~(now < cut)
            <7>1. overtaken' = overtaken BY <6>3, <1>1
            <7>2. is \subseteq was \cup {now}
              BY <6>1, <7>1, <2>2 DEF AdmittedOf, OnTime, WebhooksTypeOK
            <7>3. QED BY <6>1, <6>3, <7>2, <1>b, <1>d
          <6>4. QED BY <6>2, <6>3
        <5>3. QED BY <5>1, <5>2
      <4>2. CASE t < now
        <5>1. is \cap ((t - RateWindow) + 1)..t = was \cap ((t - RateWindow) + 1)..t
          <6>1. now \notin ((t - RateWindow) + 1)..t BY <4>2, <2>t, <1>b
          <6>2. was \cap ((t - RateWindow) + 1)..t \subseteq is
            <7>1. was \subseteq is \cup admittedAt[q]
              BY <2>2, <1>1, <1>2, <1>c DEF AdmittedOf, OnTime, WebhooksTypeOK
            <7>2. QED BY <7>1, <1>c
          <6>3. QED BY <6>1, <6>2, <4>1
        <5>2. QED BY <5>1, <2>3
      <4>3. CASE ~(t < now)
        <5>1. is \cap ((t - RateWindow) + 1)..t \in SUBSET (kept \cup {now})
          <6>1. SUFFICES ASSUME NEW u \in is \cap ((t - RateWindow) + 1)..t, u # now
                         PROVE  u \in kept
            OBVIOUS
          <6>2. u \in past BY <6>1, <2>4, <1>6
          <6>3. u \in Int /\ u > t - RateWindow BY <6>1, <2>t
          <6>4. u > now - RateWindow /\ u > cut - RateWindow
            BY <6>3, <4>1, <4>3, <2>t, <1>b, <1>d
          <6>5. QED BY <6>2, <6>4, <1>a, <1>f
        <5>2. IsFiniteSet(kept \cup {now})
              /\ Cardinality(kept \cup {now}) =
                   IF now \in kept THEN Cardinality(kept) ELSE Cardinality(kept) + 1
          BY <1>4, FS_AddElement
        <5>3. Cardinality(kept \cup {now}) \in Nat /\ Cardinality(kept \cup {now}) <= RateLimit
          BY <5>2, <4>1, <1>4, <1>b
        <5>4. Cardinality(is \cap ((t - RateWindow) + 1)..t) <= Cardinality(kept \cup {now})
          BY <5>1, <5>2, FS_Subset
        <5>5. Cardinality(is \cap ((t - RateWindow) + 1)..t) \in Nat BY <2>t, Moments
        <5>6. QED BY <5>3, <5>4, <5>5, <1>b
      <4>4. QED BY <4>2, <4>3
    <3>3. QED BY <3>1, <3>2
  <2>6. ASSUME NEW p \in HookRequests, t \in refusedAt'[p]
        PROVE  Cardinality(after \cap ((t - RateWindow) + 1)..(IF p \in overtaken' THEN MaxMillis ELSE t))
                 >= RateLimit
    <3>0. PICK high \in {t, MaxMillis} : high = IF p \in overtaken' THEN MaxMillis ELSE t
      OBVIOUS
    <3>1. high \in Int BY <3>0, <2>t
    <3>2. Cardinality(after \cap ((t - RateWindow) + 1)..high) \in Nat BY <3>1, <2>t, Moments
    <3>3. CASE t \in refusedAt[p]
      <4>1. p # q BY <3>3, <1>c
      <4>2. p \in overtaken' <=> p \in overtaken BY <4>1, <1>1
      <4>3. Cardinality(past \cap ((t - RateWindow) + 1)..high) >= RateLimit
        BY <3>3, <4>2, <3>0, <1>e DEF LimitExact, AdmittedIn, Admitted, AdmittedOf
      <4>4. Cardinality(past \cap ((t - RateWindow) + 1)..high)
              <= Cardinality(after \cap ((t - RateWindow) + 1)..high)
        <5>1. high <= high BY <3>1
        <5>2. QED BY <5>1, <3>1, <2>t, <1>6, MoreMoments
      <4>5. Cardinality(past \cap ((t - RateWindow) + 1)..high) \in Nat
        BY <3>1, <2>t, Moments
      <4>6. QED BY <4>3, <4>4, <4>5, <3>2, <3>0, <1>b
    <3>4. CASE t \notin refusedAt[p]
      <4>1. p = q /\ t = now /\ ~(Cardinality(kept) < RateLimit)
        BY <2>6, <3>4, <1>2, <1>6 DEF WebhooksTypeOK
      <4>2. cut <= high
        <5>1. CASE now < cut
          <6>1. high = MaxMillis BY <5>1, <4>1, <3>0, <1>1
          <6>2. QED BY <6>1, <1>d, <1>b
        <5>2. CASE ~(now < cut)
          <6>1. high = now BY <5>2, <4>1, <3>0, <1>1, <1>c
          <6>2. QED BY <6>1, <5>2, <1>d, <1>b
        <5>3. QED BY <5>1, <5>2
      <4>3. kept \in SUBSET (after \cap ((t - RateWindow) + 1)..high)
        <5>1. SUFFICES ASSUME NEW u \in kept PROVE u \in after /\ u \in ((t - RateWindow) + 1)..high
          OBVIOUS
        <5>2. u \in past /\ u > now - RateWindow BY <1>a, <1>f
        <5>3. u \in Int /\ u <= high BY <5>2, <1>f, <4>2, <3>1, <1>d
        <5>4. QED BY <5>2, <5>3, <4>1, <1>6, <1>b, <3>1
      <4>4. IsFiniteSet(after \cap ((t - RateWindow) + 1)..high) BY <3>1, <2>t, Moments
      <4>5. Cardinality(kept) <= Cardinality(after \cap ((t - RateWindow) + 1)..high)
        BY <4>3, <4>4, FS_Subset
      <4>6. QED BY <4>1, <4>5, <3>2, <3>0, <1>4, <1>b
    <3>5. QED BY <3>3, <3>4
  <2>7. AdmittedIn(OnTime, t - RateWindow, t)' = is \cap ((t - RateWindow) + 1)..t
    BY <2>2 DEF AdmittedIn, AdmittedOf
  <2>8. \A p \in HookRequests :
          AdmittedIn(HookRequests, t - RateWindow, IF p \in overtaken THEN MaxMillis ELSE t)'
            = after \cap ((t - RateWindow) + 1)..(IF p \in overtaken' THEN MaxMillis ELSE t)
    BY <1>5 DEF AdmittedIn, Admitted, AdmittedOf
  <2>9. QED BY <2>5, <2>6, <2>7, <2>8
<1>12. QED BY <1>8, <1>9, <1>10, <1>11

(* The other steps of a request, and the registrations, leave the limiter alone. *)
LEMMA RequestKeeps ==
    ASSUME HooksInv, NEW q \in HookRequests,
           \/ \E h \in Hooks, genuine \in BOOLEAN : Verify(q, h, genuine)
           \/ Parse(q) \/ PublishEvent(q) \/ LogDelivery(q) \/ BreakOff(q)
    PROVE  HooksInv'
<1> USE DEF HooksInv
<1>1. UNCHANGED limiterVars /\ UNCHANGED hook
  BY DEF Verify, Parse, PublishEvent, LogDelivery, BreakOff
<1>2. PICK stage : ask' = [ask EXCEPT ![q] = stage]
  BY DEF Verify, Parse, PublishEvent, LogDelivery, BreakOff, Reach
<1>2a. ask'[q] = stage /\ \A p \in HookRequests : p # q => ask'[p] = ask[p]
  BY <1>2 DEF WebhooksTypeOK
<1>3. /\ \A p \in HookRequests : p # q => (p \in onTopic' <=> p \in onTopic)
      /\ onTopic' \subseteq HookRequests
      /\ hookLog' \in [HookRequests -> {"none", "processed", "unprocessed"}]
      /\ \A p \in HookRequests : p # q => hookLog'[p] = hookLog[p]
      /\ troubles' \in 0..MaxTroubles
  BY WebhookAssumption
  DEF Verify, Parse, PublishEvent, LogDelivery, BreakOff, WebhooksTypeOK, Trouble, Entry
<1> DEFINE StageFits ==
      /\ stage \in {"new"} \cup Underway \cup Answers
      /\ stage # "new" 
      /\ stage = "verified" => ask[q] = "new"
      /\ stage # "timed"
      /\ stage \in Passed => admittedAt[q] # {}
      /\ stage = "acknowledged" => q \in onTopic'
      /\ q \in onTopic' => 
           /\ admittedAt[q] # {}
           /\ stage \in {"acknowledged", "unacknowledged", "202", "500"}
      /\ stage = "202" => hookLog'[q] # "none"
      /\ hookLog'[q] = "processed" => q \in onTopic'
      /\ hookLog'[q] # "none" => stage \in {"202", "500"}
<1>4. StageFits
  <2>a. \A x : Reach(q, x) => stage = x BY <1>2a DEF Reach, WebhooksTypeOK
  <2>b. q \in HookRequests /\ ask[q] \in {"new"} \cup Underway \cup Answers
    BY DEF WebhooksTypeOK
  <2>1. ASSUME NEW h \in Hooks, NEW genuine \in BOOLEAN, Verify(q, h, genuine) PROVE StageFits
    <3>1. stage \in {"404", "verified", "401"} /\ ask[q] = "new"
      BY <2>1, <2>a DEF Verify
    <3>2. onTopic' = onTopic /\ hookLog' = hookLog BY <2>1 DEF Verify
    <3>3. q \notin onTopic /\ hookLog[q] = "none"
      BY <3>1 DEF StoresFollowed, EventsAccounted
    <3>4. QED BY <3>1, <3>2, <3>3 DEF Passed, Underway, Answers
  <2>2. CASE Parse(q)
    <3>1. stage \in {"parsed", "422", "500"} /\ ask[q] = "admitted" BY <2>2, <2>a DEF Parse
    <3>2. onTopic' = onTopic /\ hookLog' = hookLog BY <2>2 DEF Parse
    <3>3. q \notin onTopic /\ hookLog[q] = "none" /\ admittedAt[q] # {}
      BY <3>1 DEF StoresFollowed, EventsAccounted, Passed
    <3>4. QED BY <3>1, <3>2, <3>3 DEF Passed, Underway, Answers
  <2>3. CASE PublishEvent(q)
    <3>1. stage \in {"acknowledged", "unacknowledged"} /\ ask[q] = "parsed"
      BY <2>3, <2>a DEF PublishEvent
    <3>2. hookLog' = hookLog /\ (stage = "acknowledged" => q \in onTopic')
      BY <2>3, <2>a DEF PublishEvent
    <3>3. hookLog[q] = "none" /\ admittedAt[q] # {}
      BY <3>1 DEF StoresFollowed, EventsAccounted, Passed
    <3>4. QED BY <3>1, <3>2, <3>3 DEF Passed, Underway, Answers
  <2>4. CASE LogDelivery(q)
    <3>1. stage \in {"202", "500"} /\ ask[q] \in {"acknowledged", "unacknowledged"}
      BY <2>4, <2>a DEF LogDelivery
    <3>2. /\ onTopic' = onTopic /\ hookLog'[q] \in {"processed", "unprocessed"}
          /\ hookLog'[q] = "processed" => ask[q] = "acknowledged"
      BY <2>4 DEF LogDelivery, Entry, WebhooksTypeOK
    <3>3. admittedAt[q] # {} /\ (ask[q] = "acknowledged" => q \in onTopic)
      BY <3>1 DEF StoresFollowed, Passed
    <3>4. QED BY <3>1, <3>2, <3>3 DEF Passed, Underway, Answers
  <2>5. CASE BreakOff(q)
    <3>1. stage = "500" /\ ask[q] \in {"new"} \cup Underway BY <2>5, <2>a DEF BreakOff
    <3>2. onTopic' = onTopic /\ hookLog' = hookLog BY <2>5 DEF BreakOff
    <3>3. q \in onTopic => admittedAt[q] # {} BY DEF StoresFollowed
    <3>4. hookLog[q] = "processed" => q \in onTopic BY DEF EventsAccounted
    <3>5. QED BY <3>1, <3>2, <3>3, <3>4 DEF Passed, Underway, Answers
  <2>6. QED BY <2>1, <2>2, <2>3, <2>4, <2>5
<1>5. WebhooksTypeOK' BY <1>1, <1>2, <1>3, <1>4 DEF WebhooksTypeOK, limiterVars
<1>6. StoresFollowed'
  <2>1. ASSUME NEW p \in HookRequests, p # q PROVE
          /\ ask'[p] \in {"new", "verified", "timed"} =>
                admittedAt[p] = {} /\ refusedAt[p] = {} /\ p \notin overtaken
          /\ ask'[p] \in Passed => admittedAt[p] # {}
          /\ ask'[p] = "acknowledged" => p \in onTopic'
          /\ p \in onTopic' =>
              /\ admittedAt[p] # {}
              /\ ask'[p] \in {"acknowledged", "unacknowledged", "202", "500"}
    BY <2>1, <1>2a, <1>3 DEF StoresFollowed
  <2>2. stage \in {"new", "verified", "timed"} =>
          admittedAt[q] = {} /\ refusedAt[q] = {} /\ q \notin overtaken
    BY <1>4 DEF StoresFollowed
  <2>3. QED BY <1>1, <1>2a, <1>4, <2>1, <2>2 DEF StoresFollowed, limiterVars
<1>7. EventsAccounted'
  <2>1. ASSUME NEW p \in HookRequests, p # q PROVE
        /\ p \in onTopic' => /\ admittedAt[p] # {}
                             /\ ask'[p] \in Underway \cup {"202", "500"}
        /\ ask'[p] = "202" => hookLog'[p] # "none"
        /\ hookLog'[p] = "processed" => p \in onTopic'
        /\ hookLog'[p] # "none" => ask'[p] \in {"202", "500"}
    BY <2>1, <1>2a, <1>3 DEF EventsAccounted
  <2>2. q \in onTopic' => stage \in Underway \cup {"202", "500"} BY <1>4 DEF Underway
  <2>3. QED BY <1>1, <1>2a, <1>4, <2>1, <2>2 DEF EventsAccounted, limiterVars
<1>8. MembersKnown' /\ LimitExact' BY <1>1, LimiterAlone
<1>9. QED BY <1>5, <1>6, <1>7, <1>8

LEMMA HooksStep == HooksInv /\ [WebhooksNext]_hookVars => HooksInv'
<1> SUFFICES ASSUME HooksInv, [WebhooksNext]_hookVars PROVE HooksInv' OBVIOUS
<1>1. CASE UNCHANGED hookVars
  <2>1. MembersKnown' /\ LimitExact'
    BY <1>1, LimiterAlone DEF hookVars, limiterVars, HooksInv
  <2>2. QED
    BY <1>1, <2>1
    DEF hookVars, limiterVars, HooksInv, WebhooksTypeOK, StoresFollowed, EventsAccounted
<1>2. ASSUME NEW h \in Hooks, NEW active \in BOOLEAN,
             CreateRegistration(h, active) \/ DeleteRegistration(h)
      PROVE  HooksInv'
  <2>1. UNCHANGED <<limiterVars, ask, onTopic, hookLog, troubles>>
        /\ hook' \in [Hooks -> {"none", "active", "inactive", "deleted"}]
    BY <1>2 DEF CreateRegistration, DeleteRegistration, HooksInv, WebhooksTypeOK
  <2>2. MembersKnown' /\ LimitExact' BY <2>1, LimiterAlone DEF HooksInv
  <2>3. QED
    BY <2>1, <2>2 DEF limiterVars, HooksInv, WebhooksTypeOK, StoresFollowed, EventsAccounted
<1>3. QED
  <2>1. ASSUME NEW h \in Hooks, DeleteRegistration(h) PROVE HooksInv'
    BY <2>1, <1>2
  <2>2. QED
    BY <1>1, <1>2, <2>1, CheckLimitKeeps, RequestKeeps, ClockKeeps DEF WebhooksNext

-----------------------------------------------------------------------------
(* Shipments. *)

ShipmentRow == [status : ShipmentStatus, spot : Spots \cup {"none"},
                eta : Times \cup {0}, arrival : Times \cup {0}]
TrailRow == [event : EventTypes, at : Times, began : Nat, ended : Nat]
ScanRow == [shipment : Shipments, event : EventTypes, at : Times, spot : Spots \cup {"none"},
            began : Nat]

TrailsTyped ==
    /\ shipment \in [Shipments -> {NoShipment} \cup ShipmentRow]
    /\ trail \in [Shipments -> Seq(TrailRow)]
    /\ scan \in [Scans -> {NoScan} \cup ScanRow]
    /\ untold \in [Shipments -> SUBSET Nat]
    /\ \A s \in Shipments : untold[s] \subseteq DOMAIN trail[s]
    /\ told \in [Shipments -> Seq(Nat)]
    /\ failed \in [Shipments -> BOOLEAN]
    /\ clock \in 0..MaxScans

(* Nothing is scanned of a shipment that does not exist, and no transaction
   commits before it began. *)
ScansDated ==
    /\ \A q \in Scans : scan[q] # NoScan =>
          shipment[scan[q].shipment] # NoShipment /\ scan[q].began <= clock
    /\ \A s \in Shipments :
          /\ shipment[s] = NoShipment => trail[s] = <<>>
          /\ \A i \in DOMAIN trail[s] :
                trail[s][i].began <= trail[s][i].ended /\ trail[s][i].ended <= clock

LatestDelivery(s) ==
    /\ shipment[s].arrival # 0 <=> Deliveries(s) # {}
    /\ \A i \in Deliveries(s) : (\A j \in Deliveries(s) : j <= i) =>
          shipment[s].arrival = trail[s][i].at
    /\ trail[s] # <<>> =>
          shipment[s].status = EventToStatus(trail[s][Len(trail[s])].event)

(* Each row of the outbox is waiting or has been told, once. *)
ToldOnce(s) ==
    /\ \A k \in DOMAIN told[s] : told[s][k] \in DOMAIN trail[s] /\ told[s][k] \notin untold[s]
    /\ \A k, l \in DOMAIN told[s] : told[s][k] = told[s][l] => k = l
    /\ \A j \in DOMAIN trail[s] : j \in untold[s] \/ \E k \in DOMAIN told[s] : told[s][k] = j

(* j has not been told before the k-th row that was. *)
NotBefore(s, j, k) == j \in untold[s] \/ \E l \in DOMAIN told[s] : l > k /\ told[s][l] = j

(* While no send has failed, a row committed before one that is told, and told
   after it, belongs to a transaction that began no earlier. *)
ToldInOrder(s) ==
    ~failed[s] =>
       \A k \in DOMAIN told[s], j \in DOMAIN trail[s] :
          j < told[s][k] /\ NotBefore(s, j, k) =>
             trail[s][told[s][k]].began <= trail[s][j].began

ShipmentsInv ==
    /\ TrailsTyped /\ ScansDated
    /\ \A s \in Shipments : LatestDelivery(s) /\ ToldOnce(s) /\ ToldInOrder(s)

(* The invariant says what it should. *)
LEMMA ShipmentsTyped == ShipmentsInv => ShipmentsTypeOK
<1> SUFFICES ASSUME ShipmentsInv PROVE ShipmentsTypeOK OBVIOUS
<1>1. ASSUME NEW s \in Shipments, NEW i \in DOMAIN trail[s]
      PROVE  trail[s][i].event \in EventTypes /\ trail[s][i].at \in Times
  <2>1. trail[s][i] \in TrailRow BY DEF ShipmentsInv, TrailsTyped
  <2>2. QED BY <2>1 DEF TrailRow
<1>2. QED BY <1>1 DEF ShipmentsInv, TrailsTyped, ShipmentsTypeOK, ShipmentRow

LEMMA ArrivalFollows == ShipmentsInv => ArrivalKnown
<1> SUFFICES ASSUME ShipmentsInv, NEW s \in Shipments
             PROVE  /\ shipment[s].arrival # 0 <=> Deliveries(s) # {}
                    /\ \A i \in Deliveries(s) : (\A j \in Deliveries(s) : j <= i) =>
                          shipment[s].arrival = trail[s][i].at
                    /\ \A t \in Times :
                       /\ DelayRisk(shipment[s], t) # "low" => Deliveries(s) = {}
                       /\ shipment[s].status \in {"customs_hold", "exception"} =>
                           DelayRisk(shipment[s], t) = IF Deliveries(s) = {} THEN "high" ELSE "low"
  BY DEF ArrivalKnown
<1>1. LatestDelivery(s) BY DEF ShipmentsInv
<1>2. QED BY <1>1 DEF LatestDelivery, DelayRisk

(* The row told last is the one committed last, when that began after all the
   others were committed: one told after it began no earlier and so overlapped it. *)
LEMMA LastWordFollows == ShipmentsInv => LastWordIsStatus
<1> SUFFICES ASSUME ShipmentsInv, NEW s \in Shipments, Len(trail[s]) > 0,
                    untold[s] = {}, ~failed[s], Alone(s, Len(trail[s]))
             PROVE  EventToStatus(trail[s][told[s][Len(told[s])]].event) = shipment[s].status
  BY DEF LastWordIsStatus
<1>1. PICK n : n = Len(trail[s]) OBVIOUS
<1>2. PICK m : m = Len(told[s]) OBVIOUS
<1>3. /\ trail[s] \in Seq(TrailRow) /\ told[s] \in Seq(Nat) /\ n \in Nat /\ n > 0
      /\ DOMAIN trail[s] = 1..n /\ m \in Nat /\ DOMAIN told[s] = 1..m /\ trail[s] # <<>>
  BY <1>1, <1>2 DEF ShipmentsInv, TrailsTyped
<1>4. PICK k \in 1..m : told[s][k] = n
  <2>1. n \in DOMAIN trail[s] BY <1>3
  <2>2. ToldOnce(s) BY DEF ShipmentsInv
  <2>3. \E i \in DOMAIN told[s] : told[s][i] = n BY <2>1, <2>2 DEF ToldOnce
  <2>4. QED BY <2>3, <1>3
<1>5. told[s][m] = n
  <2>1. SUFFICES ASSUME told[s][m] # n PROVE FALSE OBVIOUS
  <2>2. PICK j : j = told[s][m] OBVIOUS
  <2>3. m \in 1..m /\ j \in 1..n /\ j \in Nat /\ j < n /\ k < m
    <3>1. m \in 1..m BY <1>3, <1>4
    <3>2. j \in 1..n BY <3>1, <2>2, <1>3 DEF ShipmentsInv, ToldOnce
    <3>3. k # m BY <1>4, <2>1
    <3>4. QED BY <3>1, <3>2, <3>3, <1>3, <1>4, <2>1, <2>2
  <2>4. NotBefore(s, j, k) BY <2>2, <2>3, <1>3 DEF NotBefore
  <2>5. trail[s][n].began <= trail[s][j].began
    BY <1>3, <1>4, <2>3, <2>4 DEF ShipmentsInv, ToldInOrder
  <2>6. trail[s][j].ended < trail[s][n].began
    BY <1>1, <1>3, <2>3 DEF Alone
  <2>7. trail[s][j].began <= trail[s][j].ended
    BY <1>3, <2>3 DEF ShipmentsInv, ScansDated
  <2>8. trail[s][j] \in TrailRow /\ trail[s][n] \in TrailRow BY <1>3, <2>3
  <2>9. QED BY <2>5, <2>6, <2>7, <2>8 DEF TrailRow
<1>6. shipment[s].status = EventToStatus(trail[s][n].event)
  BY <1>1, <1>3 DEF ShipmentsInv, LatestDelivery
<1>7. QED BY <1>2, <1>5, <1>6

LEMMA InitShipments == ShipmentsInit => ShipmentsInv
<1> SUFFICES ASSUME ShipmentsInit PROVE ShipmentsInv OBVIOUS
<1> USE DEF ShipmentsInit
<1>1. TrailsTyped BY ShipmentAssumption DEF TrailsTyped
<1>2. ScansDated BY DEF ScansDated
<1>3. ASSUME NEW s \in Shipments PROVE LatestDelivery(s) /\ ToldOnce(s) /\ ToldInOrder(s)
  BY DEF LatestDelivery, Deliveries, ToldOnce, ToldInOrder, NoShipment
<1>4. QED BY <1>1, <1>2, <1>3 DEF ShipmentsInv

(* What follows an event in the row. *)
LEMMA ScannedRow ==
    ASSUME NEW row \in {NoShipment} \cup ShipmentRow, NEW x \in ScanRow
    PROVE  /\ Scanned(row, x) \in ShipmentRow
           /\ Scanned(row, x).status = EventToStatus(x.event)
           /\ Scanned(row, x).arrival = IF x.event = "delivered" THEN x.at ELSE row.arrival
<1>1. row \in [status : ShipmentStatus \cup {"none"}, spot : Spots \cup {"none"},
               eta : Times \cup {0}, arrival : Times \cup {0}]
  BY DEF NoShipment, ShipmentRow
<1>2. EventToStatus(x.event) \in ShipmentStatus
  BY DEF ScanRow, EventTypes, ShipmentStatus, EventToStatus
<1>3. x.at \in Times /\ x.spot \in Spots \cup {"none"} BY DEF ScanRow
<1>4. QED BY <1>1, <1>2, <1>3 DEF Scanned, ShipmentRow

(* A step that changes neither a trail nor what is told, and of a row no more than
   its position and estimate. *)
LEMMA RowsChange ==
    ASSUME ShipmentsInv, UNCHANGED <<trail, untold, told, failed>>,
           TrailsTyped', ScansDated',
           \A s \in Shipments : trail[s] # <<>> =>
              shipment'[s].arrival = shipment[s].arrival /\ shipment'[s].status = shipment[s].status,
           \A s \in Shipments : trail[s] = <<>> => shipment'[s].arrival = 0
    PROVE  ShipmentsInv'
<1>1. ASSUME NEW s \in Shipments PROVE LatestDelivery(s)' /\ ToldOnce(s)' /\ ToldInOrder(s)'
  <2>1. ToldOnce(s)' /\ ToldInOrder(s)'
    BY DEF ShipmentsInv, ToldOnce, ToldInOrder, NotBefore
  <2>2. Deliveries(s)' = Deliveries(s) BY DEF Deliveries
  <2>3. trail[s] = <<>> => Deliveries(s) = {} BY DEF Deliveries
  <2>4. QED BY <2>1, <2>2, <2>3 DEF ShipmentsInv, LatestDelivery
<1>2. QED BY <1>1 DEF ShipmentsInv

(* A row without a trail has no arrival. *)
LEMMA NoTrailNoArrival ==
    ASSUME ShipmentsInv, NEW s \in Shipments, trail[s] = <<>>
    PROVE  shipment[s].arrival = 0
BY DEF ShipmentsInv, LatestDelivery, Deliveries

(* create_shipment, update_shipment, and a position from a reading. *)
LEMMA RowKeeps ==
    ASSUME ShipmentsInv, UNCHANGED <<trail, scan, untold, told, failed, clock>>,
           shipment' \in [Shipments -> {NoShipment} \cup ShipmentRow],
           \A s \in Shipments :
              \/ shipment'[s] = shipment[s]
              \/ shipment[s] = NoShipment /\ shipment'[s] # NoShipment /\ shipment'[s].arrival = 0
              \/ /\ shipment[s] # NoShipment /\ shipment'[s] # NoShipment
                 /\ shipment'[s].arrival = shipment[s].arrival
                 /\ shipment'[s].status = shipment[s].status
    PROVE  ShipmentsInv'
<1>1. TrailsTyped' BY DEF ShipmentsInv, TrailsTyped
<1>2. ASSUME NEW q \in Scans, scan[q] # NoScan PROVE shipment'[scan[q].shipment] # NoShipment
  <2>1. scan[q].shipment \in Shipments BY <1>2 DEF ShipmentsInv, TrailsTyped, ScanRow
  <2>2. QED BY <2>1, <1>2 DEF ShipmentsInv, ScansDated
<1>3. ScansDated' BY <1>2 DEF ShipmentsInv, ScansDated
<1>4. ASSUME NEW s \in Shipments, trail[s] # <<>>
      PROVE  shipment'[s].arrival = shipment[s].arrival /\ shipment'[s].status = shipment[s].status
  BY <1>4 DEF ShipmentsInv, ScansDated
<1>5. ASSUME NEW s \in Shipments, trail[s] = <<>> PROVE shipment'[s].arrival = 0
  BY <1>5, NoTrailNoArrival
<1>6. QED BY <1>1, <1>3, <1>4, <1>5, RowsChange

LEMMA CreateShipmentKeeps ==
    ASSUME ShipmentsInv, NEW s \in Shipments, NEW t \in Times \cup {0}, CreateShipment(s, t)
    PROVE  ShipmentsInv'
<1>1. PICK row : row = [status |-> "pending", spot |-> "none", eta |-> t, arrival |-> 0] OBVIOUS
<1>2. row \in ShipmentRow /\ row # NoShipment /\ row.arrival = 0
  <2>1. row.status # NoShipment.status BY <1>1 DEF NoShipment
  <2>2. QED BY <1>1, <2>1 DEF ShipmentRow, ShipmentStatus
<1>3. shipment' = [shipment EXCEPT ![s] = row] /\ shipment[s] = NoShipment
      /\ UNCHANGED <<trail, scan, untold, told, failed, clock>>
  BY <1>1 DEF CreateShipment
<1>4. shipment \in [Shipments -> {NoShipment} \cup ShipmentRow] BY DEF ShipmentsInv, TrailsTyped
<1>5. shipment' \in [Shipments -> {NoShipment} \cup ShipmentRow] BY <1>2, <1>3, <1>4
<1>6. ASSUME NEW p \in Shipments
      PROVE  \/ shipment'[p] = shipment[p]
             \/ shipment[p] = NoShipment /\ shipment'[p] # NoShipment /\ shipment'[p].arrival = 0
  BY <1>2, <1>3, <1>4
<1>7. QED BY <1>3, <1>5, <1>6, RowKeeps

LEMMA UpdateShipmentKeeps ==
    ASSUME ShipmentsInv, NEW s \in Shipments, NEW t \in Times, UpdateShipment(s, t)
    PROVE  ShipmentsInv'
<1>1. PICK row : row = [shipment[s] EXCEPT !.eta = t] OBVIOUS
<1>4. shipment \in [Shipments -> {NoShipment} \cup ShipmentRow] BY DEF ShipmentsInv, TrailsTyped
<1>3. shipment' = [shipment EXCEPT ![s] = row] /\ shipment[s] # NoShipment
      /\ UNCHANGED <<trail, scan, untold, told, failed, clock>>
  BY <1>1 DEF UpdateShipment
<1>2. /\ row \in ShipmentRow /\ row # NoShipment
      /\ row.arrival = shipment[s].arrival /\ row.status = shipment[s].status
  <2>1. shipment[s] \in ShipmentRow BY <1>3, <1>4
  <2>2. row \in ShipmentRow /\ row.arrival = shipment[s].arrival /\ row.status = shipment[s].status
    BY <1>1, <2>1 DEF ShipmentRow
  <2>3. row.status # NoShipment.status BY <2>2 DEF NoShipment, ShipmentRow, ShipmentStatus
  <2>4. QED BY <2>2, <2>3
<1>5. shipment' \in [Shipments -> {NoShipment} \cup ShipmentRow] BY <1>2, <1>3, <1>4
<1>6. ASSUME NEW p \in Shipments
      PROVE  \/ shipment'[p] = shipment[p]
             \/ /\ shipment[p] # NoShipment /\ shipment'[p] # NoShipment
                /\ shipment'[p].arrival = shipment[p].arrival
                /\ shipment'[p].status = shipment[p].status
  BY <1>2, <1>3, <1>4
<1>7. QED BY <1>3, <1>5, <1>6, RowKeeps

LEMMA BeginScanKeeps ==
    ASSUME ShipmentsInv, NEW q \in Scans, NEW s \in Shipments, NEW e \in EventTypes,
           NEW t \in Times, NEW p \in ScanSpots, BeginScan(q, s, e, t, p)
    PROVE  ShipmentsInv'
<1>1. PICK x : x = [shipment |-> s, event |-> e, at |-> t, spot |-> p, began |-> clock'] OBVIOUS
<1>2. /\ scan' = [scan EXCEPT ![q] = x] /\ clock' = clock + 1 /\ clock < MaxScans
      /\ shipment[s] # NoShipment /\ UNCHANGED <<shipment, trail, untold, told, failed>>
  BY <1>1 DEF BeginScan
<1>3. clock \in Nat /\ clock' \in 0..MaxScans
  BY <1>2, ShipmentAssumption DEF ShipmentsInv, TrailsTyped
<1>4. x \in ScanRow BY <1>1, <1>2, <1>3, ShipmentAssumption DEF ScanRow
<1>5. TrailsTyped' BY <1>2, <1>3, <1>4 DEF ShipmentsInv, TrailsTyped
<1>6. ScansDated'
  <2>1. ASSUME NEW r \in Scans, scan'[r] # NoScan
        PROVE  shipment[scan'[r].shipment] # NoShipment /\ scan'[r].began <= clock'
    <3>1. CASE r = q
      <4>1. scan'[r] = x BY <3>1, <1>2 DEF ShipmentsInv, TrailsTyped
      <4>2. QED BY <4>1, <1>1, <1>2, <1>3
    <3>2. CASE r # q
      <4>1. scan'[r] = scan[r] BY <3>2, <1>2 DEF ShipmentsInv, TrailsTyped
      <4>2. scan[r].began \in Nat BY <2>1, <4>1 DEF ShipmentsInv, TrailsTyped, ScanRow
      <4>3. QED BY <2>1, <4>1, <4>2, <1>2, <1>3 DEF ShipmentsInv, ScansDated
    <3>3. QED BY <3>1, <3>2
  <2>2. ASSUME NEW r \in Shipments, NEW i \in DOMAIN trail[r] PROVE trail[r][i].ended <= clock'
    <3>1. trail[r][i].ended \in Nat
      <4>1. trail[r][i] \in TrailRow BY DEF ShipmentsInv, TrailsTyped
      <4>2. QED BY <4>1 DEF TrailRow
    <3>2. trail[r][i].ended <= clock BY DEF ShipmentsInv, ScansDated
    <3>3. QED BY <3>1, <3>2, <1>2, <1>3
  <2>3. QED BY <2>1, <2>2, <1>2 DEF ShipmentsInv, ScansDated
<1>7. QED BY <1>2, <1>5, <1>6, RowsChange, NoTrailNoArrival

LEMMA FailScanKeeps ==
    ASSUME ShipmentsInv, NEW q \in Scans, FailScan(q)
    PROVE  ShipmentsInv'
<1>2. /\ scan' = [scan EXCEPT ![q] = NoScan]
      /\ UNCHANGED <<shipment, trail, untold, told, failed, clock>>
  BY DEF FailScan
<1>5. TrailsTyped' BY <1>2 DEF ShipmentsInv, TrailsTyped
<1>6. ScansDated' BY <1>2 DEF ShipmentsInv, ScansDated, TrailsTyped
<1>7. QED BY <1>2, <1>5, <1>6, RowsChange, NoTrailNoArrival

(* A delivery scanned now is the last one; anything else leaves the arrival. *)
LEMMA CommitScanKeeps ==
    ASSUME ShipmentsInv, NEW q \in Scans, CommitScan(q)
    PROVE  ShipmentsInv'
<1>1. PICK x : x = scan[q] OBVIOUS
<1>2. PICK s : s = x.shipment OBVIOUS
<1>3. PICK e : e = [event |-> x.event, at |-> x.at, began |-> x.began, ended |-> clock] OBVIOUS
<1>4. /\ trail' = [trail EXCEPT ![s] = Append(@, e)]
      /\ shipment' = [shipment EXCEPT ![s] = Scanned(@, x)]
      /\ untold' = [untold EXCEPT ![s] = @ \cup {Len(trail'[s])}]
      /\ scan' = [scan EXCEPT ![q] = NoScan]
      /\ UNCHANGED <<told, failed, clock>> /\ x # NoScan
  BY <1>1, <1>2, <1>3 DEF CommitScan
<1>5. /\ x \in ScanRow /\ s \in Shipments /\ clock \in Nat /\ x.began \in Nat
      /\ x.event \in EventTypes /\ x.at \in Times /\ x.began <= clock
      /\ shipment[s] \in {NoShipment} \cup ShipmentRow /\ shipment[s] # NoShipment
  <2>1. x \in ScanRow BY <1>1, <1>4 DEF ShipmentsInv, TrailsTyped
  <2>2. QED BY <2>1, <1>1, <1>2, <1>4 DEF ShipmentsInv, TrailsTyped, ScansDated, ScanRow
<1>6. e \in TrailRow BY <1>3, <1>5 DEF TrailRow
<1>7. PICK n : n = Len(trail[s]) OBVIOUS
<1>8. PICK T : T = Append(trail[s], e) OBVIOUS
<1>9. /\ trail[s] \in Seq(TrailRow) /\ n \in Nat /\ DOMAIN trail[s] = 1..n
      /\ T \in Seq(TrailRow) /\ Len(T) = n + 1 /\ DOMAIN T = 1..(n + 1) /\ T[n + 1] = e
      /\ (\A i \in 1..n : T[i] = trail[s][i]) /\ T # <<>>
  BY <1>5, <1>6, <1>7, <1>8 DEF ShipmentsInv, TrailsTyped
<1>10. PICK row : row = Scanned(shipment[s], x) OBVIOUS
<1>11. /\ row \in ShipmentRow /\ row.status = EventToStatus(e.event)
       /\ row.arrival = IF e.event = "delivered" THEN e.at ELSE shipment[s].arrival
       /\ row # NoShipment
  <2>1. /\ row \in ShipmentRow /\ row.status = EventToStatus(e.event)
        /\ row.arrival = IF e.event = "delivered" THEN e.at ELSE shipment[s].arrival
    BY <1>3, <1>5, <1>10, ScannedRow
  <2>2. row.status # NoShipment.status BY <2>1 DEF NoShipment, ShipmentRow, ShipmentStatus
  <2>3. QED BY <2>1, <2>2
<1>12. /\ trail'[s] = T /\ shipment'[s] = row /\ untold'[s] = untold[s] \cup {n + 1}
       /\ \A p \in Shipments : p # s =>
             trail'[p] = trail[p] /\ shipment'[p] = shipment[p] /\ untold'[p] = untold[p]
  BY <1>4, <1>5, <1>8, <1>9, <1>10 DEF ShipmentsInv, TrailsTyped
<1>13. TrailsTyped'
  <2>1. trail' \in [Shipments -> Seq(TrailRow)] /\ shipment' \in [Shipments -> {NoShipment} \cup ShipmentRow]
        /\ scan' \in [Scans -> {NoScan} \cup ScanRow]
    BY <1>4, <1>5, <1>8, <1>9, <1>10, <1>11 DEF ShipmentsInv, TrailsTyped
  <2>2. untold' \in [Shipments -> SUBSET Nat]
    BY <1>4, <1>5, <1>9, <1>12 DEF ShipmentsInv, TrailsTyped
  <2>3. ASSUME NEW p \in Shipments PROVE untold'[p] \subseteq DOMAIN trail'[p]
    <3>1. untold[p] \subseteq DOMAIN trail[p] BY DEF ShipmentsInv, TrailsTyped
    <3>2. CASE p # s BY <3>1, <3>2, <1>12
    <3>3. CASE p = s
      <4>1. untold[s] \subseteq 1..n BY <3>1, <3>3, <1>9
      <4>2. n + 1 \in 1..(n + 1) /\ 1..n \subseteq 1..(n + 1) BY <1>9
      <4>3. QED BY <3>3, <4>1, <4>2, <1>9, <1>12
    <3>4. QED BY <3>2, <3>3
  <2>4. QED BY <1>4, <2>1, <2>2, <2>3 DEF ShipmentsInv, TrailsTyped
<1>14. ScansDated'
  <2>1. ASSUME NEW r \in Scans, scan'[r] # NoScan
        PROVE  shipment'[scan'[r].shipment] # NoShipment /\ scan'[r].began <= clock'
    <3>1. scan'[r] = scan[r] /\ scan[r] # NoScan BY <1>4, <2>1 DEF ShipmentsInv, TrailsTyped
    <3>2. scan[r].shipment \in Shipments BY <3>1 DEF ShipmentsInv, TrailsTyped, ScanRow
    <3>3. QED BY <3>1, <3>2, <1>4, <1>11, <1>12 DEF ShipmentsInv, ScansDated
  <2>2. ASSUME NEW p \in Shipments
        PROVE  /\ shipment'[p] = NoShipment => trail'[p] = <<>>
               /\ \A i \in DOMAIN trail'[p] :
                    trail'[p][i].began <= trail'[p][i].ended /\ trail'[p][i].ended <= clock
    <3>1. CASE p # s BY <3>1, <1>12 DEF ShipmentsInv, ScansDated
    <3>2. CASE p = s
      <4>1. e.began <= e.ended /\ e.ended <= clock BY <1>3, <1>5
      <4>2. \A i \in 1..n : trail[s][i].began <= trail[s][i].ended /\ trail[s][i].ended <= clock
        BY <1>5, <1>9 DEF ShipmentsInv, ScansDated
      <4>3. \A i \in 1..(n + 1) : T[i].began <= T[i].ended /\ T[i].ended <= clock
        BY <4>1, <4>2, <1>9
      <4>4. QED BY <4>3, <3>2, <1>9, <1>11, <1>12
    <3>3. QED BY <3>1, <3>2
  <2>3. QED BY <2>1, <2>2, <1>4 DEF ScansDated
<1>15. LatestDelivery(s)'
  <2>1. PICK D : D = Deliveries(s) OBVIOUS
  <2>2. PICK E : E = Deliveries(s)' OBVIOUS
  <2>3. D = {i \in 1..n : trail[s][i].event = "delivered"} /\ D \subseteq 1..n
    BY <1>9, <2>1 DEF Deliveries
  <2>4. E = {i \in 1..(n + 1) : T[i].event = "delivered"}
    BY <1>9, <1>12, <2>2 DEF Deliveries
  <2>5. \A i \in 1..n : i \in E <=> i \in D BY <2>3, <2>4, <1>9
  <2>6. n + 1 \in E <=> e.event = "delivered" BY <2>4, <1>9
  <2>7. row.arrival # 0 <=> E # {}
    <3>1. CASE e.event = "delivered"
      <4>1. row.arrival # 0 BY <3>1, <1>3, <1>5, <1>11, ShipmentAssumption
      <4>2. QED BY <4>1, <3>1, <2>6
    <3>2. CASE e.event # "delivered"
      <4>1. E = D BY <3>2, <2>3, <2>4, <2>5, <2>6, <1>9
      <4>2. QED BY <4>1, <3>2, <2>1, <1>5, <1>11 DEF ShipmentsInv, LatestDelivery
    <3>3. QED BY <3>1, <3>2
  <2>8. ASSUME NEW i \in E, \A j \in E : j <= i PROVE row.arrival = T[i].at
    <3>1. CASE e.event = "delivered"
      <4>1. n + 1 <= i /\ i \in 1..(n + 1) BY <3>1, <2>4, <2>6, <2>8
      <4>2. i = n + 1 BY <4>1, <1>9
      <4>3. QED BY <4>2, <3>1, <1>9, <1>11
    <3>2. CASE e.event # "delivered"
      <4>1. E = D BY <3>2, <2>3, <2>4, <2>5, <2>6, <1>9
      <4>2. i \in D /\ (\A j \in D : j <= i) /\ i \in 1..n BY <4>1, <2>3, <2>8
      <4>3. shipment[s].arrival = trail[s][i].at
        BY <4>2, <2>1, <1>5 DEF ShipmentsInv, LatestDelivery
      <4>4. QED BY <4>2, <4>3, <3>2, <1>9, <1>11
    <3>3. QED BY <3>1, <3>2
  <2>9. QED BY <2>2, <2>7, <2>8, <1>9, <1>11, <1>12 DEF LatestDelivery
<1>16. ASSUME NEW p \in Shipments, p # s
       PROVE  LatestDelivery(p)' /\ ToldOnce(p)' /\ ToldInOrder(p)'
  <2>1. Deliveries(p)' = Deliveries(p) BY <1>12, <1>16 DEF Deliveries
  <2>2. QED
    BY <2>1, <1>4, <1>12, <1>16 DEF ShipmentsInv, LatestDelivery, ToldOnce, ToldInOrder, NotBefore
<1>17. ToldOnce(s)' /\ ToldInOrder(s)'
  <2>1. /\ ToldOnce(s) /\ ToldInOrder(s) /\ told'[s] = told[s] /\ failed'[s] = failed[s]
        /\ told[s] \in Seq(Nat) /\ untold[s] \subseteq 1..n
    BY <1>4, <1>5, <1>9 DEF ShipmentsInv, TrailsTyped
  <2>2. \A k \in DOMAIN told[s] : told[s][k] \in 1..n BY <2>1, <1>9 DEF ToldOnce
  <2>3. ToldOnce(s)'
    <3>1. \A k \in DOMAIN told[s] : told[s][k] \in 1..(n + 1) /\ told[s][k] \notin untold'[s]
      BY <2>1, <2>2, <1>9, <1>12 DEF ToldOnce
    <3>2. ASSUME NEW j \in 1..(n + 1)
          PROVE  j \in untold'[s] \/ \E k \in DOMAIN told[s] : told[s][k] = j
      <4>1. CASE j = n + 1 BY <4>1, <1>12
      <4>2. CASE j # n + 1
        <5>1. j \in DOMAIN trail[s] BY <4>2, <1>9
        <5>2. QED BY <5>1, <2>1, <1>12 DEF ToldOnce
      <4>3. QED BY <4>1, <4>2
    <3>3. QED BY <2>1, <3>1, <3>2, <1>9, <1>12 DEF ToldOnce
  <2>4. ToldInOrder(s)'
    <3>1. SUFFICES ASSUME ~failed[s], NEW k \in DOMAIN told[s], NEW j \in 1..(n + 1),
                          j < told[s][k], NotBefore(s, j, k)'
                   PROVE  T[told[s][k]].began <= T[j].began
      BY <2>1, <1>9, <1>12 DEF ToldInOrder
    <3>2. told[s][k] \in 1..n /\ j \in 1..n BY <2>2, <3>1, <1>9
    <3>3. j # n + 1 BY <3>2, <1>9
    <3>4. NotBefore(s, j, k) BY <3>1, <3>3, <2>1, <1>12 DEF NotBefore
    <3>5. trail[s][told[s][k]].began <= trail[s][j].began
      BY <3>1, <3>2, <3>4, <2>1, <1>9 DEF ToldInOrder
    <3>6. QED BY <3>2, <3>5, <1>9
  <2>5. QED BY <2>3, <2>4
<1>18. QED BY <1>13, <1>14, <1>15, <1>16, <1>17 DEF ShipmentsInv

(* A row published without a failed send is the earliest of those that wait. *)
LEMMA PublishKeeps ==
    ASSUME ShipmentsInv, NEW s \in Shipments, NEW i \in untold[s], Publish(s, i)
    PROVE  ShipmentsInv'
<1>1. /\ untold' = [untold EXCEPT ![s] = @ \ {i}]
      /\ told' = [told EXCEPT ![s] = Append(@, i)]
      /\ failed' = [failed EXCEPT ![s] = @ \/ Earlier(s, i) # {}]
      /\ UNCHANGED <<shipment, trail, scan, clock>>
  BY DEF Publish
<1>2. PICK m : m = Len(told[s]) OBVIOUS
<1>3. PICK W : W = Append(told[s], i) OBVIOUS
<1>4. i \in Nat /\ i \in DOMAIN trail[s] BY DEF ShipmentsInv, TrailsTyped
<1>5. /\ told[s] \in Seq(Nat) /\ m \in Nat /\ DOMAIN told[s] = 1..m
      /\ W \in Seq(Nat) /\ DOMAIN W = 1..(m + 1) /\ W[m + 1] = i
      /\ \A k \in 1..m : W[k] = told[s][k]
  BY <1>2, <1>3, <1>4 DEF ShipmentsInv, TrailsTyped
<1>6. /\ untold'[s] = untold[s] \ {i} /\ told'[s] = W
      /\ (~failed'[s] => ~failed[s] /\ Earlier(s, i) = {})
      /\ \A p \in Shipments : p # s =>
            untold'[p] = untold[p] /\ told'[p] = told[p] /\ failed'[p] = failed[p]
  BY <1>1, <1>3 DEF ShipmentsInv, TrailsTyped
<1>7. TrailsTyped'
  <2>1. failed' \in [Shipments -> BOOLEAN] BY <1>1 DEF ShipmentsInv, TrailsTyped
  <2>2. told' \in [Shipments -> Seq(Nat)] BY <1>1, <1>3, <1>5 DEF ShipmentsInv, TrailsTyped
  <2>3. untold' \in [Shipments -> SUBSET Nat] BY <1>1 DEF ShipmentsInv, TrailsTyped
  <2>4. \A p \in Shipments : untold'[p] \subseteq DOMAIN trail[p]
    BY <1>6 DEF ShipmentsInv, TrailsTyped
  <2>5. QED BY <1>1, <2>1, <2>2, <2>3, <2>4 DEF ShipmentsInv, TrailsTyped
<1>8. ScansDated' BY <1>1 DEF ShipmentsInv, ScansDated
<1>9. ASSUME NEW p \in Shipments PROVE LatestDelivery(p)'
  BY <1>1 DEF ShipmentsInv, LatestDelivery, Deliveries
<1>10. ASSUME NEW p \in Shipments, p # s PROVE ToldOnce(p)' /\ ToldInOrder(p)'
  BY <1>1, <1>6, <1>10 DEF ShipmentsInv, ToldOnce, ToldInOrder, NotBefore
<1>11. ToldOnce(s)'
  <2>1. ToldOnce(s) BY DEF ShipmentsInv
  <2>2. \A k \in 1..m : told[s][k] # i BY <2>1, <1>5 DEF ToldOnce
  <2>3. ASSUME NEW k \in 1..(m + 1) PROVE W[k] \in DOMAIN trail[s] /\ W[k] \notin untold[s] \ {i}
    <3>1. CASE k = m + 1 BY <3>1, <1>4, <1>5
    <3>2. CASE k \in 1..m BY <3>2, <2>1, <1>5 DEF ToldOnce
    <3>3. QED BY <3>1, <3>2, <1>5
  <2>4. ASSUME NEW k \in 1..(m + 1), NEW l \in 1..(m + 1), W[k] = W[l] PROVE k = l
    <3>1. CASE k \in 1..m /\ l \in 1..m BY <3>1, <2>1, <2>4, <1>5 DEF ToldOnce
    <3>2. CASE k = m + 1 /\ l \in 1..m BY <3>2, <2>2, <2>4, <1>5
    <3>3. CASE k \in 1..m /\ l = m + 1 BY <3>3, <2>2, <2>4, <1>5
    <3>4. k \in 1..m \/ k = m + 1 BY <1>5
    <3>5. l \in 1..m \/ l = m + 1 BY <1>5
    <3>6. QED BY <3>1, <3>2, <3>3, <3>4, <3>5
  <2>5. ASSUME NEW j \in DOMAIN trail[s]
        PROVE  j \in untold[s] \ {i} \/ \E k \in 1..(m + 1) : W[k] = j
    <3>1. CASE j = i
      <4>1. m + 1 \in 1..(m + 1) BY <1>5
      <4>2. QED BY <3>1, <4>1, <1>5
    <3>2. CASE j # i /\ j \notin untold[s]
      <4>1. PICK k \in 1..m : told[s][k] = j BY <3>2, <2>1, <1>5 DEF ToldOnce
      <4>2. k \in 1..(m + 1) /\ W[k] = j BY <4>1, <1>5
      <4>3. QED BY <4>2
    <3>3. QED BY <3>1, <3>2
  <2>6. trail' = trail BY <1>1
  <2>7. QED BY <2>3, <2>4, <2>5, <2>6, <1>5, <1>6 DEF ToldOnce
<1>12. ToldInOrder(s)'
  <2>1. SUFFICES ASSUME ~failed[s], Earlier(s, i) = {}, NEW k \in 1..(m + 1),
                        NEW j \in DOMAIN trail[s], j < W[k], NotBefore(s, j, k)'
                 PROVE  trail[s][W[k]].began <= trail[s][j].began
    BY <1>1, <1>5, <1>6 DEF ToldInOrder
  <2>2. ToldInOrder(s) BY DEF ShipmentsInv
  <2>3. CASE k = m + 1
    <3>1. j \in untold[s] \ {i}
      <4>1. ~ \E l \in 1..(m + 1) : l > m + 1 BY <1>5
      <4>2. QED BY <2>1, <2>3, <4>1, <1>5, <1>6 DEF NotBefore
    <3>2. ~(trail[s][j].began < trail[s][i].began) BY <3>1, <2>1 DEF Earlier
    <3>3. trail[s][j].began \in Nat /\ trail[s][i].began \in Nat
      <4>1. trail[s][j] \in TrailRow /\ trail[s][i] \in TrailRow
        BY <1>4 DEF ShipmentsInv, TrailsTyped
      <4>2. QED BY <4>1 DEF TrailRow
    <3>4. QED BY <2>3, <3>2, <3>3, <1>5
  <2>4. CASE k \in 1..m
    <3>1. W[k] = told[s][k] BY <2>4, <1>5
    <3>2. NotBefore(s, j, k)
      <4>1. CASE j \in untold[s] BY <4>1 DEF NotBefore
      <4>2. CASE j \notin untold[s]
        <5>1. PICK l \in 1..(m + 1) : l > k /\ W[l] = j
          BY <4>2, <2>1, <1>5, <1>6 DEF NotBefore
        <5>2. l # m + 1 BY <5>1, <4>2, <1>5
        <5>3. l \in 1..m /\ told[s][l] = j BY <5>1, <5>2, <1>5
        <5>4. QED BY <5>1, <5>3, <1>5 DEF NotBefore
      <4>3. QED BY <4>1, <4>2
    <3>3. QED BY <2>1, <2>2, <2>4, <3>1, <3>2, <1>5 DEF ToldInOrder
  <2>5. QED BY <2>3, <2>4, <1>5
<1>13. QED BY <1>7, <1>8, <1>9, <1>10, <1>11, <1>12 DEF ShipmentsInv

LEMMA ShipmentsStep == ShipmentsInv /\ [ShipmentsNext]_shipmentVars => ShipmentsInv'
<1> SUFFICES ASSUME ShipmentsInv, [ShipmentsNext]_shipmentVars PROVE ShipmentsInv' OBVIOUS
<1>1. CASE UNCHANGED shipmentVars
  <2>1. shipment' \in [Shipments -> {NoShipment} \cup ShipmentRow]
    BY <1>1 DEF shipmentVars, ShipmentsInv, TrailsTyped
  <2>2. QED BY <1>1, <2>1, RowKeeps DEF shipmentVars
<1>2. ASSUME NEW q \in Scans, NEW s \in Shipments, NEW e \in ScanTypes \cap EventTypes,
             NEW t \in Times, NEW p \in ScanSpots, BeginScan(q, s, e, t, p)
      PROVE  ShipmentsInv'
  BY <1>2, BeginScanKeeps
<1>3. QED
  BY <1>1, <1>2, CreateShipmentKeeps, UpdateShipmentKeeps, CommitScanKeeps, FailScanKeeps,
     PublishKeeps DEF ShipmentsNext

-----------------------------------------------------------------------------
(* Telemetry.  A job announces in order and stores at the end; what it has sent
   of a message it has behind it.  Rows and jobs that have a message behind them
   together account for its announcements. *)

JobRow == [reading : Readings, todo : Seq(Kinds \cup {"fence"}), fence : Fences \cup {"none"}]

ReadingsTyped ==
    /\ fences \subseteq Fences
    /\ device \in [Devices -> Shipments \cup {"none", "unknown"}]
    /\ job \in [Workers -> {NoJob} \cup JobRow]
    /\ taken \in 0..Len(IotLog)
    /\ stored \in [Readings -> Seq(Fences \cup {"none"})]
    /\ announced \in [Readings -> [Messages -> Nat]]
    /\ broken \in [Readings -> Nat]
    /\ posts \in 0..MaxPosts /\ rereads \in 0..MaxRereads

(* What a job has still to do: some alerts of its reading, each once, and then the
   fence. *)
TodoFits(todo, m) ==
    /\ todo # <<>> => todo[Len(todo)] = "fence"
    /\ \A i \in DOMAIN todo : i < Len(todo) => todo[i] \in Breaches(Reading[m])
    /\ \A i, l \in DOMAIN todo : todo[i] = todo[l] => i = l

(* The crossing that a fence in a row of m tells of was sent, and the reading is
   in that fence. *)
Crossed(m, f) ==
    /\ f # Reading[m].fence =>
          announced[m][IF f = "none" THEN <<"exit", Reading[m].fence>> ELSE <<"enter", f>>] > 0
    /\ \A p \in Reading[m].spot : f # "none" => Inside(f, p)

JobsFit ==
    \A w \in Workers : job[w] # NoJob =>
        /\ TodoFits(job[w].todo, job[w].reading)
        /\ job[w].todo = <<>> => Crossed(job[w].reading, job[w].fence)

Behind(j, x) ==
    IF x[1] = "alert" THEN \A i \in DOMAIN j.todo : j.todo[i] # x[2] ELSE j.todo = <<>>

Past(jobs, m, x) == {w \in Workers : jobs[w].reading = m /\ Behind(jobs[w], x)}

Fits(m, x) == x[1] = "alert" => x[2] \in Breaches(Reading[m])

Accounted(m, x) ==
    /\ ~Fits(m, x) => announced[m][x] = 0
    /\ Fits(m, x) /\ x[1] = "alert" =>
          Len(stored[m]) + Cardinality(Past(job, m, x)) <= announced[m][x]
    /\ Fits(m, x) /\ broken[m] = 0 =>
          announced[m][x] <= Len(stored[m]) + Cardinality(Past(job, m, x))

RowsCrossed(m) == \A i \in DOMAIN stored[m] : Crossed(m, stored[m][i])

TopicFollowed(m) ==
    broken[m] = 0 => \A i \in 1..taken : IotLog[i] = m => stored[m] # <<>> \/ job[Iot].reading = m

ReadingsInv ==
    /\ ReadingsTyped /\ JobsFit
    /\ \A m \in Readings :
          RowsCrossed(m) /\ TopicFollowed(m) /\ \A x \in Messages : Accounted(m, x)

(* No job is a job on a reading. *)
LEMMA JobFacts ==
    ASSUME ReadingsTyped
    PROVE  /\ IsFiniteSet(Workers)
           /\ NoJob.reading \notin Readings
           /\ \A w \in Workers : job[w] # NoJob => job[w] \in JobRow /\ job[w].reading \in Readings
           /\ \A w \in Workers, m \in Readings : job[w].reading = m => job[w] \in JobRow
<1>1. IsFiniteSet(Workers) BY TelemetryAssumption, FS_AddElement DEF Workers
<1>2. NoJob.reading \notin Readings BY TelemetryAssumption DEF NoJob
<1>3. \A j \in JobRow : j.reading \in Readings BY DEF JobRow
<1>4. QED BY <1>1, <1>2, <1>3 DEF ReadingsTyped

LEMMA PastFinite ==
    ASSUME ReadingsTyped, NEW m, NEW x
    PROVE  IsFiniteSet(Past(job, m, x)) /\ Cardinality(Past(job, m, x)) \in Nat
<1>1. Past(job, m, x) \in SUBSET Workers BY DEF Past
<1>2. QED BY <1>1, JobFacts, FS_Subset, FS_CardinalityType

(* The types that the module states follow, and so do its properties. *)
LEMMA TelemetryTyped == ReadingsInv => TelemetryTypeOK
<1> SUFFICES ASSUME ReadingsInv PROVE TelemetryTypeOK OBVIOUS
<1>1. ASSUME NEW w \in Workers PROVE job[w] = NoJob \/ job[w].reading \in Readings
  BY JobFacts DEF ReadingsInv
<1>2. QED BY <1>1 DEF ReadingsInv, ReadingsTyped, TelemetryTypeOK

LEMMA KindNames == Kinds = {"temperature_breach", "humidity_breach", "shock_detected"}
<1>1. DOMAIN Alerts = {1, 2, 3} BY DEF Alerts
<1>2. Alerts[1] = "temperature_breach" /\ Alerts[2] = "humidity_breach" /\ Alerts[3] = "shock_detected"
  BY DEF Alerts
<1>3. QED BY <1>1, <1>2 DEF Kinds

LEMMA MessageNames ==
    /\ \A k \in Kinds : <<"alert", k>> \in Messages
    /\ \A f \in Fences : <<"enter", f>> \in Messages /\ <<"exit", f>> \in Messages
BY DEF Messages

LEMMA AnnouncementsFollow == ReadingsInv => TelemetryAccounted
<1> SUFFICES ASSUME ReadingsInv PROVE TelemetryAccounted OBVIOUS
<1>a. ReadingsTyped BY DEF ReadingsInv
<1>1. RowsAnnounced
  <2>1. SUFFICES ASSUME NEW m \in Readings
                 PROVE  /\ \A k \in Breaches(Reading[m]) :
                             announced[m][<<"alert", k>>] >= Len(stored[m])
                        /\ \A i \in ReadingRows(m) : Crossed(m, stored[m][i])
    BY DEF RowsAnnounced, Crossed
  <2>2. ASSUME NEW k \in Breaches(Reading[m])
        PROVE  announced[m][<<"alert", k>>] >= Len(stored[m])
    <3>1. PICK x : x = <<"alert", k>> OBVIOUS
    <3>2. x \in Messages /\ Fits(m, x) /\ x[1] = "alert"
      BY <3>1, MessageNames DEF Breaches, Fits
    <3>3. Len(stored[m]) + Cardinality(Past(job, m, x)) <= announced[m][x]
      BY <3>2 DEF ReadingsInv, Accounted
    <3>4. Len(stored[m]) \in Nat /\ announced[m][x] \in Nat BY <1>a, <3>2 DEF ReadingsTyped
    <3>5. QED BY <1>a, <3>1, <3>3, <3>4, PastFinite
  <2>3. QED BY <2>2 DEF ReadingsInv, RowsCrossed, ReadingRows
<1>2. MissingRowsExcused
  <2>1. SUFFICES ASSUME NEW m \in Readings, broken[m] = 0
                 PROVE  /\ \A x \in Messages :
                             announced[m][x] <= Len(stored[m]) + Cardinality(Working(m))
                        /\ \A i \in 1..taken : IotLog[i] = m => stored[m] # <<>> \/ job[Iot].reading = m
    BY DEF MissingRowsExcused
  <2>2. ASSUME NEW x \in Messages
        PROVE  announced[m][x] <= Len(stored[m]) + Cardinality(Working(m))
    <3>1. IsFiniteSet(Working(m))
      <4>1. Working(m) \in SUBSET Workers BY DEF Working
      <4>2. QED BY <4>1, <1>a, JobFacts, FS_Subset
    <3>2. Past(job, m, x) \in SUBSET Working(m) BY DEF Past, Working
    <3>3. Cardinality(Past(job, m, x)) <= Cardinality(Working(m)) BY <3>1, <3>2, FS_Subset
    <3>4. /\ Cardinality(Past(job, m, x)) \in Nat /\ Cardinality(Working(m)) \in Nat
          /\ Len(stored[m]) \in Nat /\ announced[m][x] \in Nat
      BY <3>1, <1>a, PastFinite, FS_CardinalityType DEF ReadingsTyped
    <3>5. Accounted(m, x) BY DEF ReadingsInv
    <3>6. QED BY <2>1, <3>3, <3>4, <3>5 DEF Accounted
  <2>3. QED BY <2>1, <2>2 DEF ReadingsInv, TopicFollowed
<1>3. NoFalseAlert
  <2>1. SUFFICES ASSUME NEW m \in Readings, Reading[m].event \notin Kinds,
                        Reading[m].temperature \subseteq -5..30, Reading[m].humidity \subseteq 0..85,
                        Reading[m].shock \subseteq 0..5, NEW k \in Kinds
                 PROVE  announced[m][<<"alert", k>>] = 0
    BY DEF NoFalseAlert
  <2>2. k \notin Breaches(Reading[m])
    <3>1. Reading[m].event # k BY <2>1
    <3>2. ~ \E t \in Reading[m].temperature : t < -5 \/ t > 30 BY <2>1
    <3>3. ~ \E h \in Reading[m].humidity : h > 85 BY <2>1
    <3>4. ~ \E g \in Reading[m].shock : g > 5 BY <2>1
    <3>5. QED BY <3>1, <3>2, <3>3, <3>4 DEF Breaches
  <2>3. PICK x : x = <<"alert", k>> OBVIOUS
  <2>4. x \in Messages /\ ~Fits(m, x) BY <2>2, <2>3, MessageNames DEF Fits
  <2>5. QED BY <2>3, <2>4 DEF ReadingsInv, Accounted
<1>4. QED BY <1>1, <1>2, <1>3 DEF TelemetryAccounted

LEMMA InitReadings == TelemetryInit => ReadingsInv
<1> SUFFICES ASSUME TelemetryInit PROVE ReadingsInv OBVIOUS
<1> USE DEF TelemetryInit
<1>1. ReadingsTyped
  <2>1. Len(IotLog) \in Nat BY TelemetryAssumption
  <2>2. QED BY <2>1, TelemetryAssumption DEF ReadingsTyped
<1>2. JobsFit BY DEF JobsFit
<1>3. ASSUME NEW m \in Readings
      PROVE  RowsCrossed(m) /\ TopicFollowed(m) /\ \A x \in Messages : Accounted(m, x)
  <2>1. RowsCrossed(m) BY DEF RowsCrossed
  <2>2. TopicFollowed(m) BY DEF TopicFollowed
  <2>3. ASSUME NEW x \in Messages PROVE Accounted(m, x)
    <3>1. Past(job, m, x) = {} BY TelemetryAssumption DEF Past, NoJob
    <3>2. Len(stored[m]) = 0 /\ announced[m][x] = 0 /\ Cardinality(Past(job, m, x)) = 0
      BY <3>1, FS_EmptySet
    <3>3. QED BY <3>2 DEF Accounted
  <2>4. QED BY <2>1, <2>2, <2>3
<1>4. QED BY <1>1, <1>2, <1>3 DEF ReadingsInv

(* One job moves: it joins those that have x behind them, leaves them, or neither. *)
LEMMA PastMoves ==
    ASSUME ReadingsTyped, NEW w \in Workers, NEW jobs,
           \A v \in Workers : v # w => jobs[v] = job[v], NEW m, NEW x
    PROVE  /\ Cardinality(Past(jobs, m, x)) \in Nat
           /\ w \in Past(jobs, m, x) /\ w \in Past(job, m, x) =>
                 Cardinality(Past(jobs, m, x)) = Cardinality(Past(job, m, x))
           /\ w \in Past(jobs, m, x) /\ w \notin Past(job, m, x) =>
                 Cardinality(Past(jobs, m, x)) = Cardinality(Past(job, m, x)) + 1
           /\ w \notin Past(jobs, m, x) /\ w \in Past(job, m, x) =>
                 Cardinality(Past(jobs, m, x)) = Cardinality(Past(job, m, x)) - 1
           /\ w \notin Past(jobs, m, x) /\ w \notin Past(job, m, x) =>
                 Cardinality(Past(jobs, m, x)) = Cardinality(Past(job, m, x))
<1>1. PICK S : S = Past(job, m, x) OBVIOUS
<1>2. Past(jobs, m, x) = IF w \in Past(jobs, m, x) THEN S \cup {w} ELSE S \ {w}
  BY <1>1 DEF Past, Behind
<1>4. IsFiniteSet(S) BY <1>1, PastFinite
<1>5. Cardinality(S \cup {w}) = IF w \in S THEN Cardinality(S) ELSE Cardinality(S) + 1
  BY <1>4, FS_AddElement
<1>6. Cardinality(S \ {w}) = IF w \in S THEN Cardinality(S) - 1 ELSE Cardinality(S)
  BY <1>4, FS_RemoveElement
<1>7. IsFiniteSet(S \cup {w}) /\ IsFiniteSet(S \ {w})
  BY <1>4, FS_AddElement, FS_RemoveElement
<1>8. Cardinality(S \cup {w}) \in Nat /\ Cardinality(S \ {w}) \in Nat
  BY <1>7, FS_CardinalityType
<1>9. CASE w \in Past(jobs, m, x)
  <2>1. Past(jobs, m, x) = S \cup {w} BY <1>2, <1>9
  <2>2. QED BY <1>1, <1>5, <1>8, <1>9, <2>1
<1>10. CASE w \notin Past(jobs, m, x)
  <2>1. Past(jobs, m, x) = S \ {w} BY <1>2, <1>10
  <2>2. QED BY <1>1, <1>6, <1>8, <1>10, <2>1
<1>11. QED BY <1>9, <1>10

(* A job on m moves, and the books of other readings stay as they are. *)
LEMMA OthersKeep ==
    ASSUME ReadingsInv, NEW w \in Workers, NEW m \in Readings, NEW j,
           job' = [job EXCEPT ![w] = j], job[w].reading \in {m, "none"}, j.reading \in {m, "none"},
           NEW n \in Readings, n # m,
           announced'[n] = announced[n], stored'[n] = stored[n], broken'[n] = broken[n],
           \/ taken' = taken
           \/ taken' = 0
           \/ taken' = taken + 1 /\ IotLog[taken + 1] = m /\ w = Iot
    PROVE  RowsCrossed(n)' /\ TopicFollowed(n)' /\ \A x \in Messages : Accounted(n, x)'
<1>a. ReadingsTyped BY DEF ReadingsInv
<1>1. job'[w] = j /\ \A v \in Workers : v # w => job'[v] = job[v]
  BY <1>a DEF ReadingsTyped
<1>2. "none" # n BY TelemetryAssumption
<1>3. ASSUME NEW x \in Messages PROVE Past(job', n, x) = Past(job, n, x)
  BY <1>1, <1>2 DEF Past, Behind
<1>4. ASSUME NEW x \in Messages PROVE Accounted(n, x)'
  <2>1. Accounted(n, x) BY DEF ReadingsInv
  <2>2. QED BY <2>1, <1>3 DEF Accounted, Fits
<1>5. RowsCrossed(n)' BY DEF ReadingsInv, RowsCrossed, Crossed
<1>6. TopicFollowed(n)'
  <2>1. TopicFollowed(n) BY DEF ReadingsInv
  <2>2. Iot \in Workers BY DEF Workers
  <2>3. job'[Iot].reading = n <=> job[Iot].reading = n
    BY <1>1, <1>2, <2>2
  <2>4. ASSUME NEW i \in 1..taken', IotLog[i] = n PROVE i \in 1..taken
    <3>1. taken \in Nat BY <1>a, TelemetryAssumption DEF ReadingsTyped
    <3>2. QED BY <2>4, <3>1
  <2>5. QED BY <2>1, <2>3, <2>4 DEF TopicFollowed
<1>7. QED BY <1>4, <1>5, <1>6

(* Jobs that do not move keep what they have told, as announcements never go back. *)
LEMMA JobsKeep ==
    ASSUME ReadingsInv, NEW w \in Workers, NEW j \in {NoJob} \cup JobRow,
           job' = [job EXCEPT ![w] = j],
           \A n \in Readings, x \in Messages : announced[n][x] <= announced'[n][x],
           announced' \in [Readings -> [Messages -> Nat]],
           j # NoJob => TodoFits(j.todo, j.reading),
           j # NoJob /\ j.todo = <<>> => Crossed(j.reading, j.fence)'
    PROVE  /\ JobsFit'
           /\ \A m \in Readings, f \in Fences \cup {"none"} : Crossed(m, f) => Crossed(m, f)'
<1>a. ReadingsTyped BY DEF ReadingsInv
<1>1. job'[w] = j /\ \A v \in Workers : v # w => job'[v] = job[v]
  BY <1>a DEF ReadingsTyped
<1>2. ASSUME NEW m \in Readings, NEW f \in Fences \cup {"none"}, Crossed(m, f)
      PROVE  Crossed(m, f)'
  <2>1. CASE f = Reading[m].fence BY <2>1, <1>2 DEF Crossed
  <2>2. CASE f # Reading[m].fence
    <3>1. PICK x : x = IF f = "none" THEN <<"exit", Reading[m].fence>> ELSE <<"enter", f>>
      OBVIOUS
    <3>2. x \in Messages
      <4>1. Reading[m].fence \in Fences \cup {"none"} BY ReadingsAssumption
      <4>2. QED BY <2>2, <3>1, <4>1, MessageNames
    <3>3. announced[m][x] > 0 BY <1>2, <2>2, <3>1 DEF Crossed
    <3>4. announced[m][x] \in Nat /\ announced'[m][x] \in Nat /\ announced[m][x] <= announced'[m][x]
      BY <1>a, <3>2 DEF ReadingsTyped
    <3>5. announced'[m][x] > 0 BY <3>3, <3>4
    <3>6. QED BY <1>2, <2>2, <3>1, <3>5 DEF Crossed
  <2>3. QED BY <2>1, <2>2
<1>3. ASSUME NEW v \in Workers, NEW r, r = job'[v], r # NoJob
      PROVE  /\ TodoFits(r.todo, r.reading)
             /\ r.todo = <<>> => Crossed(r.reading, r.fence)'
  <2>1. CASE v = w
    <3>1. r = j BY <2>1, <1>1, <1>3
    <3>2. QED BY <3>1, <1>3
  <2>2. CASE v # w
    <3>1. r = job[v] BY <1>1, <1>3, <2>2
    <3>2. r \in JobRow BY <1>3, <3>1, <1>a DEF ReadingsTyped
    <3>3. r.reading \in Readings /\ r.fence \in Fences \cup {"none"} BY <3>2 DEF JobRow
    <3>4. TodoFits(r.todo, r.reading) /\ (r.todo = <<>> => Crossed(r.reading, r.fence))
      BY <1>3, <3>1 DEF ReadingsInv, JobsFit
    <3>5. QED BY <1>2, <3>3, <3>4
  <2>3. QED BY <2>1, <2>2
<1>4. JobsFit'
  <2>1. SUFFICES ASSUME NEW v \in Workers, job'[v] # NoJob
                 PROVE  /\ TodoFits(job[v].todo, job[v].reading)'
                        /\ (job[v].todo = <<>> => Crossed(job[v].reading, job[v].fence))'
    BY DEF JobsFit
  <2>2. PICK r : r = job'[v] OBVIOUS
  <2>3. TodoFits(r.todo, r.reading) /\ (r.todo = <<>> => Crossed(r.reading, r.fence)')
    BY <1>3, <2>1, <2>2
  <2>4. QED BY <2>2, <2>3 DEF TodoFits, Crossed
<1>5. QED BY <1>2, <1>4

(* A step that touches neither jobs nor books. *)
LEMMA BooksAlone ==
    ASSUME ReadingsInv, UNCHANGED <<job, taken, stored, announced, broken>>, ReadingsTyped'
    PROVE  ReadingsInv'
<1>1. JobsFit' BY DEF ReadingsInv, JobsFit, TodoFits, Crossed
<1>2. ASSUME NEW m \in Readings
      PROVE  RowsCrossed(m)' /\ TopicFollowed(m)' /\ \A x \in Messages : Accounted(m, x)'
  <2>1. RowsCrossed(m)' BY DEF ReadingsInv, RowsCrossed, Crossed
  <2>2. TopicFollowed(m)' BY DEF ReadingsInv, TopicFollowed
  <2>3. ASSUME NEW x \in Messages PROVE Accounted(m, x)'
    <3>1. Accounted(m, x) BY DEF ReadingsInv
    <3>2. Past(job', m, x) = Past(job, m, x) BY DEF Past, Behind
    <3>3. QED BY <3>1, <3>2 DEF Accounted, Fits
  <2>4. QED BY <2>1, <2>2, <2>3
<1>3. QED BY <1>1, <1>2 DEF ReadingsInv

(* A failing job has its reading counted as broken, which excuses what is missing;
   what it has sent, if anything, was an alert of the reading or a crossing. *)
LEMMA BrokenKeeps ==
    ASSUME ReadingsInv, NEW w \in Workers, job[w] # NoJob, Abort(w),
           NEW x,
           \/ announced' = announced
           \/ x \in Messages /\ Fits(job[w].reading, x) /\ Announces(w, x),
           \/ taken' = taken
           \/ taken' = 0,
           UNCHANGED <<fences, device, stored, posts>>, rereads' \in 0..MaxRereads
    PROVE  ReadingsInv'
<1>a. ReadingsTyped BY DEF ReadingsInv
<1>1. PICK m \in Readings : m = job[w].reading BY <1>a, JobFacts
<1>2. /\ broken' = [broken EXCEPT ![m] = @ + 1] /\ job' = [job EXCEPT ![w] = NoJob]
      /\ NoJob.reading = "none"
      /\ \/ announced' = announced
         \/ x \in Messages /\ Fits(m, x) /\ announced' = [announced EXCEPT ![m][x] = @ + 1]
  BY <1>1 DEF Abort, Announces, NoJob
<1>3. /\ announced' \in [Readings -> [Messages -> Nat]]
      /\ \A n \in Readings, y \in Messages : announced[n][y] <= announced'[n][y]
      /\ \A n \in Readings : n # m => announced'[n] = announced[n]
      /\ \A y \in Messages : Fits(m, y) \/ announced'[m][y] = announced[m][y]
  <2>0. CASE announced' = announced BY <2>0, <1>a DEF ReadingsTyped
  <2>a. SUFFICES ASSUME announced' # announced
                 PROVE  /\ announced' \in [Readings -> [Messages -> Nat]]
                        /\ \A n \in Readings, y \in Messages : announced[n][y] <= announced'[n][y]
                        /\ \A n \in Readings : n # m => announced'[n] = announced[n]
                        /\ \A y \in Messages : y # x => announced'[m][y] = announced[m][y]
    BY <2>0, <1>2
  <2>1. PICK said : said = announced[m] OBVIOUS
  <2>2. said \in [Messages -> Nat] /\ x \in Messages BY <2>1, <2>a, <1>2, <1>a DEF ReadingsTyped
  <2>3. PICK more : more = [said EXCEPT ![x] = @ + 1] OBVIOUS
  <2>4. /\ more \in [Messages -> Nat] /\ \A y \in Messages : said[y] <= more[y]
        /\ \A y \in Messages : y # x => more[y] = said[y]
    BY <2>2, <2>3
  <2>5. announced' = [announced EXCEPT ![m] = more] BY <1>2, <2>a, <2>1, <2>3
  <2>6. announced \in [Readings -> [Messages -> Nat]] BY <1>a DEF ReadingsTyped
  <2>7. \A n \in Readings : announced'[n] = announced[n] \/ (n = m /\ announced'[n] = more)
    BY <2>5, <2>6
  <2>8. announced' \in [Readings -> [Messages -> Nat]] BY <2>4, <2>5, <2>6
  <2>9. \A n \in Readings, y \in Messages : announced[n][y] <= announced'[n][y]
    BY <2>1, <2>4, <2>6, <2>7
  <2>10. QED BY <2>1, <2>4, <2>7, <2>8, <2>9
<1>4. broken' \in [Readings -> Nat] /\ broken'[m] # 0
      /\ \A n \in Readings : n # m => broken'[n] = broken[n]
  BY <1>2, <1>a DEF ReadingsTyped
<1>5. ReadingsTyped'
  <2>1. taken' \in 0..Len(IotLog) BY <1>a, TelemetryAssumption DEF ReadingsTyped
  <2>2. QED BY <1>a, <1>2, <1>3, <1>4, <2>1 DEF ReadingsTyped
<1>6. /\ JobsFit'
      /\ \A n \in Readings, f \in Fences \cup {"none"} : Crossed(n, f) => Crossed(n, f)'
  BY <1>2, <1>3, JobsKeep
<1>7. ASSUME NEW n \in Readings, n # m
      PROVE  RowsCrossed(n)' /\ TopicFollowed(n)' /\ \A y \in Messages : Accounted(n, y)'
  <2>1. announced'[n] = announced[n] /\ broken'[n] = broken[n] /\ stored'[n] = stored[n]
    BY <1>3, <1>4, <1>7
  <2>2. job[w].reading \in {m, "none"} /\ NoJob.reading \in {m, "none"} BY <1>1, <1>2
  <2>3. QED BY <1>2, <1>7, <2>1, <2>2, OthersKeep
<1>8. RowsCrossed(m)'
  <2>1. \A i \in DOMAIN stored[m] : stored[m][i] \in Fences \cup {"none"} BY <1>a DEF ReadingsTyped
  <2>2. RowsCrossed(m) BY DEF ReadingsInv
  <2>3. QED BY <2>1, <2>2, <1>6 DEF RowsCrossed
<1>9. TopicFollowed(m)' BY <1>4 DEF TopicFollowed
<1>10. ASSUME NEW y \in Messages PROVE Accounted(m, y)'
  <2>1. Accounted(m, y) BY DEF ReadingsInv
  <2>2. ~Fits(m, y) => announced'[m][y] = 0 BY <2>1, <1>3 DEF Accounted
  <2>3. PICK c \in Nat : c = Cardinality(Past(job, m, y)) BY <1>a, PastFinite
  <2>m. job'[w] = NoJob /\ \A v \in Workers : v # w => job'[v] = job[v]
    BY <1>a, <1>2 DEF ReadingsTyped
  <2>4. PICK d \in Nat : d = Cardinality(Past(job', m, y)) BY <1>a, <2>m, PastMoves
  <2>5. d <= c
    <3>1. w \notin Past(job', m, y) BY <1>2, <2>m, TelemetryAssumption DEF Past
    <3>2. d = c \/ d = c - 1 BY <1>a, <2>3, <2>4, <2>m, <3>1, PastMoves
    <3>3. QED BY <3>2
  <2>6. PICK a \in Nat : a = announced[m][y] BY <1>a DEF ReadingsTyped
  <2>7. PICK b \in Nat : b = announced'[m][y] BY <1>3
  <2>8. PICK l \in Nat : l = Len(stored[m]) BY <1>a DEF ReadingsTyped
  <2>9. Fits(m, y) /\ y[1] = "alert" => l + d <= b
    <3>1. Fits(m, y) /\ y[1] = "alert" => l + c <= a BY <2>1, <2>3, <2>6, <2>8 DEF Accounted
    <3>2. a <= b BY <1>3, <2>6, <2>7
    <3>3. QED BY <3>1, <3>2, <2>5
  <2>10. QED BY <2>2, <2>4, <2>7, <2>8, <2>9, <1>4 DEF Accounted, Fits
<1>11. QED BY <1>5, <1>6, <1>7, <1>8, <1>9, <1>10 DEF ReadingsInv

(* A job that goes on sends the messages X, for which it was not behind before. *)
Announcing(m, X) ==
    /\ X \subseteq Messages
    /\ announced' \in [Readings -> [Messages -> Nat]]
    /\ \A n \in Readings : n # m => announced'[n] = announced[n]
    /\ \A y \in Messages :
          announced'[m][y] = IF y \in X THEN announced[m][y] + 1 ELSE announced[m][y]

Tells(w, m, j, X) ==
    /\ Announcing(m, X)
    /\ \A y \in X : Fits(m, y) /\ Behind(j, y) /\ ~Behind(job[w], y)
    /\ \A y \in Messages \ X :
          /\ Behind(job[w], y) => Behind(j, y)
          /\ Fits(m, y) /\ y[1] = "alert" /\ Behind(j, y) => Behind(job[w], y)

(* It has what it sends, and no other alert, behind it from then on. *)
LEMMA TellKeeps ==
    ASSUME ReadingsInv, NEW w \in Workers, NEW m \in Readings, job[w].reading = m,
           NEW j \in JobRow, j.reading = m, job' = [job EXCEPT ![w] = j],
           NEW X, Tells(w, m, j, X),
           TodoFits(j.todo, m), j.todo = <<>> => Crossed(m, j.fence)',
           UNCHANGED <<fences, device, taken, stored, broken, posts, rereads>>
    PROVE  ReadingsInv'
<1>a. ReadingsTyped BY DEF ReadingsInv
<1>1. ReadingsTyped' BY <1>a DEF ReadingsTyped, Tells, Announcing
<1>2. \A n \in Readings, y \in Messages : announced[n][y] <= announced'[n][y]
  <2>1. SUFFICES ASSUME NEW n \in Readings, NEW y \in Messages
                 PROVE  announced[n][y] <= announced'[n][y]
    OBVIOUS
  <2>2. announced[n][y] \in Nat BY <1>a DEF ReadingsTyped
  <2>3. CASE n = m
    <3>1. announced'[m][y] = announced[m][y] + 1 \/ announced'[m][y] = announced[m][y]
      BY DEF Tells, Announcing
    <3>2. QED BY <2>2, <2>3, <3>1
  <2>4. CASE n # m BY <2>2, <2>4 DEF Tells, Announcing
  <2>5. QED BY <2>3, <2>4
<1>3. /\ JobsFit'
      /\ \A n \in Readings, f \in Fences \cup {"none"} : Crossed(n, f) => Crossed(n, f)'
  <2>1. announced' \in [Readings -> [Messages -> Nat]] BY DEF Tells, Announcing
  <2>2. QED BY <1>2, <2>1, JobsKeep
<1>4. ASSUME NEW n \in Readings, n # m
      PROVE  RowsCrossed(n)' /\ TopicFollowed(n)' /\ \A y \in Messages : Accounted(n, y)'
  <2>1. announced'[n] = announced[n] BY <1>4 DEF Tells, Announcing
  <2>2. QED BY <1>4, <2>1, OthersKeep
<1>5. RowsCrossed(m)'
  <2>1. \A i \in DOMAIN stored[m] : stored[m][i] \in Fences \cup {"none"} BY <1>a DEF ReadingsTyped
  <2>2. RowsCrossed(m) BY DEF ReadingsInv
  <2>3. QED BY <2>1, <2>2, <1>3 DEF RowsCrossed
<1>6. TopicFollowed(m)'
  <2>1. job'[Iot].reading = job[Iot].reading
    BY <1>a DEF ReadingsTyped, Workers
  <2>2. TopicFollowed(m) BY DEF ReadingsInv
  <2>3. QED BY <2>1, <2>2 DEF TopicFollowed
<1>7. ASSUME NEW y \in Messages PROVE Accounted(m, y)'
  <2>1. Accounted(m, y) BY DEF ReadingsInv
  <2>2. PICK c \in Nat : c = Cardinality(Past(job, m, y)) BY <1>a, PastFinite
  <2>J. PICK J : J = job' OBVIOUS
  <2>m. J[w] = j /\ \A v \in Workers : v # w => J[v] = job[v]
    BY <1>a, <2>J DEF ReadingsTyped
  <2>3. PICK d \in Nat : d = Cardinality(Past(J, m, y)) BY <1>a, <2>m, PastMoves
  <2>4. PICK a \in Nat : a = announced[m][y] BY <1>a DEF ReadingsTyped
  <2>5. PICK l \in Nat : l = Len(stored[m]) BY <1>a DEF ReadingsTyped
  <2>6. /\ w \in Past(job, m, y) <=> Behind(job[w], y)
        /\ w \in Past(J, m, y) <=> Behind(j, y)
    BY <2>m DEF Past
  <2>7. CASE y \in X
    <3>a. w \in Past(J, m, y) /\ w \notin Past(job, m, y) BY <2>6, <2>7 DEF Tells, Announcing
    <3>1. d = c + 1 BY <1>a, <2>2, <2>3, <2>m, <3>a, PastMoves
    <3>2. announced'[m][y] = a + 1 /\ Fits(m, y) BY <2>4, <2>7 DEF Tells, Announcing
    <3>4. /\ y[1] = "alert" => l + c <= a
          /\ broken[m] = 0 => a <= l + c
      BY <2>1, <2>2, <2>4, <2>5, <3>2 DEF Accounted
    <3>5. /\ y[1] = "alert" => l + d <= a + 1
          /\ broken[m] = 0 => a + 1 <= l + d
      BY <3>1, <3>4
    <3>6. QED BY <2>3, <2>5, <2>J, <3>2, <3>5 DEF Accounted, Fits
  <2>8. CASE y \notin X
    <3>1. announced'[m][y] = a BY <2>4, <2>8 DEF Tells, Announcing
    <3>2. c <= d
      <4>a. w \in Past(job, m, y) => w \in Past(J, m, y) BY <2>6, <2>8 DEF Tells, Announcing
      <4>1. d = c \/ d = c + 1 BY <1>a, <2>2, <2>3, <2>m, <4>a, PastMoves
      <4>2. QED BY <4>1
    <3>3. Fits(m, y) /\ y[1] = "alert" => d = c
      <4>a. Fits(m, y) /\ y[1] = "alert" =>
               (w \in Past(job, m, y) <=> w \in Past(J, m, y))
        BY <2>6, <2>8 DEF Tells, Announcing
      <4>2. QED BY <1>a, <2>2, <2>3, <2>m, <4>a, PastMoves
    <3>4. QED BY <2>1, <2>2, <2>3, <2>4, <2>5, <2>J, <3>1, <3>2, <3>3 DEF Accounted, Fits
  <2>9. QED BY <2>7, <2>8
<1>8. QED BY <1>1, <1>3, <1>4, <1>5, <1>6, <1>7 DEF ReadingsInv

(* One announcement of the reading a job is on. *)
LEMMA AnnouncesOne ==
    ASSUME ReadingsTyped, NEW w \in Workers, NEW m \in Readings, job[w].reading = m,
           NEW x \in Messages, Announces(w, x), NEW X, X = {x}
    PROVE  Announcing(m, X)
<1>1. announced' = [announced EXCEPT ![m][x] = @ + 1] BY DEF Announces
<1>2. PICK said : said = announced[m] OBVIOUS
<1>3. said \in [Messages -> Nat] BY <1>2 DEF ReadingsTyped
<1>4. PICK more : more = [said EXCEPT ![x] = @ + 1] OBVIOUS
<1>5. /\ more \in [Messages -> Nat]
      /\ \A y \in Messages : more[y] = IF y \in X THEN said[y] + 1 ELSE said[y]
  BY <1>3, <1>4
<1>6. announced' = [announced EXCEPT ![m] = more] BY <1>1, <1>2, <1>4
<1>7. announced' \in [Readings -> [Messages -> Nat]] BY <1>5, <1>6 DEF ReadingsTyped
<1>8. announced'[m] = more /\ \A n \in Readings : n # m => announced'[n] = announced[n]
  BY <1>6 DEF ReadingsTyped
<1>9. QED BY <1>2, <1>5, <1>7, <1>8 DEF Announcing

(* What a reading has due. *)
LEMMA DueFits ==
    ASSUME NEW m \in Readings, NEW todo, todo = Append(Due(Reading[m]), "fence")
    PROVE  /\ todo \in Seq(Kinds \cup {"fence"}) /\ todo # <<>> /\ TodoFits(todo, m)
           /\ \A k \in Breaches(Reading[m]) : \E i \in DOMAIN todo : todo[i] = k
<1>1. PICK B : B = Breaches(Reading[m]) OBVIOUS
<1>2. B \subseteq {"temperature_breach", "humidity_breach", "shock_detected"}
  BY <1>1, KindNames DEF Breaches
<1>3. PICK t : t = IF "temperature_breach" \in B THEN <<"temperature_breach">> ELSE <<>> OBVIOUS
<1>4. PICK h : h = IF "humidity_breach" \in B THEN <<"humidity_breach">> ELSE <<>> OBVIOUS
<1>5. PICK g : g = IF "shock_detected" \in B THEN <<"shock_detected">> ELSE <<>> OBVIOUS
<1>6. todo = Append(t \o h \o g, "fence")
  BY <1>1, <1>3, <1>4, <1>5 DEF Due, Alerts
<1>7. PICK T : T = {"temperature_breach", "humidity_breach", "shock_detected", "fence"} OBVIOUS
<1>8. t \in Seq(T) /\ h \in Seq(T) /\ g \in Seq(T) /\ "fence" \in T
  <2>1. \A k \in T : <<k>> \in Seq(T) OBVIOUS
  <2>2. <<>> \in Seq(T) OBVIOUS
  <2>3. "temperature_breach" \in T /\ "humidity_breach" \in T /\ "shock_detected" \in T
        /\ "fence" \in T
    BY <1>7
  <2>4. QED BY <1>3, <1>4, <1>5, <2>1, <2>2, <2>3
<1>9. PICK s : s = t \o h OBVIOUS
<1>10. PICK u : u = s \o g OBVIOUS
<1>11. todo = Append(u, "fence") BY <1>6, <1>9, <1>10
<1>12. Len(t) \in 0..1 /\ Len(h) \in 0..1 /\ Len(g) \in 0..1 BY <1>3, <1>4, <1>5
<1>13. /\ s \in Seq(T) /\ Len(s) = Len(t) + Len(h)
       /\ \A i \in 1..Len(s) : s[i] = IF i <= Len(t) THEN t[i] ELSE h[i - Len(t)]
  BY <1>8, <1>9
<1>14. /\ u \in Seq(T) /\ Len(u) = Len(s) + Len(g)
       /\ \A i \in 1..Len(u) : u[i] = IF i <= Len(s) THEN s[i] ELSE g[i - Len(s)]
  BY <1>8, <1>10, <1>13
<1>15. /\ todo \in Seq(T) /\ Len(todo) = Len(u) + 1 /\ todo[Len(u) + 1] = "fence"
       /\ \A i \in 1..Len(u) : todo[i] = u[i]
  <2>1. u \in Seq(T) /\ "fence" \in T BY <1>8, <1>14
  <2>a. PICK n \in Nat : n = Len(u) BY <2>1
  <2>b. todo \in Seq(T)
    <3>1. Append(u, "fence") \in Seq(T) BY <2>1
    <3>2. QED BY <1>11, <3>1
  <2>c. Len(todo) = Len(u) + 1 BY <1>11, <2>1
  <2>2. todo \in Seq(T) /\ Len(todo) = Len(u) + 1 BY <2>b, <2>c
  <2>3. todo[Len(u) + 1] = "fence" BY <1>11, <2>1
  <2>4. \A i \in 1..Len(u) : todo[i] = u[i] BY <1>11, <2>1
  <2>5. QED BY <2>2, <2>3, <2>4
<1>16. T = Kinds \cup {"fence"} BY <1>7, KindNames
<1>17. todo # <<>> /\ todo[Len(todo)] = "fence"
  <2>1. Len(u) \in Nat BY <1>14
  <2>2. Len(todo) # 0 BY <1>15, <2>1
  <2>3. QED BY <1>15, <2>2
(* The three places that the alerts may have, from the first on. *)
<1>18. /\ "temperature_breach" \in B => Len(t) = 1 /\ u[1] = "temperature_breach"
       /\ "temperature_breach" \notin B => Len(t) = 0
       /\ "humidity_breach" \in B => Len(h) = 1 /\ u[Len(t) + 1] = "humidity_breach"
       /\ "humidity_breach" \notin B => Len(h) = 0
       /\ "shock_detected" \in B => Len(g) = 1 /\ u[Len(t) + Len(h) + 1] = "shock_detected"
       /\ "shock_detected" \notin B => Len(g) = 0
  BY <1>3, <1>4, <1>5, <1>12, <1>13, <1>14
<1>19. ASSUME NEW i \in 1..Len(u)
       PROVE  \/ i = 1 /\ "temperature_breach" \in B /\ u[i] = "temperature_breach"
              \/ i = Len(t) + 1 /\ "humidity_breach" \in B /\ u[i] = "humidity_breach"
              \/ i = Len(t) + Len(h) + 1 /\ "shock_detected" \in B /\ u[i] = "shock_detected"
  <2>a. PICK a \in 0..1 : a = Len(t) BY <1>12
  <2>b. PICK b \in 0..1 : b = Len(h) BY <1>12
  <2>c. PICK c \in 0..1 : c = Len(g) BY <1>12
  <2>1. i \in Nat /\ i >= 1 /\ i <= a + b + c BY <1>13, <1>14, <2>a, <2>b, <2>c
  <2>2. /\ a = 1 => "temperature_breach" \in B /\ u[1] = "temperature_breach"
        /\ b = 1 => "humidity_breach" \in B /\ u[a + 1] = "humidity_breach"
        /\ c = 1 => "shock_detected" \in B /\ u[a + b + 1] = "shock_detected"
    <3>1. Len(t) = 1 => "temperature_breach" \in B BY <1>18
    <3>2. Len(h) = 1 => "humidity_breach" \in B BY <1>18
    <3>3. Len(g) = 1 => "shock_detected" \in B BY <1>18
    <3>4. QED BY <3>1, <3>2, <3>3, <1>18, <2>a, <2>b, <2>c
  <2>3. \/ a = 1 /\ i = 1
        \/ b = 1 /\ i = a + 1
        \/ c = 1 /\ i = a + b + 1
    BY <2>1
  <2>5. QED BY <2>2, <2>3, <2>a, <2>b
<1>20. DOMAIN todo = 1..Len(todo) /\ Len(u) \in Nat BY <1>14, <1>15
<1>21. ASSUME NEW i \in DOMAIN todo, i < Len(todo) PROVE i \in 1..Len(u) /\ todo[i] = u[i]
  BY <1>15, <1>20, <1>21
<1>22. ASSUME NEW i \in DOMAIN todo, NEW l \in DOMAIN todo, todo[i] = todo[l] PROVE i = l
  <2>1. CASE i < Len(todo) /\ l < Len(todo)
    <3>1. u[i] = u[l] /\ i \in 1..Len(u) /\ l \in 1..Len(u) BY <1>21, <1>22, <2>1
    <3>2. QED BY <3>1, <1>19
  <2>2. CASE ~(i < Len(todo)) /\ l < Len(todo)
    <3>1. todo[i] = "fence" BY <2>2, <1>17, <1>20
    <3>2. todo[l] # "fence" BY <2>2, <1>19, <1>21
    <3>3. QED BY <3>1, <3>2, <1>22
  <2>3. CASE i < Len(todo) /\ ~(l < Len(todo))
    <3>1. todo[l] = "fence" BY <2>3, <1>17, <1>20
    <3>2. todo[i] # "fence" BY <2>3, <1>19, <1>21
    <3>3. QED BY <3>1, <3>2, <1>22
  <2>4. CASE ~(i < Len(todo)) /\ ~(l < Len(todo)) BY <2>4, <1>20
  <2>5. QED BY <2>1, <2>2, <2>3, <2>4
<1>23. ASSUME NEW i \in DOMAIN todo, i < Len(todo) PROVE todo[i] \in B
  BY <1>19, <1>21, <1>23
<1>24. ASSUME NEW k \in B PROVE \E i \in DOMAIN todo : todo[i] = k
  <2>1. \E i \in 1..Len(u) : u[i] = k
    <3>1. Len(u) = Len(t) + Len(h) + Len(g) BY <1>13, <1>14
    <3>2. CASE k = "temperature_breach"
      <4>1. 1 \in 1..Len(u) BY <3>1, <3>2, <1>12, <1>18
      <4>2. QED BY <3>2, <4>1, <1>18
    <3>3. CASE k = "humidity_breach"
      <4>1. Len(t) + 1 \in 1..Len(u)
        <5>1. Len(h) = 1 BY <3>3, <1>18
        <5>2. QED BY <5>1, <3>1, <1>12
      <4>2. QED BY <3>3, <4>1, <1>18
    <3>4. CASE k = "shock_detected"
      <4>1. Len(t) + Len(h) + 1 \in 1..Len(u)
        <5>1. Len(g) = 1 BY <3>4, <1>18
        <5>2. QED BY <5>1, <3>1, <1>12
      <4>2. QED BY <3>4, <4>1, <1>18
    <3>5. QED BY <3>2, <3>3, <3>4, <1>2
  <2>2. QED BY <2>1, <1>15, <1>20
<1>25. QED BY <1>1, <1>15, <1>16, <1>17, <1>22, <1>23, <1>24 DEF TodoFits

(* A job starts with everything still to do. *)
LEMMA StartKeeps ==
    ASSUME ReadingsInv, NEW w \in Workers, NEW m \in Readings, job[w] = NoJob, Starts(w, m),
           \/ taken' = taken
           \/ taken' = taken + 1 /\ taken < Len(IotLog) /\ IotLog[taken + 1] = m /\ w = Iot,
           UNCHANGED <<fences, device, stored, announced, broken, rereads>>,
           posts' \in 0..MaxPosts
    PROVE  ReadingsInv'
<1>a. ReadingsTyped BY DEF ReadingsInv
<1>1. PICK j : j = [reading |-> m, todo |-> Append(Due(Reading[m]), "fence"),
                    fence |-> Reading[m].fence]
  OBVIOUS
<1>2. job' = [job EXCEPT ![w] = j] BY <1>1 DEF Starts
<1>3. /\ j \in JobRow /\ j.reading = m /\ j.todo # <<>> /\ TodoFits(j.todo, m)
      /\ \A k \in Breaches(Reading[m]) : \E i \in DOMAIN j.todo : j.todo[i] = k
  BY <1>1, DueFits, ReadingsAssumption DEF JobRow
<1>4. ReadingsTyped'
  <2>1. taken' \in 0..Len(IotLog)
    BY <1>a, TelemetryAssumption DEF ReadingsTyped
  <2>2. QED BY <1>a, <1>2, <1>3, <2>1 DEF ReadingsTyped
<1>5. job[w].reading = "none" /\ "none" # m BY TelemetryAssumption DEF NoJob
<1>6. /\ JobsFit'
      /\ \A n \in Readings, f \in Fences \cup {"none"} : Crossed(n, f) => Crossed(n, f)'
  <2>1. \A n \in Readings, y \in Messages : announced[n][y] <= announced'[n][y]
    BY <1>a DEF ReadingsTyped
  <2>2. announced' \in [Readings -> [Messages -> Nat]] BY <1>a DEF ReadingsTyped
  <2>3. QED BY <1>2, <1>3, <2>1, <2>2, JobsKeep
<1>7. ASSUME NEW n \in Readings, n # m
      PROVE  RowsCrossed(n)' /\ TopicFollowed(n)' /\ \A y \in Messages : Accounted(n, y)'
  BY <1>2, <1>3, <1>5, <1>7, OthersKeep
<1>8. RowsCrossed(m)' BY DEF ReadingsInv, RowsCrossed, Crossed
<1>9. TopicFollowed(m)'
  <2>1. TopicFollowed(m) BY DEF ReadingsInv
  <2>2. job'[w].reading = m /\ \A v \in Workers : v # w => job'[v] = job[v]
    BY <1>a, <1>2, <1>3 DEF ReadingsTyped
  <2>3. SUFFICES ASSUME broken[m] = 0, NEW i \in 1..taken', IotLog[i] = m
                 PROVE  stored[m] # <<>> \/ job'[Iot].reading = m
    BY DEF TopicFollowed
  <2>4. Iot \in Workers BY DEF Workers
  <2>5. CASE i \in 1..taken
    <3>1. stored[m] # <<>> \/ job[Iot].reading = m BY <2>1, <2>3, <2>5 DEF TopicFollowed
    <3>2. QED BY <3>1, <2>2, <2>4
  <2>6. CASE i \notin 1..taken
    <3>1. taken \in Nat BY <1>a, TelemetryAssumption DEF ReadingsTyped
    <3>2. taken' = taken + 1 BY <2>3, <2>6, <3>1
    <3>3. w = Iot BY <3>1, <3>2
    <3>4. QED BY <2>2, <3>3
  <2>7. QED BY <2>5, <2>6
<1>10. ASSUME NEW y \in Messages PROVE Accounted(m, y)'
  <2>1. Accounted(m, y) BY DEF ReadingsInv
  <2>2. CASE ~Fits(m, y) BY <2>1, <2>2 DEF Accounted, Fits
  <2>3. CASE Fits(m, y)
    <3>m. job'[w] = j /\ \A v \in Workers : v # w => job'[v] = job[v]
      BY <1>a, <1>2 DEF ReadingsTyped
    <3>1. ~Behind(j, y) BY <2>3, <1>3 DEF Behind, Fits
    <3>2. w \notin Past(job, m, y) /\ w \notin Past(job', m, y) BY <1>5, <3>1, <3>m DEF Past
    <3>3. Cardinality(Past(job', m, y)) = Cardinality(Past(job, m, y))
      BY <1>a, <3>2, <3>m, PastMoves
    <3>4. QED BY <2>1, <2>3, <3>3 DEF Accounted, Fits
  <2>4. QED BY <2>2, <2>3
<1>11. QED BY <1>4, <1>6, <1>7, <1>8, <1>9, <1>10 DEF ReadingsInv

(* Sending an alert: it is the first of those still to do. *)
LEMMA EmitAlertKeeps ==
    ASSUME ReadingsInv, NEW w \in Workers, EmitAlert(w)
    PROVE  ReadingsInv'
<1>a. ReadingsTyped BY DEF ReadingsInv
<1>1. PICK r : r = job[w] OBVIOUS
<1>2. r # NoJob /\ Len(r.todo) > 1 BY <1>1 DEF EmitAlert
<1>3. PICK m \in Readings : m = r.reading BY <1>a, <1>1, <1>2, JobFacts
<1>4. /\ r \in JobRow /\ r.todo \in Seq(Kinds \cup {"fence"}) /\ r.fence \in Fences \cup {"none"}
      /\ TodoFits(r.todo, m)
  BY <1>a, <1>1, <1>2, <1>3, JobFacts DEF ReadingsInv, JobsFit, JobRow
<1>5. PICK n : n = Len(r.todo) OBVIOUS
<1>6. n \in Nat /\ n > 1 /\ DOMAIN r.todo = 1..n BY <1>2, <1>4, <1>5
<1>7. PICK k : k = Head(r.todo) OBVIOUS
<1>8. k = r.todo[1] /\ k \in Breaches(Reading[m]) /\ k \in Kinds
  <2>1. k = r.todo[1] /\ 1 \in 1..n BY <1>4, <1>6, <1>7
  <2>2. k \in Breaches(Reading[m]) BY <2>1, <1>4, <1>5, <1>6 DEF TodoFits
  <2>3. QED BY <2>1, <2>2 DEF Breaches
<1>9. PICK x : x = <<"alert", k>> OBVIOUS
<1>10. x \in Messages /\ Fits(m, x) /\ x[1] = "alert" /\ x[2] = k
  BY <1>8, <1>9, MessageNames DEF Fits
<1>11. PICK t : t = Tail(r.todo) OBVIOUS
<1>12. /\ t \in Seq(Kinds \cup {"fence"}) /\ Len(t) = n - 1 /\ DOMAIN t = 1..(n - 1)
       /\ \A i \in 1..(n - 1) : t[i] = r.todo[i + 1]
  BY <1>4, <1>5, <1>6, <1>11
<1>13. PICK j : j = [r EXCEPT !.todo = t] OBVIOUS
<1>14. /\ j \in JobRow /\ j.reading = m /\ j.todo = t /\ j.fence = r.fence
  BY <1>3, <1>4, <1>12, <1>13 DEF JobRow
<1>15. t # <<>> BY <1>6, <1>12
<1>16. TodoFits(t, m)
  <2>1. t[Len(t)] = "fence" BY <1>4, <1>5, <1>6, <1>12 DEF TodoFits
  <2>2. ASSUME NEW i \in DOMAIN t, i < Len(t) PROVE t[i] \in Breaches(Reading[m])
    <3>1. i + 1 \in 1..n /\ i + 1 < n /\ t[i] = r.todo[i + 1] BY <2>2, <1>6, <1>12
    <3>2. QED BY <3>1, <1>4, <1>5, <1>6 DEF TodoFits
  <2>3. ASSUME NEW i \in DOMAIN t, NEW l \in DOMAIN t, t[i] = t[l] PROVE i = l
    <3>a. i \in 1..(n - 1) /\ l \in 1..(n - 1) BY <1>12
    <3>b. r.todo[i + 1] = r.todo[l + 1] BY <2>3, <3>a, <1>12
    <3>1. i + 1 \in 1..n /\ l + 1 \in 1..n /\ r.todo[i + 1] = r.todo[l + 1]
      BY <3>a, <3>b, <1>6
    <3>2. i + 1 = l + 1 BY <3>1, <1>4, <1>6 DEF TodoFits
    <3>3. QED BY <3>2, <2>3, <1>6, <1>12
  <2>4. QED BY <2>1, <2>2, <2>3 DEF TodoFits
<1>17. Behind(j, x) /\ ~Behind(r, x)
  <2>1. \A i \in 1..(n - 1) : t[i] # k
    <3>1. SUFFICES ASSUME NEW i \in 1..(n - 1), t[i] = k PROVE FALSE OBVIOUS
    <3>2. i + 1 \in 1..n /\ 1 \in 1..n /\ r.todo[i + 1] = r.todo[1]
      BY <3>1, <1>6, <1>8, <1>12
    <3>3. i + 1 = 1 BY <3>2, <1>4, <1>6 DEF TodoFits
    <3>4. QED BY <3>1, <3>3, <1>6
  <2>2. 1 \in DOMAIN r.todo /\ r.todo[1] = k BY <1>6, <1>8
  <2>3. QED BY <2>1, <2>2, <1>10, <1>12, <1>14 DEF Behind
<1>18. ASSUME NEW y \in Messages, y # x
       PROVE  /\ Behind(r, y) => Behind(j, y)
              /\ y[1] = "alert" /\ Behind(j, y) => Behind(r, y)
  <2>1. CASE y[1] # "alert" BY <2>1, <1>6, <1>2 DEF Behind
  <2>2. CASE y[1] = "alert"
    <3>1. y[2] # k
      <4>1. PICK k2 \in Kinds : y = <<"alert", k2>> BY <2>2 DEF Messages
      <4>2. QED BY <4>1, <1>18, <1>9
    <3>2. ASSUME NEW i \in 1..(n - 1) PROVE i + 1 \in 1..n BY <1>6
    <3>3. ASSUME Behind(r, y) PROVE Behind(j, y)
      <4>1. \A i \in 1..n : r.todo[i] # y[2] BY <2>2, <3>3, <1>6 DEF Behind
      <4>2. \A i \in 1..(n - 1) : t[i] # y[2] BY <4>1, <3>2, <1>12
      <4>3. QED BY <2>2, <4>2, <1>12, <1>14 DEF Behind
    <3>4. ASSUME Behind(j, y), NEW i \in 1..n PROVE r.todo[i] # y[2]
      <4>1. CASE i = 1 BY <4>1, <3>1, <1>8
      <4>2. CASE i # 1
        <5>1. i - 1 \in 1..(n - 1) /\ t[i - 1] = r.todo[(i - 1) + 1] /\ (i - 1) + 1 = i
          BY <4>2, <1>6, <1>12
        <5>2. t[i - 1] # y[2] BY <5>1, <3>4, <2>2, <1>12, <1>14 DEF Behind
        <5>3. QED BY <5>1, <5>2
      <4>3. QED BY <4>1, <4>2
    <3>5. QED BY <2>2, <3>3, <3>4, <1>6 DEF Behind
  <2>3. QED BY <2>1, <2>2
<1>19. /\ Sent(w, x, j)
       /\ UNCHANGED <<shipment, fences, device, taken, stored, posts, rereads>>
  BY <1>1, <1>7, <1>9, <1>11, <1>13 DEF EmitAlert
<1>20. CASE Announces(w, x) /\ job' = [job EXCEPT ![w] = j] /\ UNCHANGED broken
  <2>1. PICK X : X = {x} OBVIOUS
  <2>2. Announcing(m, X) BY <1>a, <1>1, <1>3, <1>10, <1>20, <2>1, AnnouncesOne
  <2>3. Tells(w, m, j, X) BY <1>1, <1>10, <1>17, <1>18, <2>1, <2>2 DEF Tells
  <2>4. TodoFits(j.todo, m) /\ j.todo # <<>> BY <1>14, <1>15, <1>16
  <2>5. UNCHANGED <<fences, device, taken, stored, broken, posts, rereads>> BY <1>19, <1>20
  <2>6. job[w].reading = m /\ job' = [job EXCEPT ![w] = j] BY <1>1, <1>3, <1>20
  <2>7. QED BY <1>14, <2>3, <2>4, <2>5, <2>6, TellKeeps
<1>21. CASE Abort(w) /\ (announced' = announced \/ Announces(w, x))
  <2>1. rereads' \in 0..MaxRereads BY <1>a, <1>19 DEF ReadingsTyped
  <2>2. Fits(job[w].reading, x) /\ job[w] # NoJob BY <1>1, <1>2, <1>3, <1>10
  <2>3. QED BY <1>10, <1>19, <1>21, <2>1, <2>2, BrokenKeeps
<1>22. QED BY <1>19, <1>20, <1>21 DEF Sent

(* Leaving the fence: every message of the reading is behind the job, with the
   crossing, if one is due, sent. *)
LEMMA FenceKeeps ==
    ASSUME ReadingsInv, NEW w \in Workers, job[w] # NoJob, Len(job[w].todo) = 1,
           NEW m \in Readings, m = job[w].reading, NEW f \in Fences \cup {"none"},
           job' = [job EXCEPT ![w] = [job[w] EXCEPT !.todo = <<>>, !.fence = f]],
           NEW X, \A y \in X : y[1] # "alert", Announcing(m, X),
           Crossed(m, f)',
           UNCHANGED <<fences, device, taken, stored, broken, posts, rereads>>
    PROVE  ReadingsInv'
<1>a. ReadingsTyped BY DEF ReadingsInv
<1>1. PICK r : r = job[w] OBVIOUS
<1>2. /\ r \in JobRow /\ r.todo \in Seq(Kinds \cup {"fence"}) /\ Len(r.todo) = 1
      /\ TodoFits(r.todo, m)
  BY <1>a, <1>1, JobFacts DEF ReadingsInv, JobsFit, JobRow
<1>3. DOMAIN r.todo = {1} /\ r.todo[1] = "fence"
  <2>1. r.todo # <<>> /\ DOMAIN r.todo = {1}
    <3>1. r.todo # <<>>
      <4>1. SUFFICES ASSUME r.todo = <<>> PROVE FALSE OBVIOUS
      <4>2. Len(<<>>) = 0 OBVIOUS
      <4>3. QED BY <4>1, <4>2, <1>2
    <3>2. DOMAIN r.todo = 1..1 BY <1>2
    <3>3. QED BY <3>1, <3>2
  <2>2. QED BY <2>1, <1>2 DEF TodoFits
<1>4. PICK j : j = [r EXCEPT !.todo = <<>>, !.fence = f] OBVIOUS
<1>5. j \in JobRow /\ j.reading = m /\ j.todo = <<>> /\ j.fence = f
  <2>1. PICK k : k = [r EXCEPT !.todo = <<>>] OBVIOUS
  <2>2. k \in JobRow /\ k.reading = m /\ k.todo = <<>>
    <3>1. r.reading = m /\ <<>> \in Seq(Kinds \cup {"fence"}) BY <1>1
    <3>2. QED BY <1>2, <2>1, <3>1 DEF JobRow
  <2>3. j = [k EXCEPT !.fence = f] BY <1>2, <1>4, <2>1 DEF JobRow
  <2>4. QED BY <2>2, <2>3 DEF JobRow
<1>6. \A y : Behind(j, y) BY <1>5 DEF Behind
<1>7. \A y \in Messages : Behind(r, y) <=> y[1] = "alert"
  <2>1. "fence" \notin Kinds BY KindNames
  <2>2. \A y \in Messages : y[1] = "alert" => y[2] \in Kinds BY DEF Messages
  <2>3. r.todo # <<>> BY <1>3
  <2>4. QED BY <1>3, <2>1, <2>2, <2>3 DEF Behind
<1>8. Tells(w, m, j, X)
  <2>1. \A y \in X : y \in Messages /\ Fits(m, y) /\ ~Behind(r, y)
    BY <1>7 DEF Announcing, Fits
  <2>2. \A y \in Messages \ X : Fits(m, y) /\ y[1] = "alert" => Behind(r, y) BY <1>7
  <2>3. QED BY <1>1, <1>6, <2>1, <2>2 DEF Tells
<1>9. TodoFits(j.todo, m) BY <1>5 DEF TodoFits
<1>10. job' = [job EXCEPT ![w] = j] BY <1>1, <1>4
<1>11. job[w].reading = m /\ Crossed(m, j.fence)' BY <1>5
<1>12. QED BY <1>5, <1>8, <1>9, <1>10, <1>11, TellKeeps

LEMMA OneSpot ==
    ASSUME NEW m \in Readings, NEW f, NEW p \in Reading[m].spot, Inside(f, p)
    PROVE  \A q \in Reading[m].spot : Inside(f, q)
BY ReadingsAssumption

LEMMA EvaluateGeofenceKeeps ==
    ASSUME ReadingsInv, NEW w \in Workers, EvaluateGeofence(w)
    PROVE  ReadingsInv'
<1>a. ReadingsTyped BY DEF ReadingsInv
<1> DEFINE r == Reading[job[w].reading]
           Holding == {f \in fences : \E p \in r.spot : Inside(f, p)}
           Leads(f) == [job[w] EXCEPT !.todo = <<>>, !.fence = f]
<1>1. /\ job[w] # NoJob /\ Len(job[w].todo) = 1
      /\ \/ /\ r.spot = {} \/ r.fence \in Holding \/ (Holding = {} /\ r.fence = "none")
            /\ job' = [job EXCEPT ![w] = Leads(r.fence)]
            /\ UNCHANGED <<announced, broken>>
         \/ r.spot # {} /\ \E f \in Holding \ {r.fence} : Sent(w, <<"enter", f>>, Leads(f))
         \/ /\ r.spot # {} /\ Holding = {} /\ r.fence # "none"
            /\ Sent(w, <<"exit", r.fence>>, Leads("none"))
      /\ UNCHANGED <<shipment, fences, device, taken, stored, posts, rereads>>
  BY DEF EvaluateGeofence
<1>2. PICK m \in Readings : m = job[w].reading BY <1>a, <1>1, JobFacts
<1>3. PICK g \in Fences \cup {"none"} : g = Reading[m].fence BY ReadingsAssumption
<1>4. \A f \in Holding : f \in Fences /\ f # "none" /\ \A q \in Reading[m].spot : Inside(f, q)
  BY <1>2, <1>a, OneSpot, TelemetryAssumption DEF ReadingsTyped
<1>5. rereads' \in 0..MaxRereads BY <1>a, <1>1 DEF ReadingsTyped
(* A message that is sent, whether or not the job goes on. *)
<1>6. ASSUME NEW x \in Messages, x[1] # "alert", NEW f \in Fences \cup {"none"},
             Sent(w, x, Leads(f)), f # Reading[m].fence,
             x = IF f = "none" THEN <<"exit", Reading[m].fence>> ELSE <<"enter", f>>,
             \A q \in Reading[m].spot : f # "none" => Inside(f, q)
      PROVE  ReadingsInv'
  <2>1. CASE Announces(w, x) /\ job' = [job EXCEPT ![w] = Leads(f)] /\ UNCHANGED broken
    <3>1. PICK X : X = {x} OBVIOUS
    <3>2. Announcing(m, X) BY <1>a, <1>2, <1>6, <2>1, <3>1, AnnouncesOne
    <3>3. announced'[m][x] > 0
      <4>1. announced[m][x] \in Nat /\ announced'[m][x] = announced[m][x] + 1
        BY <3>1, <3>2, <1>6, <1>a DEF ReadingsTyped, Announcing
      <4>2. QED BY <4>1
    <3>4. Crossed(m, f)' BY <1>6, <3>3 DEF Crossed
    <3>5. \A y \in X : y[1] # "alert" BY <3>1, <1>6
    <3>6. UNCHANGED <<fences, device, taken, stored, broken, posts, rereads>> BY <1>1, <2>1
    <3>7. job' = [job EXCEPT ![w] = [job[w] EXCEPT !.todo = <<>>, !.fence = f]] BY <2>1
    <3>8. QED BY <1>1, <1>2, <3>2, <3>4, <3>5, <3>6, <3>7, FenceKeeps
  <2>2. CASE Abort(w) /\ (announced' = announced \/ Announces(w, x))
    <3>1. Fits(job[w].reading, x) BY <1>6 DEF Fits
    <3>2. QED BY <1>1, <1>5, <2>2, <3>1, BrokenKeeps
  <2>3. QED BY <2>1, <2>2, <1>6 DEF Sent
<1>7. ASSUME r.spot = {} \/ r.fence \in Holding \/ (Holding = {} /\ r.fence = "none"),
             job' = [job EXCEPT ![w] = Leads(r.fence)], UNCHANGED <<announced, broken>>
      PROVE  ReadingsInv'
  <2>1. Crossed(m, g)'
    <3>1. \A q \in Reading[m].spot : g # "none" => Inside(g, q)
      BY <1>2, <1>3, <1>4, <1>7
    <3>2. QED BY <1>3, <3>1 DEF Crossed
  <2>2. PICK X : X = {} OBVIOUS
  <2>3. Announcing(m, X) BY <1>a, <1>7, <2>2 DEF ReadingsTyped, Announcing
  <2>4. job' = [job EXCEPT ![w] = [job[w] EXCEPT !.todo = <<>>, !.fence = g]]
    BY <1>2, <1>3, <1>7
  <2>5. UNCHANGED <<fences, device, taken, stored, broken, posts, rereads>> BY <1>1, <1>7
  <2>6. \A y \in X : y[1] # "alert" BY <2>2
  <2>7. QED BY <1>1, <1>2, <2>1, <2>3, <2>4, <2>5, <2>6, FenceKeeps
<1>8. ASSUME NEW f \in Holding \ {r.fence}, Sent(w, <<"enter", f>>, Leads(f))
      PROVE  ReadingsInv'
  <2>1. f \in Fences /\ f # "none" /\ f # Reading[m].fence BY <1>2, <1>4
  <2>2. PICK x : x = <<"enter", f>> OBVIOUS
  <2>3. x \in Messages /\ x[1] # "alert" BY <2>1, <2>2, MessageNames
  <2>4. QED BY <1>4, <1>6, <1>8, <2>1, <2>2, <2>3
<1>9. ASSUME r.fence # "none", Sent(w, <<"exit", r.fence>>, Leads("none"))
      PROVE  ReadingsInv'
  <2>1. Reading[m].fence \in Fences BY <1>2, <1>3, <1>9
  <2>2. PICK x : x = <<"exit", Reading[m].fence>> OBVIOUS
  <2>3. x \in Messages /\ x[1] # "alert" BY <2>1, <2>2, MessageNames
  <2>4. Sent(w, x, Leads("none")) BY <1>2, <1>9, <2>2
  <2>5. Reading[m].fence # "none" BY <1>2, <1>9
  <2>6. QED BY <1>6, <2>2, <2>3, <2>4, <2>5
<1>10. QED BY <1>1, <1>7, <1>8, <1>9

(* Storing the reading: a row takes the place of the job among those that have
   told everything. *)
LEMMA StoreReadingKeeps ==
    ASSUME ReadingsInv, NEW w \in Workers, StoreReading(w)
    PROVE  ReadingsInv'
<1>a. ReadingsTyped BY DEF ReadingsInv
<1>1. PICK r : r = job[w] OBVIOUS
<1>2. /\ r # NoJob /\ r.todo = <<>> /\ job' = [job EXCEPT ![w] = NoJob]
      /\ UNCHANGED <<fences, taken, announced, broken, posts, rereads>>
  BY <1>1 DEF StoreReading
<1>3. PICK m \in Readings : m = r.reading BY <1>a, <1>1, <1>2, JobFacts
<1>4. r.fence \in Fences \cup {"none"} /\ Crossed(m, r.fence)
  BY <1>a, <1>1, <1>2, <1>3, JobFacts DEF ReadingsInv, JobsFit, JobRow
<1>5. PICK T : T = Append(stored[m], r.fence) OBVIOUS
<1>6. stored' = [stored EXCEPT ![m] = T] BY <1>1, <1>3, <1>5 DEF StoreReading, StoresRow
<1>7. PICK l \in Nat : l = Len(stored[m]) /\ DOMAIN stored[m] = 1..l BY <1>a DEF ReadingsTyped
<1>8. /\ T \in Seq(Fences \cup {"none"}) /\ Len(T) = l + 1 /\ DOMAIN T = 1..(l + 1)
      /\ T[l + 1] = r.fence /\ T # <<>> /\ \A i \in 1..l : T[i] = stored[m][i]
  <2>1. stored[m] \in Seq(Fences \cup {"none"}) BY <1>a DEF ReadingsTyped
  <2>2. QED BY <1>4, <1>5, <1>7, <2>1
<1>9. stored'[m] = T /\ \A n \in Readings : n # m => stored'[n] = stored[n]
  BY <1>6, <1>a DEF ReadingsTyped
<1>10. ReadingsTyped'
  <2>1. stored' \in [Readings -> Seq(Fences \cup {"none"})] BY <1>6, <1>8, <1>a DEF ReadingsTyped
  <2>2. job' \in [Workers -> {NoJob} \cup JobRow] BY <1>2, <1>a DEF ReadingsTyped
  <2>3. device' \in [Devices -> Shipments \cup {"none", "unknown"}]
    <3>1. PICK d : d = Reading[m].device OBVIOUS
    <3>2. PICK t : t = IF device[d] = "unknown" THEN device[d]
                       ELSE Linked(device[d], Reading[m].shipment)
      OBVIOUS
    <3>3. device' = [device EXCEPT ![d] = t]
      BY <1>1, <1>3, <3>1, <3>2 DEF StoreReading
    <3>4. d \in Devices /\ Reading[m].shipment \in Shipments \cup {"none"}
      BY <3>1, ReadingsAssumption
    <3>5. device[d] \in Shipments \cup {"none", "unknown"} BY <3>4, <1>a DEF ReadingsTyped
    <3>6. t \in Shipments \cup {"none", "unknown"} BY <3>2, <3>4, <3>5 DEF Linked
    <3>7. QED BY <3>3, <3>6, <1>a DEF ReadingsTyped
  <2>4. QED BY <2>1, <2>2, <2>3, <1>2, <1>a DEF ReadingsTyped
<1>11. /\ JobsFit'
       /\ \A n \in Readings, f \in Fences \cup {"none"} : Crossed(n, f) => Crossed(n, f)'
  <2>1. \A n \in Readings, y \in Messages : announced[n][y] <= announced'[n][y]
    BY <1>2, <1>a DEF ReadingsTyped
  <2>2. announced' \in [Readings -> [Messages -> Nat]] BY <1>2, <1>a DEF ReadingsTyped
  <2>3. PICK j \in {NoJob} \cup JobRow : j = NoJob OBVIOUS
  <2>4. QED BY <1>2, <2>1, <2>2, <2>3, JobsKeep
<1>12. ASSUME NEW n \in Readings, n # m
       PROVE  RowsCrossed(n)' /\ TopicFollowed(n)' /\ \A y \in Messages : Accounted(n, y)'
  <2>1. announced'[n] = announced[n] /\ broken'[n] = broken[n] /\ stored'[n] = stored[n]
    BY <1>2, <1>9, <1>12
  <2>2. job[w].reading \in {m, "none"} /\ NoJob.reading \in {m, "none"} BY <1>1, <1>3 DEF NoJob
  <2>3. QED BY <1>2, <1>12, <2>1, <2>2, OthersKeep
<1>13. RowsCrossed(m)'
  <2>1. RowsCrossed(m) BY DEF ReadingsInv
  <2>2. ASSUME NEW i \in 1..(l + 1) PROVE Crossed(m, T[i])
    <3>1. CASE i = l + 1 BY <3>1, <1>4, <1>8
    <3>2. CASE i \in 1..l BY <3>2, <2>1, <1>7, <1>8 DEF RowsCrossed
    <3>3. QED BY <3>1, <3>2, <1>7
  <2>3. QED BY <2>2, <1>2, <1>8, <1>9 DEF RowsCrossed, Crossed
<1>14. TopicFollowed(m)' BY <1>8, <1>9 DEF TopicFollowed
<1>15. ASSUME NEW y \in Messages PROVE Accounted(m, y)'
  <2>1. Accounted(m, y) BY DEF ReadingsInv
  <2>2. PICK c \in Nat : c = Cardinality(Past(job, m, y)) BY <1>a, PastFinite
  <2>3. PICK J : J = job' OBVIOUS
  <2>4. J[w] = NoJob /\ \A v \in Workers : v # w => J[v] = job[v]
    BY <1>a, <1>2, <2>3 DEF ReadingsTyped
  <2>5. PICK d \in Nat : d = Cardinality(Past(J, m, y)) BY <1>a, <2>4, PastMoves
  <2>6. w \in Past(job, m, y) /\ w \notin Past(J, m, y)
    <3>1. Behind(r, y) BY <1>2 DEF Behind
    <3>2. NoJob.reading # m BY TelemetryAssumption DEF NoJob
    <3>3. QED BY <3>1, <3>2, <2>4, <1>1, <1>3 DEF Past
  <2>7. d = c - 1 BY <1>a, <2>2, <2>4, <2>5, <2>6, PastMoves
  <2>8. Len(stored'[m]) + d = l + c BY <2>7, <1>7, <1>8, <1>9
  <2>9. QED BY <2>1, <2>2, <2>3, <2>5, <2>8, <1>2, <1>7 DEF Accounted, Fits
<1>16. QED BY <1>10, <1>11, <1>12, <1>13, <1>14, <1>15 DEF ReadingsInv

LEMMA ReadingsStep == ReadingsInv /\ [TelemetryNext]_telemetryVars => ReadingsInv'
<1> SUFFICES ASSUME ReadingsInv, [TelemetryNext]_telemetryVars PROVE ReadingsInv' OBVIOUS
<1>a. ReadingsTyped BY DEF ReadingsInv
<1>1. CASE UNCHANGED telemetryVars
  <2>1. ReadingsTyped' BY <1>a, <1>1 DEF ReadingsTyped, telemetryVars
  <2>2. QED BY <1>1, <2>1, BooksAlone DEF telemetryVars
<1>2. ASSUME NEW f \in Fences, CreateGeofence(f) PROVE ReadingsInv'
  <2>1. ReadingsTyped' BY <1>a, <1>2 DEF ReadingsTyped, CreateGeofence
  <2>2. QED BY <1>2, <2>1, BooksAlone DEF CreateGeofence
<1>3. ASSUME NEW d \in Devices, NEW s \in Shipments \cup {"none"}, RegisterDevice(d, s)
      PROVE  ReadingsInv'
  <2>1. device' \in [Devices -> Shipments \cup {"none", "unknown"}]
    BY <1>a, <1>3 DEF ReadingsTyped, RegisterDevice, Linked
  <2>2. ReadingsTyped' BY <1>a, <1>3, <2>1 DEF ReadingsTyped, RegisterDevice
  <2>3. QED BY <1>3, <2>2, BooksAlone DEF RegisterDevice
<1>4. CASE TakeReading
  <2>1. PICK m \in Readings : m = IotLog[taken + 1]
    <3>1. taken + 1 \in 1..Len(IotLog)
      BY <1>a, <1>4, TelemetryAssumption DEF ReadingsTyped, TakeReading
    <3>2. QED BY <3>1, TelemetryAssumption
  <2>2. Iot \in Workers BY DEF Workers
  <2>3. posts' \in 0..MaxPosts BY <1>a, <1>4 DEF ReadingsTyped, TakeReading
  <2>4. QED BY <1>4, <2>1, <2>2, <2>3, StartKeeps DEF TakeReading
<1>5. CASE RestartIot
  <2>1. Iot \in Workers BY DEF Workers
  <2>2. rereads' \in 0..MaxRereads
    BY <1>a, <1>5, TelemetryAssumption DEF ReadingsTyped, RestartIot
  <2>3. CASE job[Iot] # NoJob BY <1>5, <2>1, <2>2, <2>3, BrokenKeeps DEF RestartIot
  <2>4. CASE job[Iot] = NoJob
    <3>1. UNCHANGED <<fences, device, job, stored, announced, broken, posts>> /\ taken' = 0
      BY <1>5, <2>4 DEF RestartIot
    <3>2. ReadingsTyped' BY <1>a, <2>2, <3>1, TelemetryAssumption DEF ReadingsTyped
    <3>3. JobsFit' BY <3>1 DEF ReadingsInv, JobsFit, TodoFits, Crossed
    <3>4. ASSUME NEW m \in Readings
          PROVE  RowsCrossed(m)' /\ TopicFollowed(m)' /\ \A x \in Messages : Accounted(m, x)'
      <4>1. RowsCrossed(m)' BY <3>1 DEF ReadingsInv, RowsCrossed, Crossed
      <4>2. TopicFollowed(m)' BY <3>1 DEF TopicFollowed
      <4>3. ASSUME NEW x \in Messages PROVE Accounted(m, x)'
        <5>1. Accounted(m, x) BY DEF ReadingsInv
        <5>2. Past(job', m, x) = Past(job, m, x) BY <3>1 DEF Past, Behind
        <5>3. QED BY <3>1, <5>1, <5>2 DEF Accounted, Fits
      <4>4. QED BY <4>1, <4>2, <4>3
    <3>5. QED BY <3>2, <3>3, <3>4 DEF ReadingsInv
  <2>5. QED BY <2>3, <2>4
<1>6. ASSUME NEW w \in Posts, NEW m \in Readings, PostReading(w, m) PROVE ReadingsInv'
  <2>1. w \in Workers BY DEF Workers
  <2>2. posts' \in 0..MaxPosts
    BY <1>a, <1>6, TelemetryAssumption DEF ReadingsTyped, PostReading
  <2>3. QED BY <1>6, <2>1, <2>2, StartKeeps DEF PostReading
<1>7. ASSUME NEW w \in Workers, FailStore(w) PROVE ReadingsInv'
  <2>1. rereads' \in 0..MaxRereads BY <1>a, <1>7 DEF ReadingsTyped, FailStore
  <2>2. QED BY <1>7, <2>1, BrokenKeeps DEF FailStore
<1>8. QED
  BY <1>1, <1>2, <1>3, <1>4, <1>5, <1>6, <1>7, EmitAlertKeeps, EvaluateGeofenceKeeps,
     StoreReadingKeeps DEF TelemetryNext

(* A stored reading moves its shipment and nothing else of it; nothing else that
   telemetry does touches a shipment. *)
LEMMA ReportsKeepShipments ==
    ASSUME ShipmentsInv, ReadingsInv, TelemetryNext,
           UNCHANGED <<trail, scan, untold, told, failed, clock>>
    PROVE  ShipmentsInv'
<1>a. shipment \in [Shipments -> {NoShipment} \cup ShipmentRow]
  BY DEF ShipmentsInv, TrailsTyped
<1>1. CASE shipment' = shipment BY <1>a, <1>1, RowKeeps
<1>2. ASSUME NEW w \in Workers, StoreReading(w) PROVE ShipmentsInv'
  <2>1. PICK m \in Readings : m = job[w].reading
    BY <1>2, JobFacts DEF ReadingsInv, StoreReading
  <2>2. ASSUME NEW s \in Shipments
        PROVE  /\ shipment'[s] \in {NoShipment} \cup ShipmentRow
               /\ \/ shipment'[s] = shipment[s]
                  \/ /\ shipment[s] # NoShipment /\ shipment'[s] # NoShipment
                     /\ shipment'[s].arrival = shipment[s].arrival
                     /\ shipment'[s].status = shipment[s].status
    <3>1. PICK row : row = shipment[s] OBVIOUS
    <3>2. PICK p : p = CHOOSE q \in Reading[m].spot : TRUE OBVIOUS
    <3>3. shipment'[s] =
            IF s = Reading[m].shipment /\ row # NoShipment /\ Reading[m].spot # {}
            THEN [row EXCEPT !.spot = p] ELSE row
      BY <1>2, <2>1, <3>1, <3>2 DEF StoreReading
    <3>4. CASE row # NoShipment /\ Reading[m].spot # {}
      <4>1. p \in Spots BY <3>2, <3>4, ReadingsAssumption
      <4>2. row \in ShipmentRow BY <1>a, <3>1, <3>4
      <4>3. PICK moved : moved = [row EXCEPT !.spot = p] OBVIOUS
      <4>4. moved \in ShipmentRow /\ moved.arrival = row.arrival /\ moved.status = row.status
        BY <4>1, <4>2, <4>3 DEF ShipmentRow
      <4>5. \A x \in ShipmentRow : x # NoShipment
        <5>1. NoShipment.status = "none" BY DEF NoShipment
        <5>2. \A x \in ShipmentRow : x.status # "none" BY DEF ShipmentRow, ShipmentStatus
        <5>3. QED BY <5>1, <5>2
      <4>6. QED BY <3>1, <3>3, <3>4, <4>2, <4>3, <4>4, <4>5
    <3>5. CASE row = NoShipment \/ Reading[m].spot = {} BY <3>1, <3>3, <3>5, <1>a
    <3>6. QED BY <3>4, <3>5
  <2>3. shipment' \in [Shipments -> {NoShipment} \cup ShipmentRow]
    <3>1. shipment' = [s \in Shipments |-> shipment'[s]] BY <1>2 DEF StoreReading
    <3>2. QED BY <3>1, <2>2
  <2>4. QED BY <2>2, <2>3, RowKeeps
<1>3. QED
  BY <1>1, <1>2 DEF TelemetryNext, CreateGeofence, RegisterDevice, TakeReading, RestartIot,
     PostReading, EmitAlert, EvaluateGeofence, FailStore

-----------------------------------------------------------------------------
(* Purchase orders.  The rows of an order's outbox add up to it, because the update
   of an order and its row commit together; every event sent, and every one about to
   be sent, has a row; what was read fits what is done with it; and only the process
   that has the partition can insert an order that is not late, while there is no
   other such order. *)

OrderRow == [status : POStatus, by : {"api", "erp", "late"}, shipped : Nat, received : Nat,
             stamps : SUBSET UNION {Stamps(e) : e \in Events}, edits : Nat, flagged : BOOLEAN]

OrderWork == [op : {"none", "event", "edit", "create", "send"}, order : Orders \cup {"none"},
              row : PO_TRANSITIONS \cup {<<>>}, read : POStatus \cup {"none"}, qty : {0, 1},
              term : Nat]

OutboxRow == PO_TRANSITIONS \X {0, 1}

(* What a request or the consumer is at: an event applies to the status it read, an
   edit read one that is not terminal. *)
WorkFits(q, j) ==
    /\ j \in OrderWork
    /\ j.op \in {"event", "edit", "send"} => j.order \in Orders /\ order[j.order] # NoOrder
    /\ j.op = "event" => j.row \in PO_TRANSITIONS /\ j.row[1] = j.read
    /\ j.op = "edit" => j.read \notin TERMINAL
    /\ j.op = "create" => q \in Erp

(* A consumer that looked for the number since the last rebalance. *)
CreateFits(q, j) ==
    /\ j.term <= rebalances
    /\ (j.op = "create" /\ j.term = rebalances) =>
          /\ q = owner
          /\ \A p \in Orders : order[p] # NoOrder => order[p].by # "erp"

SendersOf(w, p) == {q \in Requests \cup Erp : w[q].op = "send" /\ w[q].order = p}

(* Of an outbox: what its rows add up to. *)
Counted(o, kinds) ==
    Cardinality({i \in DOMAIN o : o[i][1][2] \in kinds /\ o[i][2] = 1})
Stamped(o) == UNION {Stamps(o[i][1][2]) : i \in DOMAIN o}
Resolved(o) == \E i \in DOMAIN o : o[i][1][2] = "resolve"

(* The row r of an order and its outbox o. *)
AddsUp(r, o) ==
    /\ r.status = IF o = <<>> THEN "draft" ELSE o[Len(o)][1][3]
    /\ r.shipped = Counted(o, Ships)
    /\ r.received = Counted(o, Events \ Ships)
    /\ r.stamps = Stamped(o)

(* An order that is not there has no rows; events sent and about to be sent have
   theirs. *)
Balanced(r, o, n, S) ==
    /\ IF r = NoOrder THEN o = <<>> ELSE AddsUp(r, o)
    /\ IsFiniteSet(S) /\ n + Cardinality(S) <= Len(o)

OrdersTyped ==
    /\ order \in [Orders -> OrderRow \cup {NoOrder}]
    /\ outbox \in [Orders -> Seq(OutboxRow)]
    /\ sent \in [Orders -> Nat]
    /\ work \in [Requests \cup Erp -> OrderWork]
    /\ orderCalls \in 0..MaxOrderCalls /\ offset \in 0..Len(ErpLog)
    /\ owner \in Erp /\ rebalances \in 0..MaxOrderCalls

WorksFit == \A q \in Requests \cup Erp : WorkFits(q, work[q])

CreatesFit == \A q \in Requests \cup Erp : CreateFits(q, work[q])

Books == \A p \in Orders : Balanced(order[p], outbox[p], sent[p], SendersOf(work, p))

OrdersInv == OrdersTyped /\ WorksFit /\ CreatesFit /\ Books /\ ErpOrderOnce

LEMMA TransitionFacts ==
    ASSUME NEW t \in PO_TRANSITIONS
    PROVE  /\ t[1] \in POStatus /\ t[3] \in POStatus /\ t[2] \in Events
           /\ t[1] # "none" /\ t[3] # "none"
           /\ t[3] = "received" => t[2] \in {"receive_complete", "resolve"}
           /\ t[1] \in TERMINAL => t[1] = "received" /\ t[3] = "disputed"
<1>1. t[1] \in POStatus /\ t[3] \in POStatus /\ t[2] \in Events BY DEF POStatus, Events
<1>2. t[3] = "received" => t[2] \in {"receive_complete", "resolve"} BY DEF PO_TRANSITIONS
<1>3. t[1] \in TERMINAL => t[1] = "received" /\ t[3] = "disputed" BY DEF PO_TRANSITIONS, TERMINAL
<1>4. t[1] # "none" /\ t[3] # "none" BY DEF PO_TRANSITIONS
<1>5. QED BY <1>1, <1>2, <1>3, <1>4

LEMMA StatusReal == "none" \notin POStatus /\ NoOrder \notin OrderRow /\ "draft" \in POStatus
<1>1. "none" \notin POStatus BY TransitionFacts DEF POStatus
<1>2. NoOrder.status = "none" BY DEF NoOrder
<1>3. "draft" \in POStatus BY DEF POStatus, PO_TRANSITIONS
<1>4. QED BY <1>1, <1>2, <1>3 DEF OrderRow

LEMMA NothingCounted ==
    ASSUME NEW o, \A i \in DOMAIN o : o[i][2] # 1, NEW kinds
    PROVE  Counted(o, kinds) = 0
<1>1. {i \in DOMAIN o : o[i][1][2] \in kinds /\ o[i][2] = 1} = {} OBVIOUS
<1>2. QED BY <1>1, FS_EmptySet DEF Counted

(* A row is appended. *)
CountsRow(o, a, kinds, t, n) ==
    /\ Counted(o, kinds) \in Nat
    /\ Counted(a, kinds) = IF t[2] \in kinds THEN Counted(o, kinds) + n ELSE Counted(o, kinds)

LEMMA CountAppended ==
    ASSUME NEW o \in Seq(OutboxRow), NEW t \in PO_TRANSITIONS, NEW n \in {0, 1}, NEW kinds,
           NEW a, a = Append(o, <<t, n>>)
    PROVE  CountsRow(o, a, kinds, t, n)
<1>1. PICK l \in Nat : l = Len(o) /\ DOMAIN o = 1..l OBVIOUS
<1>3. /\ DOMAIN a = 1..(l + 1) /\ a[l + 1] = <<t, n>> /\ \A i \in 1..l : a[i] = o[i]
  <2>1. Len(a) = l + 1 /\ a \in Seq(OutboxRow)
    <3>1. <<t, n>> \in OutboxRow BY DEF OutboxRow
    <3>2. QED BY <1>1, <3>1
  <2>2. a[l + 1] = <<t, n>> BY <1>1
  <2>3. \A i \in 1..l : a[i] = o[i] BY <1>1
  <2>4. QED BY <2>1, <2>2, <2>3
<1>4. PICK S : S = {i \in DOMAIN o : o[i][1][2] \in kinds /\ o[i][2] = 1} OBVIOUS
<1>5. PICK A : A = {i \in DOMAIN a : a[i][1][2] \in kinds /\ a[i][2] = 1} OBVIOUS
<1>6. IsFiniteSet(S) /\ l + 1 \notin S
  <2>1. S \subseteq 1..l /\ IsFiniteSet(1..l) BY <1>1, <1>4, FS_Interval
  <2>2. l + 1 \notin 1..l BY <1>1
  <2>3. QED BY <2>1, <2>2, FS_Subset
<1>7. A = IF t[2] \in kinds /\ n = 1 THEN S \cup {l + 1} ELSE S
  <2>1. \A i : i \in 1..(l + 1) <=> i = l + 1 \/ i \in 1..l BY <1>1
  <2>2. \A i : i \in A <=> (i = l + 1 /\ t[2] \in kinds /\ n = 1) \/ i \in S
    BY <1>1, <1>3, <1>4, <1>5, <2>1
  <2>3. QED BY <2>2
<1>8. Cardinality(S \cup {l + 1}) = Cardinality(S) + 1 BY <1>6, FS_AddElement
<1>9. Cardinality(S) \in Nat BY <1>6, FS_CardinalityType
<1>10. Counted(o, kinds) = Cardinality(S) /\ Counted(a, kinds) = Cardinality(A)
  BY <1>4, <1>5 DEF Counted
<1>11. QED BY <1>7, <1>8, <1>9, <1>10 DEF CountsRow

LEMMA StampAppended ==
    ASSUME NEW o \in Seq(OutboxRow), NEW t \in PO_TRANSITIONS, NEW n \in {0, 1}
    PROVE  Stamped(Append(o, <<t, n>>)) = Stamped(o) \cup Stamps(t[2])
<1>1. PICK l \in Nat : l = Len(o) /\ DOMAIN o = 1..l OBVIOUS
<1>2. PICK a : a = Append(o, <<t, n>>) OBVIOUS
<1>3. /\ DOMAIN a = 1..(l + 1) /\ a[l + 1] = <<t, n>> /\ \A i \in 1..l : a[i] = o[i]
  <2>1. Len(a) = l + 1 /\ a \in Seq(OutboxRow)
    <3>1. <<t, n>> \in OutboxRow BY DEF OutboxRow
    <3>2. QED BY <1>1, <1>2, <3>1
  <2>2. a[l + 1] = <<t, n>> BY <1>1, <1>2
  <2>3. \A i \in 1..l : a[i] = o[i] BY <1>1, <1>2
  <2>4. QED BY <2>1, <2>2, <2>3
<1>4. \A i : i \in 1..(l + 1) <=> i = l + 1 \/ i \in 1..l BY <1>1
<1>5. \A x : x \in Stamped(a) <=> x \in Stamped(o) \/ x \in Stamps(t[2])
  BY <1>1, <1>3, <1>4 DEF Stamped
<1>6. QED BY <1>2, <1>5

(* The update of an order and the row of its outbox go together. *)
LEMMA TellsApplied ==
    ASSUME NEW r \in OrderRow, NEW o \in Seq(OutboxRow), AddsUp(r, o),
           NEW t \in PO_TRANSITIONS, NEW n \in {0, 1}
    PROVE  /\ Applied(r, t, n) \in OrderRow
           /\ Append(o, <<t, n>>) \in Seq(OutboxRow)
           /\ AddsUp(Applied(r, t, n), Append(o, <<t, n>>))
           /\ Applied(r, t, n).by = r.by
           /\ Len(Append(o, <<t, n>>)) = Len(o) + 1
<1>1. PICK a : a = Append(o, <<t, n>>) OBVIOUS
<1>2. <<t, n>> \in OutboxRow BY DEF OutboxRow
<1>3. a \in Seq(OutboxRow) /\ Len(a) = Len(o) + 1 /\ a[Len(a)] = <<t, n>> /\ a # <<>>
  BY <1>1, <1>2
<1>4. PICK z : z = Applied(r, t, n) OBVIOUS
<1>5. PICK sh \in Nat : sh = IF t[2] \in Ships THEN r.shipped + n ELSE r.shipped
  BY DEF OrderRow
<1>6. PICK rc \in Nat : rc = IF t[2] \in Ships THEN r.received ELSE r.received + n
  BY DEF OrderRow
<1>7. PICK st : st = r.stamps \cup Stamps(t[2]) OBVIOUS
<1>8. z = [[[[r EXCEPT !.status = t[3]] EXCEPT !.stamps = st]
              EXCEPT !.shipped = sh] EXCEPT !.received = rc]
  BY <1>4, <1>5, <1>6, <1>7 DEF Applied, OrderRow
<1>9. t[2] \in Events /\ t[3] \in POStatus BY TransitionFacts
<1>10. st \in SUBSET UNION {Stamps(e) : e \in Events} BY <1>7, <1>9 DEF OrderRow
<1>11. z \in OrderRow BY <1>8, <1>9, <1>10 DEF OrderRow
<1>12. z.status = t[3] /\ z.shipped = sh /\ z.received = rc /\ z.stamps = st /\ z.by = r.by
  BY <1>8 DEF OrderRow
<1>13. sh = Counted(a, Ships) /\ rc = Counted(a, Events \ Ships)
  <2>1. CountsRow(o, a, Ships, t, n) BY <1>1, CountAppended
  <2>2. CountsRow(o, a, Events \ Ships, t, n) BY <1>1, CountAppended
  <2>3. r.shipped = Counted(o, Ships) /\ r.received = Counted(o, Events \ Ships) BY DEF AddsUp
  <2>4. sh = Counted(a, Ships) BY <1>5, <2>1, <2>3 DEF CountsRow
  <2>5. t[2] \in Events \ Ships <=> ~(t[2] \in Ships) BY <1>9
  <2>6. rc = Counted(a, Events \ Ships) BY <1>6, <2>2, <2>3, <2>5 DEF CountsRow
  <2>7. QED BY <2>4, <2>6
<1>14. st = Stamped(a) BY <1>1, <1>7, StampAppended DEF AddsUp
<1>15. a[Len(a)][1][3] = t[3] BY <1>3
<1>16. AddsUp(z, a) BY <1>3, <1>12, <1>13, <1>14, <1>15 DEF AddsUp
<1>17. QED BY <1>1, <1>3, <1>4, <1>11, <1>12, <1>16

(* One of those at work goes on to j. *)
LEMMA SendersMove ==
    ASSUME NEW w, NEW v, NEW q \in Requests \cup Erp, NEW j, NEW p,
           \A x \in Requests \cup Erp : v[x] = IF x = q THEN j ELSE w[x]
    PROVE  /\ ~(j.op = "send" /\ j.order = p) => SendersOf(v, p) = SendersOf(w, p) \ {q}
           /\ j.op = "send" /\ j.order = p => SendersOf(v, p) = SendersOf(w, p) \cup {q}
BY DEF SendersOf

LEMMA FewerSenders ==
    ASSUME NEW r, NEW o \in Seq(OutboxRow), NEW n \in Nat, NEW S, Balanced(r, o, n, S),
           NEW T \in SUBSET S
    PROVE  Balanced(r, o, n, T)
<1>1. IsFiniteSet(S) /\ n + Cardinality(S) <= Len(o) BY DEF Balanced
<1>2. /\ IsFiniteSet(T) /\ Cardinality(T) <= Cardinality(S)
      /\ Cardinality(T) \in Nat /\ Cardinality(S) \in Nat
  BY <1>1, FS_Subset, FS_CardinalityType
<1>3. Len(o) \in Nat OBVIOUS
<1>4. n + Cardinality(T) <= Len(o) BY <1>1, <1>2, <1>3
<1>5. QED BY <1>2, <1>4 DEF Balanced

(* A step of one of them that leaves orders and outboxes alone, but the send. *)
LEMMA WorkKeeps ==
    ASSUME OrdersInv, NEW q \in Requests \cup Erp, NEW j, WorkFits(q, j), CreateFits(q, j), j.op # "send",
           work' = [work EXCEPT ![q] = j], UNCHANGED <<order, outbox, sent>>,
           orderCalls' \in 0..MaxOrderCalls, offset' \in 0..Len(ErpLog),
           UNCHANGED <<owner, rebalances>>
    PROVE  OrdersInv'
<1>a. OrdersTyped /\ WorksFit /\ CreatesFit /\ Books /\ ErpOrderOnce BY DEF OrdersInv
<1>b. j \in OrderWork BY DEF WorkFits
<1>1. OrdersTyped' BY <1>a, <1>b DEF OrdersTyped
<1>2. WorksFit'
  <2>1. ASSUME NEW x \in Requests \cup Erp PROVE WorkFits(x, work[x])'
    <3>1. work'[x] = IF x = q THEN j ELSE work[x] BY <1>a DEF OrdersTyped
    <3>2. WorkFits(x, work'[x]) BY <1>a, <3>1 DEF WorksFit
    <3>3. QED BY <3>2 DEF WorkFits
  <2>2. QED BY <2>1 DEF WorksFit
<1>3. Books'
  <2>1. ASSUME NEW p \in Orders
        PROVE  Balanced(order'[p], outbox'[p], sent'[p], SendersOf(work', p))
    <3>1. PICK S, T : S = SendersOf(work, p) /\ T = SendersOf(work', p) OBVIOUS
    <3>2. T = S \ {q}
      <4>1. PICK w, v : w = work /\ v = work' OBVIOUS
      <4>2. \A x \in Requests \cup Erp : v[x] = IF x = q THEN j ELSE w[x]
        BY <1>a, <4>1 DEF OrdersTyped
      <4>3. ~(j.op = "send" /\ j.order = p) OBVIOUS
      <4>4. SendersOf(v, p) = SendersOf(w, p) \ {q} BY <4>2, <4>3, SendersMove
      <4>5. QED BY <3>1, <4>1, <4>4
    <3>3. Balanced(order[p], outbox[p], sent[p], S) BY <1>a, <3>1 DEF Books
    <3>4. outbox[p] \in Seq(OutboxRow) /\ sent[p] \in Nat BY <1>a DEF OrdersTyped
    <3>5. QED BY <3>1, <3>2, <3>3, <3>4, FewerSenders
  <2>2. QED BY <2>1 DEF Books
<1>4. ErpOrderOnce' BY <1>a DEF ErpOrderOnce
<1>5. CreatesFit'
  <2>1. ASSUME NEW x \in Requests \cup Erp PROVE CreateFits(x, work[x])'
    <3>1. work'[x] = IF x = q THEN j ELSE work[x] BY <1>a DEF OrdersTyped
    <3>2. CreateFits(x, work'[x]) BY <1>a, <3>1 DEF CreatesFit
    <3>3. QED BY <3>2 DEF CreateFits
  <2>2. QED BY <2>1 DEF CreatesFit
<1>6. QED BY <1>1, <1>2, <1>3, <1>4, <1>5 DEF OrdersInv

LEMMA NothingKeeps ==
    ASSUME OrdersInv, UNCHANGED <<order, outbox, sent, work>>,
           orderCalls' \in 0..MaxOrderCalls, offset' \in 0..Len(ErpLog),
           UNCHANGED <<owner, rebalances>>
    PROVE  OrdersInv'
BY DEF OrdersInv, OrdersTyped, WorksFit, WorkFits, CreatesFit, CreateFits, Books, ErpOrderOnce

LEMMA IdleFits == \A q \in Requests \cup Erp : WorkFits(q, NoWork) /\ NoWork.op = "none"
BY DEF WorkFits, OrderWork, NoWork

LEMMA IdleCreates == ASSUME OrdersTyped PROVE \A q : CreateFits(q, NoWork)
<1>1. rebalances \in Nat BY OrderAssumption DEF OrdersTyped
<1>2. NoWork.term = 0 /\ NoWork.op = "none" BY DEF NoWork
<1>3. QED BY <1>1, <1>2 DEF CreateFits

LEMMA InitOrders == OrdersInit => OrdersInv
<1> SUFFICES ASSUME OrdersInit PROVE OrdersInv OBVIOUS
<1>1. WorksFit /\ work \in [Requests \cup Erp -> OrderWork]
  BY IdleFits DEF WorksFit, WorkFits, OrdersInit
<1>2. ASSUME NEW p \in Orders PROVE SendersOf(work, p) = {}
  BY IdleFits DEF SendersOf, OrdersInit
<1>3. IsFiniteSet({}) /\ Cardinality({}) = 0 BY FS_EmptySet
<1>4. orderCalls \in 0..MaxOrderCalls /\ offset \in 0..Len(ErpLog)
      /\ owner \in Erp /\ rebalances \in 0..MaxOrderCalls
  BY OrderAssumption, OrderInputAssumption DEF OrdersInit
<1>5. ASSUME NEW p \in Orders, order[p] = NoOrder, outbox[p] = <<>>
      PROVE  /\ outbox[p] \in Seq(OutboxRow)
             /\ Balanced(order[p], outbox[p], 0, SendersOf(work, p))
  <2>1. outbox[p] \in Seq(OutboxRow) BY <1>5
  <2>2. Len(outbox[p]) = 0 BY <1>5
  <2>3. 0 + Cardinality(SendersOf(work, p)) <= Len(outbox[p]) 
    <3>1. PICK c : c = Cardinality(SendersOf(work, p)) OBVIOUS
    <3>2. c = 0 BY <1>2, <1>3, <3>1
    <3>3. 0 + c <= Len(outbox[p]) BY <2>2, <3>2
    <3>4. QED BY <3>1, <3>3
  <2>4. IsFiniteSet(SendersOf(work, p)) BY <1>2, <1>3
  <2>5. QED BY <1>5, <2>1, <2>3, <2>4 DEF Balanced
<1>6. sent \in [Orders -> Nat] /\ \A p \in Orders : sent[p] = 0 BY DEF OrdersInit
<1>7. CASE order = [p \in Orders |-> NoOrder] /\ outbox = [p \in Orders |-> <<>>]
  <2>1. \A p \in Orders : order[p] = NoOrder /\ outbox[p] = <<>> BY <1>7
  <2>2. OrdersTyped BY <1>1, <1>4, <1>5, <1>6, <1>7, <2>1 DEF OrdersTyped
  <2>3. Books BY <1>5, <1>6, <2>1 DEF Books
  <2>4. ErpOrderOnce BY <2>1 DEF ErpOrderOnce
  <2>5. CreatesFit BY <2>2, IdleCreates DEF CreatesFit, OrdersInit
  <2>6. QED BY <1>1, <2>2, <2>3, <2>4, <2>5 DEF OrdersInv
<1>8. ASSUME NEW first \in Orders, NEW past \in Pasts,
             order = [p \in Orders |-> IF p # first THEN NoOrder ELSE Changed(past)],
             outbox = [p \in Orders |-> IF p # first THEN <<>>
                   ELSE [i \in DOMAIN past |-> <<past[i], 0>>]]
      PROVE  OrdersInv
  <2>1. PICK o : o = [i \in DOMAIN past |-> <<past[i], 0>>] OBVIOUS
  <2>2. past \in Seq(PO_TRANSITIONS) BY OrderInputAssumption
  <2>3. PICK l \in Nat : l = Len(past) /\ DOMAIN past = 1..l BY <2>2
  <2>4. \A i \in 1..l : past[i] \in PO_TRANSITIONS BY <2>2, <2>3
  <2>5. o \in Seq(OutboxRow) /\ Len(o) = l /\ DOMAIN o = 1..l
    <3>1. o = [i \in 1..l |-> <<past[i], 0>>] BY <2>1, <2>3
    <3>2. \A i \in 1..l : o[i] \in OutboxRow BY <2>4, <3>1 DEF OutboxRow
    <3>3. QED BY <3>1, <3>2
  <2>6. \A i \in 1..l : o[i][1] = past[i] /\ o[i][2] = 0 BY <2>1, <2>3
  <2>7. o = <<>> <=> past = <<>> BY <2>2, <2>3, <2>5
  <2>8. Counted(o, Ships) = 0 /\ Counted(o, Events \ Ships) = 0
    BY <2>5, <2>6, NothingCounted
  <2>9. PICK r : r = Changed(past) OBVIOUS
  <2>10. PICK st : st = UNION {Stamps(past[i][2]) : i \in DOMAIN past} OBVIOUS
  <2>11. st = Stamped(o) BY <2>3, <2>5, <2>6, <2>10 DEF Stamped
  <2>12. PICK now : now = IF past = <<>> THEN "draft" ELSE past[Len(past)][3] OBVIOUS
  <2>13. r = [status |-> now, by |-> "api", shipped |-> 0, received |-> 0,
              stamps |-> st, edits |-> 0, flagged |-> FALSE]
    BY <2>9, <2>10, <2>12 DEF Changed, Draft
  <2>14. now \in POStatus
    <3>1. CASE past = <<>> BY <2>12, <3>1, StatusReal
    <3>2. CASE past # <<>>
      <4>1. l \in 1..l BY <2>2, <2>3, <3>2
      <4>2. QED BY <2>3, <2>4, <2>12, <3>2, <4>1, TransitionFacts
    <3>3. QED BY <3>1, <3>2
  <2>15. st \in SUBSET UNION {Stamps(e) : e \in Events}
    <3>1. \A i \in 1..l : past[i][2] \in Events BY <2>4, TransitionFacts
    <3>2. QED BY <2>3, <2>10, <3>1
  <2>16. r \in OrderRow BY <2>13, <2>14, <2>15 DEF OrderRow
  <2>17. AddsUp(r, o)
    <3>1. r.status = IF o = <<>> THEN "draft" ELSE o[Len(o)][1][3]
      <4>1. CASE past = <<>> BY <2>7, <2>12, <2>13, <4>1
      <4>2. CASE past # <<>>
        <5>1. l \in 1..l BY <2>2, <2>3, <4>2
        <5>2. QED BY <2>3, <2>5, <2>6, <2>7, <2>12, <2>13, <4>2, <5>1
      <4>3. QED BY <4>1, <4>2
    <3>2. QED BY <2>8, <2>11, <2>13, <3>1 DEF AddsUp
  <2>18. ASSUME NEW p \in Orders
         PROVE  /\ order[p] \in OrderRow \cup {NoOrder} /\ outbox[p] \in Seq(OutboxRow)
                /\ Balanced(order[p], outbox[p], 0, SendersOf(work, p))
    <3>1. CASE p # first BY <1>5, <1>8, <3>1
    <3>2. CASE p = first
      <4>1. order[p] = r /\ outbox[p] = o BY <1>8, <2>1, <2>9, <3>2
      <4>2. PICK S : S = SendersOf(work, p) OBVIOUS
      <4>3. IsFiniteSet(S) /\ Cardinality(S) = 0 BY <1>2, <1>3, <4>2
      <4>4. 0 + Cardinality(S) <= Len(o) BY <2>3, <2>5, <4>3
      <4>5. r # NoOrder BY <2>16, StatusReal
      <4>6. Balanced(r, o, 0, S) BY <2>17, <4>3, <4>4, <4>5 DEF Balanced
      <4>7. QED BY <2>5, <2>16, <4>1, <4>2, <4>6
    <3>3. QED BY <3>1, <3>2
  <2>19. OrdersTyped BY <1>1, <1>4, <1>6, <1>8, <2>18 DEF OrdersTyped
  <2>20. Books BY <1>6, <2>18 DEF Books
  <2>21. ErpOrderOnce BY <1>8 DEF ErpOrderOnce
  <2>22. CreatesFit BY <2>19, IdleCreates DEF CreatesFit, OrdersInit
  <2>23. QED BY <1>1, <2>19, <2>20, <2>21, <2>22 DEF OrdersInv
<1>9. QED BY <1>7, <1>8 DEF OrdersInit

(* Orders stay, and a new one is not the ERP's, unless it is late. *)
OrdersStay ==
    \A p \in Orders :
        /\ order[p] # NoOrder => order'[p] # NoOrder
        /\ order'[p] # NoOrder =>
              order'[p].by # "erp" \/ (order[p] # NoOrder /\ order'[p].by = order[p].by)

(* Nobody looks for the number. *)
NoneReads ==
    \A q \in Requests \cup Erp :
        CreateFits(q, work'[q]) /\ (work'[q].op = "create" => work'[q] = work[q])

LEMMA StayKeeps ==
    ASSUME OrdersInv, OrdersTyped', Books', OrdersStay, NoneReads,
           UNCHANGED <<owner, rebalances>>,
           \A q \in Requests \cup Erp : WorkFits(q, work'[q])
    PROVE  OrdersInv'
<1>1. ASSUME NEW q \in Requests \cup Erp PROVE WorkFits(q, work[q])'
  <2>1. PICK j : j = work'[q] OBVIOUS
  <2>2. WorkFits(q, j) BY <2>1
  <2>3. j.op \in {"event", "edit", "send"} => j.order \in Orders /\ order'[j.order] # NoOrder
    BY <2>2 DEF WorkFits, OrdersStay
  <2>4. QED BY <2>1, <2>2, <2>3 DEF WorkFits
<1>2. ErpOrderOnce'
  <2>1. ASSUME NEW p \in Orders, NEW r \in Orders, p # r,
               order'[p] # NoOrder, order'[r] # NoOrder,
               order'[p].by = "erp", order'[r].by = "erp"
        PROVE  FALSE
    <3>1. order[p] # NoOrder /\ order[r] # NoOrder
          /\ order'[p].by = order[p].by /\ order'[r].by = order[r].by
      BY <2>1 DEF OrdersStay
    <3>2. ~(order[p].by = "erp" /\ order[r].by = "erp")
      BY <2>1, <3>1 DEF OrdersInv, ErpOrderOnce
    <3>3. QED BY <2>1, <3>1, <3>2
  <2>2. QED BY <2>1 DEF ErpOrderOnce
<1>3. ASSUME NEW q \in Requests \cup Erp PROVE CreateFits(q, work[q])'
  <2>1. PICK j : j = work'[q] OBVIOUS
  <2>2. CreateFits(q, j) /\ (j.op = "create" => j = work[q]) BY <2>1 DEF NoneReads
  <2>3. ASSUME j.op = "create", j.term = rebalances, NEW p \in Orders, order'[p] # NoOrder
        PROVE  order'[p].by # "erp"
    <3>1. order[p] # NoOrder => order[p].by # "erp" BY <2>2, <2>3 DEF CreateFits
    <3>2. QED BY <2>3, <3>1 DEF OrdersStay
  <2>4. QED BY <2>1, <2>2, <2>3 DEF CreateFits
<1>4. QED BY <1>1, <1>2, <1>3 DEF OrdersInv, WorksFit, CreatesFit

LEMMA EndsRead ==
    ASSUME OrdersInv,
           \A x \in Requests \cup Erp : work'[x] = work[x] \/ work'[x] = NoWork
    PROVE  NoneReads
<1>1. ASSUME NEW x \in Requests \cup Erp
      PROVE  CreateFits(x, work'[x]) /\ (work'[x].op = "create" => work'[x] = work[x])
  <2>1. CASE work'[x] = work[x]
    <3>1. CreateFits(x, work[x]) BY DEF OrdersInv, CreatesFit
    <3>2. QED BY <2>1, <3>1
  <2>2. CASE work'[x] = NoWork
    <3>1. CreateFits(x, NoWork) /\ NoWork.op = "none" BY IdleCreates DEF OrdersInv, NoWork
    <3>2. QED BY <2>2, <3>1
  <2>3. QED BY <2>1, <2>2
<1>2. QED BY <1>1 DEF NoneReads

LEMMA ApplyEventKeeps ==
    ASSUME OrdersInv, NEW q \in Requests \cup Erp, ApplyEvent(q)
    PROVE  OrdersInv'
<1>a. OrdersTyped /\ WorksFit /\ CreatesFit /\ Books BY DEF OrdersInv
<1>1. PICK j : j = work[q] OBVIOUS
<1>2. WorkFits(q, j) /\ j.op = "event" BY <1>a, <1>1 DEF WorksFit, ApplyEvent
<1>3. PICK p, t, n : p = j.order /\ t = j.row /\ n = j.qty OBVIOUS
<1>4. /\ j \in OrderWork /\ p \in Orders /\ order[p] # NoOrder
      /\ t \in PO_TRANSITIONS /\ n \in {0, 1}
  BY <1>2, <1>3 DEF WorkFits, OrderWork
<1>5. PICK r, o : r = order[p] /\ o = outbox[p] OBVIOUS
<1>6. r \in OrderRow /\ o \in Seq(OutboxRow) /\ AddsUp(r, o)
  BY <1>a, <1>4, <1>5 DEF OrdersTyped, Books, Balanced
<1>7. PICK z, a : z = Applied(r, t, n) /\ a = Append(o, <<t, n>>) OBVIOUS
<1>8. z \in OrderRow /\ a \in Seq(OutboxRow) /\ AddsUp(z, a) /\ z.by = r.by
      /\ Len(a) = Len(o) + 1
  BY <1>4, <1>6, <1>7, TellsApplied
<1>9. /\ order' = [order EXCEPT ![p] = z] /\ outbox' = [outbox EXCEPT ![p] = a]
      /\ sent' = sent /\ UNCHANGED <<orderCalls, groupVars>>
  BY <1>1, <1>3, <1>4, <1>5, <1>7 DEF ApplyEvent
<1>10. PICK k : k = [j EXCEPT !.op = "send"] OBVIOUS
<1>11. k \in OrderWork /\ k.op = "send" /\ k.order = p /\ k.term = j.term
  BY <1>3, <1>4, <1>10 DEF OrderWork
<1>12. work' = [work EXCEPT ![q] = k] BY <1>1, <1>10 DEF ApplyEvent
<1>13. OrdersTyped' BY <1>a, <1>4, <1>8, <1>9, <1>11, <1>12 DEF OrdersTyped, groupVars
<1>14. \A x \in Orders : order'[x] = (IF x = p THEN z ELSE order[x])
                          /\ outbox'[x] = (IF x = p THEN a ELSE outbox[x])
  BY <1>a, <1>9 DEF OrdersTyped
<1>15. z # NoOrder BY <1>8, StatusReal
<1>16. OrdersStay BY <1>4, <1>5, <1>8, <1>14, <1>15 DEF OrdersStay
<1>17. PICK w, v : w = work /\ v = work' OBVIOUS
<1>18. \A x \in Requests \cup Erp : v[x] = IF x = q THEN k ELSE w[x]
  BY <1>a, <1>12, <1>17 DEF OrdersTyped
<1>19. \A x \in Requests \cup Erp : WorkFits(x, work'[x])
  <2>1. WorkFits(q, k) BY <1>4, <1>11 DEF WorkFits
  <2>2. QED BY <1>a, <1>17, <1>18, <2>1 DEF WorksFit
<1>20. Books'
  <2>1. ASSUME NEW x \in Orders
        PROVE  Balanced(order'[x], outbox'[x], sent'[x], SendersOf(work', x))
    <3>1. Balanced(order[x], outbox[x], sent[x], SendersOf(w, x)) BY <1>a, <1>17 DEF Books
    <3>2. CASE x # p
      <4>1. SendersOf(v, x) \subseteq SendersOf(w, x)
        BY <1>11, <1>18, <3>2, SendersMove
      <4>2. outbox[x] \in Seq(OutboxRow) /\ sent[x] \in Nat BY <1>a DEF OrdersTyped
      <4>3. Balanced(order[x], outbox[x], sent[x], SendersOf(v, x))
        BY <3>1, <4>1, <4>2, FewerSenders
      <4>4. QED BY <1>9, <1>14, <1>17, <3>2, <4>3
    <3>3. CASE x = p
      <4>1. PICK S, T, m : S = SendersOf(w, p) /\ T = SendersOf(v, p) /\ m = sent[p] OBVIOUS
      <4>2. T = S \cup {q}
        <5>1. SendersOf(v, p) = SendersOf(w, p) \cup {q} BY <1>11, <1>18, SendersMove
        <5>2. QED BY <4>1, <5>1
      <4>3. q \notin S BY <1>1, <1>2, <1>17, <4>1 DEF SendersOf
      <4>4. IsFiniteSet(S) /\ m + Cardinality(S) <= Len(o)
        BY <1>5, <3>1, <3>3, <4>1 DEF Balanced
      <4>5. /\ IsFiniteSet(T) /\ Cardinality(T) = Cardinality(S) + 1
            /\ Cardinality(S) \in Nat
        BY <4>2, <4>3, <4>4, FS_AddElement, FS_CardinalityType
      <4>6. m \in Nat BY <1>a, <1>4, <4>1 DEF OrdersTyped
      <4>7. m + Cardinality(T) <= Len(a) BY <1>6, <1>8, <4>4, <4>5, <4>6
      <4>8. Balanced(z, a, m, T) BY <1>8, <1>15, <4>5, <4>7 DEF Balanced
      <4>9. QED BY <1>9, <1>14, <1>17, <3>3, <4>1, <4>8
    <3>4. QED BY <3>2, <3>3
  <2>2. QED BY <2>1 DEF Books
<1>21. NoneReads
  <2>1. CreateFits(q, k) BY <1>1, <1>a, <1>11 DEF CreatesFit, CreateFits
  <2>2. \A x \in Requests \cup Erp : CreateFits(x, work[x]) BY <1>a DEF CreatesFit
  <2>3. QED BY <1>11, <1>17, <1>18, <2>1, <2>2 DEF NoneReads
<1>22. UNCHANGED <<owner, rebalances>> BY <1>9 DEF groupVars
<1>23. QED BY <1>13, <1>16, <1>19, <1>20, <1>21, <1>22, StayKeeps

LEMMA SendEventKeeps ==
    ASSUME OrdersInv, NEW q \in Requests \cup Erp, SendEvent(q)
    PROVE  OrdersInv'
<1>a. OrdersTyped /\ WorksFit /\ Books BY DEF OrdersInv
<1>1. PICK p : p = work[q].order OBVIOUS
<1>2. PICK n \in {0, 1} : sent' = [sent EXCEPT ![p] = @ + n] BY <1>1 DEF SendEvent
<1>3. UNCHANGED <<order, outbox, orderCalls, groupVars>>
      /\ work' = [work EXCEPT ![q] = NoWork]
  BY DEF SendEvent
<1>4. p \in Orders BY <1>a, <1>1 DEF WorksFit, WorkFits, SendEvent
<1>5. NoWork \in OrderWork BY DEF NoWork, OrderWork
<1>6. OrdersTyped' BY <1>a, <1>2, <1>3, <1>4, <1>5 DEF OrdersTyped, groupVars
<1>7. OrdersStay BY <1>3 DEF OrdersStay
<1>8. PICK w, v : w = work /\ v = work' OBVIOUS
<1>9. \A x \in Requests \cup Erp : v[x] = IF x = q THEN NoWork ELSE w[x]
  BY <1>a, <1>3, <1>8 DEF OrdersTyped
<1>10. \A x \in Requests \cup Erp : WorkFits(x, work'[x])
  BY <1>a, <1>8, <1>9, IdleFits DEF WorksFit
<1>11. Books'
  <2>1. ASSUME NEW x \in Orders
        PROVE  Balanced(order'[x], outbox'[x], sent'[x], SendersOf(work', x))
    <3>1. PICK S, T, m : S = SendersOf(w, x) /\ T = SendersOf(v, x) /\ m = sent[x] OBVIOUS
    <3>2. T = S \ {q} BY <1>9, <3>1, IdleFits, SendersMove
    <3>3. Balanced(order[x], outbox[x], m, S) BY <1>a, <1>8, <3>1 DEF Books
    <3>4. m \in Nat /\ outbox[x] \in Seq(OutboxRow) BY <1>a, <3>1 DEF OrdersTyped
    <3>5. CASE x # p
      <4>1. Balanced(order[x], outbox[x], m, T) BY <3>2, <3>3, <3>4, FewerSenders
      <4>2. sent'[x] = m BY <1>a, <1>2, <3>1, <3>5 DEF OrdersTyped
      <4>3. QED BY <1>3, <1>8, <3>1, <4>1, <4>2
    <3>6. CASE x = p
      <4>1. sent'[x] = m + n BY <1>a, <1>2, <3>1, <3>6 DEF OrdersTyped
      <4>2. q \in S BY <1>1, <1>8, <3>1, <3>6 DEF SendersOf, SendEvent
      <4>3. IsFiniteSet(S) /\ m + Cardinality(S) <= Len(outbox[x]) BY <3>3 DEF Balanced
      <4>4. /\ IsFiniteSet(T) /\ Cardinality(T) = Cardinality(S) - 1
            /\ Cardinality(S) \in Nat
        BY <3>2, <4>2, <4>3, FS_RemoveElement, FS_CardinalityType
      <4>5. Len(outbox[x]) \in Nat BY <3>4
      <4>6. m + n + Cardinality(T) <= Len(outbox[x]) BY <3>4, <4>3, <4>4, <4>5
      <4>7. Balanced(order[x], outbox[x], m + n, T) BY <3>3, <4>4, <4>6 DEF Balanced
      <4>8. QED BY <1>3, <1>8, <3>1, <4>1, <4>7
    <3>7. QED BY <3>5, <3>6
  <2>2. QED BY <2>1 DEF Books
<1>12. NoneReads BY <1>8, <1>9, EndsRead
<1>13. UNCHANGED <<owner, rebalances>> BY <1>3 DEF groupVars
<1>14. QED BY <1>6, <1>7, <1>10, <1>11, <1>12, <1>13, StayKeeps

(* A step that changes no row's status, quantities or stamps. *)
SameBooks(r, s) ==
    /\ r = NoOrder <=> s = NoOrder
    /\ r # NoOrder =>
          /\ s.status = r.status /\ s.by = r.by /\ s.stamps = r.stamps
          /\ s.shipped = r.shipped /\ s.received = r.received

LEMMA HeaderKeeps ==
    ASSUME OrdersInv, order' \in [Orders -> OrderRow \cup {NoOrder}],
           \A p \in Orders : SameBooks(order[p], order'[p]),
           NEW q \in Requests \cup Erp,
           work' = work \/ (work' = [work EXCEPT ![q] = NoWork] /\ work[q].op # "send"),
           UNCHANGED <<outbox, sent, orderCalls, groupVars>>
    PROVE  OrdersInv'
<1>a. OrdersTyped /\ WorksFit /\ Books BY DEF OrdersInv
<1>b. NoWork \in OrderWork BY DEF NoWork, OrderWork
<1>1. OrdersTyped' BY <1>a, <1>b DEF OrdersTyped, groupVars
<1>2. OrdersStay BY DEF OrdersStay, SameBooks
<1>3. PICK w, v : w = work /\ v = work' OBVIOUS
<1>4. \A x \in Requests \cup Erp : v[x] = w[x] \/ v[x] = NoWork
  BY <1>a, <1>3 DEF OrdersTyped
<1>5. \A x \in Requests \cup Erp : WorkFits(x, work'[x])
  BY <1>a, <1>3, <1>4, IdleFits DEF WorksFit
<1>6. Books'
  <2>1. ASSUME NEW p \in Orders
        PROVE  Balanced(order'[p], outbox'[p], sent'[p], SendersOf(work', p))
    <3>1. PICK S, T, m, o, r, z :
            /\ S = SendersOf(w, p) /\ T = SendersOf(v, p) /\ m = sent[p] /\ o = outbox[p]
            /\ r = order[p] /\ z = order'[p]
      OBVIOUS
    <3>2. T \subseteq S BY <1>4, <3>1, IdleFits DEF SendersOf
    <3>3. Balanced(r, o, m, S) BY <1>a, <1>3, <3>1 DEF Books
    <3>4. m \in Nat /\ o \in Seq(OutboxRow) BY <1>a, <3>1 DEF OrdersTyped
    <3>5. Balanced(r, o, m, T) BY <3>2, <3>3, <3>4, FewerSenders
    <3>6. SameBooks(r, z) BY <3>1
    <3>7. Balanced(z, o, m, T) BY <3>5, <3>6 DEF Balanced, AddsUp, SameBooks
    <3>8. QED BY <1>3, <3>1, <3>7
  <2>2. QED BY <2>1 DEF Books
<1>7. NoneReads BY <1>3, <1>4, EndsRead
<1>8. UNCHANGED <<owner, rebalances>> BY DEF groupVars
<1>9. QED BY <1>1, <1>2, <1>5, <1>6, <1>7, <1>8, StayKeeps

LEMMA ApplyEditKeeps ==
    ASSUME OrdersInv, NEW q \in Requests \cup Erp, ApplyEdit(q)
    PROVE  OrdersInv'
<1>a. OrdersTyped /\ WorksFit BY DEF OrdersInv
<1>1. PICK p : p = work[q].order OBVIOUS
<1>2. p \in Orders /\ order[p] # NoOrder BY <1>a, <1>1 DEF WorksFit, WorkFits, ApplyEdit
<1>3. PICK r : r = order[p] OBVIOUS
<1>4. r \in OrderRow BY <1>a, <1>2, <1>3 DEF OrdersTyped
<1>5. PICK z : z = [r EXCEPT !.edits = r.edits + 1] OBVIOUS
<1>6. z \in OrderRow /\ z.status = r.status /\ z.by = r.by /\ z.stamps = r.stamps
      /\ z.shipped = r.shipped /\ z.received = r.received
  BY <1>4, <1>5 DEF OrderRow
<1>7. order' = [order EXCEPT ![p] = z] BY <1>1, <1>3, <1>5 DEF ApplyEdit
<1>8. SameBooks(r, z) BY <1>2, <1>3, <1>6, StatusReal DEF SameBooks
<1>9. \A x \in Orders : order'[x] = IF x = p THEN z ELSE order[x]
  BY <1>a, <1>7 DEF OrdersTyped
<1>10. \A x \in Orders : SameBooks(order[x], order'[x])
  <2>1. \A x \in Orders : SameBooks(order[x], order[x]) BY DEF SameBooks
  <2>2. QED BY <1>3, <1>8, <1>9, <2>1
<1>11. order' \in [Orders -> OrderRow \cup {NoOrder}] BY <1>a, <1>6, <1>7 DEF OrdersTyped
<1>12. work' = [work EXCEPT ![q] = NoWork] /\ work[q].op # "send"
       /\ UNCHANGED <<outbox, sent, orderCalls, groupVars>>
  BY DEF ApplyEdit
<1>13. QED BY <1>10, <1>11, <1>12, HeaderKeeps

LEMMA FlagOrdersKeeps == ASSUME OrdersInv, FlagOrders PROVE OrdersInv'
<1>a. OrdersTyped BY DEF OrdersInv
<1>1. ASSUME NEW p \in Orders
      PROVE  /\ order'[p] \in OrderRow \cup {NoOrder}
             /\ SameBooks(order[p], order'[p])
  <2>1. PICK r : r = order[p] OBVIOUS
  <2>2. CASE Editable(p)
    <3>1. r \in OrderRow BY <1>a, <2>1, <2>2 DEF OrdersTyped, Editable
    <3>2. PICK z : z = [r EXCEPT !.flagged = TRUE] OBVIOUS
    <3>3. z \in OrderRow /\ z.status = r.status /\ z.by = r.by /\ z.stamps = r.stamps
          /\ z.shipped = r.shipped /\ z.received = r.received
      BY <3>1, <3>2 DEF OrderRow
    <3>4. order'[p] = z BY <2>1, <2>2, <3>2 DEF FlagOrders
    <3>5. r # NoOrder /\ z # NoOrder BY <3>1, <3>3, StatusReal
    <3>6. QED BY <2>1, <3>3, <3>4, <3>5 DEF SameBooks
  <2>3. CASE ~Editable(p)
    <3>1. order'[p] = order[p] BY <2>3 DEF FlagOrders
    <3>2. QED BY <1>a, <3>1 DEF SameBooks, OrdersTyped
  <2>4. QED BY <2>2, <2>3
<1>2. order' \in [Orders -> OrderRow \cup {NoOrder}]
  <2>1. order' = [p \in Orders |-> order'[p]] BY DEF FlagOrders
  <2>2. QED BY <1>1, <2>1
<1>3. PICK c \in Requests \cup Erp : c = owner BY <1>a DEF OrdersTyped
<1>4. work' = work \/ (work' = [work EXCEPT ![c] = NoWork] /\ work[c].op # "send")
  BY DEF FlagOrders
<1>5. UNCHANGED <<outbox, sent, orderCalls, groupVars>> BY DEF FlagOrders
<1>6. \A p \in Orders : SameBooks(order[p], order'[p]) BY <1>1
<1>7. QED BY <1>2, <1>3, <1>4, <1>5, <1>6, HeaderKeeps

(* A new order: nothing was told of it. *)
LEMMA InsertFacts ==
    ASSUME OrdersInv, NEW p \in Orders, NEW by \in {"api", "erp", "late"}, InsertOrder(p, by),
           NEW q \in Requests \cup Erp,
           work' = work \/ (work' = [work EXCEPT ![q] = NoWork] /\ work[q].op # "send"),
           orderCalls' \in 0..MaxOrderCalls, UNCHANGED groupVars
    PROVE  /\ OrdersTyped' /\ Books'
           /\ \A x \in Orders : order'[x] = IF x = p THEN Draft(by) ELSE order[x]
           /\ Draft(by) # NoOrder /\ Draft(by).by = by
<1>a. OrdersTyped /\ WorksFit /\ Books BY DEF OrdersInv
<1>b. NoWork \in OrderWork BY DEF NoWork, OrderWork
<1>1. PICK z : z = Draft(by) OBVIOUS
<1>2. z \in OrderRow /\ z.by = by /\ z.status = "draft" /\ z.shipped = 0 /\ z.received = 0
      /\ z.stamps = {}
  BY <1>1, StatusReal DEF Draft, OrderRow
<1>3. z # NoOrder BY <1>2, StatusReal
<1>4. order' = [order EXCEPT ![p] = z] /\ UNCHANGED <<outbox, sent>> /\ order[p] = NoOrder
  BY <1>1 DEF InsertOrder
<1>5. OrdersTyped' BY <1>a, <1>b, <1>2, <1>4 DEF OrdersTyped, groupVars
<1>6. \A x \in Orders : order'[x] = IF x = p THEN z ELSE order[x]
  BY <1>a, <1>4 DEF OrdersTyped
<1>7. PICK w, v : w = work /\ v = work' OBVIOUS
<1>8. \A x \in Requests \cup Erp : v[x] = w[x] \/ v[x] = NoWork
  BY <1>a, <1>7 DEF OrdersTyped
<1>9. Books'
  <2>1. ASSUME NEW x \in Orders
        PROVE  Balanced(order'[x], outbox'[x], sent'[x], SendersOf(work', x))
    <3>1. PICK S, T, m, o : /\ S = SendersOf(w, x) /\ T = SendersOf(v, x)
                            /\ m = sent[x] /\ o = outbox[x]
      OBVIOUS
    <3>2. T \subseteq S BY <1>8, <3>1, IdleFits DEF SendersOf
    <3>3. Balanced(order[x], o, m, S) BY <1>a, <1>7, <3>1 DEF Books
    <3>4. m \in Nat /\ o \in Seq(OutboxRow) BY <1>a, <3>1 DEF OrdersTyped
    <3>5. Balanced(order[x], o, m, T) BY <3>2, <3>3, <3>4, FewerSenders
    <3>6. CASE x # p BY <1>4, <1>6, <1>7, <3>1, <3>5, <3>6
    <3>7. CASE x = p
      <4>1. order[x] = NoOrder BY <1>4, <3>7
      <4>2. o = <<>> /\ IsFiniteSet(T) /\ m + Cardinality(T) <= Len(o)
        BY <3>5, <4>1 DEF Balanced
      <4>3. DOMAIN o = {} BY <4>2
      <4>4. \A k : Counted(o, k) = 0 BY <4>3, NothingCounted
      <4>5. Stamped(o) = {} BY <4>3 DEF Stamped
      <4>6. AddsUp(z, o) BY <1>2, <4>2, <4>4, <4>5 DEF AddsUp
      <4>7. Balanced(z, o, m, T) BY <1>3, <4>2, <4>6 DEF Balanced
      <4>8. QED BY <1>4, <1>6, <1>7, <3>1, <3>7, <4>7
    <3>8. QED BY <3>6, <3>7
  <2>2. QED BY <2>1 DEF Books
<1>10. QED BY <1>1, <1>2, <1>3, <1>5, <1>6, <1>9

LEMMA CreateOrderKeeps ==
    ASSUME OrdersInv, NEW q \in Requests, NEW p \in Orders, CreateOrder(q, p)
    PROVE  OrdersInv'
<1>a. OrdersTyped /\ WorksFit BY DEF OrdersInv
<1>1. InsertOrder(p, "api") /\ work' = work /\ UNCHANGED groupVars
  BY DEF CreateOrder, Begin
<1>2. orderCalls' \in 0..MaxOrderCalls
  BY <1>a, OrderAssumption DEF OrdersTyped, CreateOrder, Begin
<1>3. /\ OrdersTyped' /\ Books'
      /\ \A x \in Orders : order'[x] = IF x = p THEN Draft("api") ELSE order[x]
      /\ Draft("api") # NoOrder /\ Draft("api").by = "api"
  <2>1. work' = work \/ (work' = [work EXCEPT ![q] = NoWork] /\ work[q].op # "send") BY <1>1
  <2>2. "api" \in {"api", "erp", "late"} /\ q \in Requests \cup Erp OBVIOUS
  <2>3. QED BY <1>1, <1>2, <2>1, <2>2, InsertFacts
<1>4. OrdersStay BY <1>3 DEF OrdersStay
<1>5. \A x \in Requests \cup Erp : WorkFits(x, work'[x]) BY <1>a, <1>1 DEF WorksFit
<1>6. NoneReads BY <1>1, EndsRead
<1>7. UNCHANGED <<owner, rebalances>> BY <1>1 DEF groupVars
<1>8. QED BY <1>3, <1>4, <1>5, <1>6, <1>7, StayKeeps

(* An order that is not late comes from the process that has the partition, and
   finds no other. *)
LEMMA CreateFromErpKeeps ==
    ASSUME OrdersInv, NEW c \in Erp, CreateFromErp(c) PROVE OrdersInv'
<1>a. OrdersTyped /\ WorksFit /\ CreatesFit /\ ErpOrderOnce BY DEF OrdersInv
<1>0. PICK by : by = IF work[c].term = rebalances THEN "erp" ELSE "late" OBVIOUS
<1>1. PICK p \in Orders : InsertOrder(p, by) BY <1>0 DEF CreateFromErp
<1>2. work' = [work EXCEPT ![c] = NoWork] /\ UNCHANGED <<orderCalls, groupVars>>
      /\ work[c].op = "create"
  BY DEF CreateFromErp
<1>b. UNCHANGED <<owner, rebalances>> BY <1>2 DEF groupVars
<1>3. PICK z : z = Draft(by) OBVIOUS
<1>4. /\ OrdersTyped' /\ Books'
      /\ \A x \in Orders : order'[x] = IF x = p THEN z ELSE order[x]
      /\ z # NoOrder /\ z.by = by
  <2>1. work' = work \/ (work' = [work EXCEPT ![c] = NoWork] /\ work[c].op # "send")
    BY <1>2
  <2>2. by \in {"api", "erp", "late"} /\ c \in Requests \cup Erp BY <1>0
  <2>3. orderCalls' \in 0..MaxOrderCalls BY <1>a, <1>2 DEF OrdersTyped
  <2>4. UNCHANGED groupVars BY <1>2
  <2>5. QED BY <1>1, <1>3, <2>1, <2>2, <2>3, <2>4, InsertFacts
<1>5. PICK w, v : w = work /\ v = work' OBVIOUS
<1>6. \A x \in Requests \cup Erp : v[x] = IF x = c THEN NoWork ELSE w[x]
  BY <1>a, <1>2, <1>5 DEF OrdersTyped
<1>7. \A x \in Requests \cup Erp : WorkFits(x, work'[x])
  BY <1>a, <1>5, <1>6, IdleFits DEF WorksFit
<1>8. NoneReads BY <1>5, <1>6, EndsRead
<1>9. CASE by # "erp"
  <2>1. order[p] = NoOrder BY <1>1 DEF InsertOrder
  <2>2. OrdersStay BY <1>4, <1>9 DEF OrdersStay
  <2>3. QED BY <1>4, <1>7, <1>8, <1>b, <2>2, StayKeeps
<1>10. CASE by = "erp"
  <2>1. /\ c = owner
        /\ \A x \in Orders : order[x] # NoOrder => order[x].by # "erp"
    BY <1>a, <1>0, <1>2, <1>10 DEF CreatesFit, CreateFits
  <2>2. ErpOrderOnce' BY <1>4, <2>1 DEF ErpOrderOnce
  <2>3. ASSUME NEW x \in Requests \cup Erp PROVE CreateFits(x, work[x])'
    <3>1. PICK j : j = work'[x] OBVIOUS
    <3>2. CreateFits(x, j) /\ (x = c => j = NoWork) BY <1>5, <1>6, <1>8, <3>1 DEF NoneReads
    <3>3. ~(j.op = "create" /\ j.term = rebalances)
      <4>1. SUFFICES ASSUME j.op = "create", j.term = rebalances PROVE FALSE OBVIOUS
      <4>2. x = c BY <2>1, <3>2, <4>1 DEF CreateFits
      <4>3. QED BY <3>2, <4>1, <4>2 DEF NoWork
    <3>4. QED BY <1>b, <3>1, <3>2, <3>3 DEF CreateFits
  <2>4. ASSUME NEW x \in Requests \cup Erp PROVE WorkFits(x, work[x])'
    <3>1. PICK j : j = work'[x] OBVIOUS
    <3>2. WorkFits(x, j) BY <1>7, <3>1
    <3>3. j.op \in {"event", "edit", "send"} => j.order \in Orders /\ order'[j.order] # NoOrder
      BY <1>4, <3>2 DEF WorkFits
    <3>4. QED BY <3>1, <3>2, <3>3 DEF WorkFits
  <2>5. QED BY <1>4, <2>2, <2>3, <2>4 DEF OrdersInv, WorksFit, CreatesFit
<1>11. QED BY <1>9, <1>10

(* What a request or the consumer has read fits. *)
LEMMA ReadsFit ==
    ASSUME OrdersInv, NEW q \in Requests \cup Erp, NEW p \in Orders, NEW n \in {0, 1}
    PROVE  /\ order[p].status \in POStatus \cup {"none"}
           /\ \A e : \A t \in Transitions(p, e) :
                 WorkFits(q, [op |-> "event", order |-> p, row |-> t,
                              read |-> order[p].status, qty |-> n, term |-> 0])
           /\ Editable(p) => WorkFits(q, [op |-> "edit", order |-> p, row |-> <<>>,
                              read |-> order[p].status, qty |-> 0, term |-> 0])
<1>1. PICK st : st = order[p].status OBVIOUS
<1>2. order[p] \in OrderRow \cup {NoOrder} BY DEF OrdersInv, OrdersTyped
<1>3. st \in POStatus \cup {"none"} BY <1>1, <1>2 DEF OrderRow, NoOrder
<1>4. ASSUME NEW e, NEW t \in Transitions(p, e)
      PROVE  WorkFits(q, [op |-> "event", order |-> p, row |-> t, read |-> st, qty |-> n,
                            term |-> 0])
  <2>1. t \in PO_TRANSITIONS /\ t[1] = st BY <1>1 DEF Transitions
  <2>2. order[p] # NoOrder BY <1>1, <2>1, TransitionFacts DEF NoOrder
  <2>3. PICK j : j = [op |-> "event", order |-> p, row |-> t, read |-> st, qty |-> n,
                      term |-> 0] OBVIOUS
  <2>4. j \in OrderWork BY <1>3, <2>1, <2>3 DEF OrderWork
  <2>5. j.op = "event" /\ j.order = p /\ j.row = t /\ j.read = st BY <2>3
  <2>6. WorkFits(q, j) BY <2>1, <2>2, <2>4, <2>5 DEF WorkFits
  <2>7. QED BY <2>3, <2>6
<1>5. ASSUME Editable(p)
      PROVE  WorkFits(q, [op |-> "edit", order |-> p, row |-> <<>>, read |-> st, qty |-> 0,
                            term |-> 0])
  <2>1. order[p] # NoOrder /\ st \notin TERMINAL BY <1>1, <1>5 DEF Editable
  <2>2. PICK j : j = [op |-> "edit", order |-> p, row |-> <<>>, read |-> st, qty |-> 0,
                      term |-> 0] OBVIOUS
  <2>3. j \in OrderWork BY <1>3, <2>2 DEF OrderWork
  <2>4. j.op = "edit" /\ j.order = p /\ j.read = st BY <2>2
  <2>5. WorkFits(q, j) BY <2>1, <2>3, <2>4 DEF WorkFits
  <2>6. QED BY <2>2, <2>5
<1>6. QED BY <1>1, <1>3, <1>4, <1>5

LEMMA RequestEventKeeps ==
    ASSUME OrdersInv, NEW q \in Requests, NEW p \in Orders, NEW e \in Events,
           NEW n \in {0, 1}, RequestEvent(q, p, e, n)
    PROVE  OrdersInv'
<1>a. OrdersTyped BY DEF OrdersInv
<1>1. PICK t \in Transitions(p, e) : HasRead(q, "event", p, t, n) BY DEF RequestEvent
<1>2. PICK j : j = [op |-> "event", order |-> p, row |-> t,
                    read |-> order[p].status, qty |-> n, term |-> 0] OBVIOUS
<1>3. q \in Requests \cup Erp OBVIOUS
<1>4. WorkFits(q, j) BY <1>2, <1>3, ReadsFit
<1>5. j.op # "send" /\ CreateFits(q, j)
  <2>1. j.op \notin {"send", "create"} /\ j.term = 0 BY <1>2
  <2>2. 0 <= rebalances BY <1>a, OrderAssumption DEF OrdersTyped
  <2>3. QED BY <2>1, <2>2 DEF CreateFits
<1>6. work' = [work EXCEPT ![q] = j] BY <1>1, <1>2 DEF HasRead
<1>7. /\ UNCHANGED <<order, outbox, sent>>
      /\ orderCalls' \in 0..MaxOrderCalls /\ offset' \in 0..Len(ErpLog)
      /\ UNCHANGED <<owner, rebalances>>
  BY <1>a, OrderAssumption DEF OrdersTyped, RequestEvent, Begin, groupVars
<1>8. QED BY <1>3, <1>4, <1>5, <1>6, <1>7, WorkKeeps

LEMMA RequestEditKeeps ==
    ASSUME OrdersInv, NEW q \in Requests, NEW p \in Orders, RequestEdit(q, p)
    PROVE  OrdersInv'
<1>a. OrdersTyped BY DEF OrdersInv
<1>1. Editable(p) /\ HasRead(q, "edit", p, <<>>, 0) BY DEF RequestEdit
<1>2. PICK j : j = [op |-> "edit", order |-> p, row |-> <<>>,
                    read |-> order[p].status, qty |-> 0, term |-> 0] OBVIOUS
<1>3. q \in Requests \cup Erp /\ 0 \in {0, 1} OBVIOUS
<1>4. WorkFits(q, j) BY <1>1, <1>2, <1>3, ReadsFit
<1>5. j.op # "send" /\ CreateFits(q, j)
  <2>1. j.op \notin {"send", "create"} /\ j.term = 0 BY <1>2
  <2>2. 0 <= rebalances BY <1>a, OrderAssumption DEF OrdersTyped
  <2>3. QED BY <2>1, <2>2 DEF CreateFits
<1>6. work' = [work EXCEPT ![q] = j] BY <1>1, <1>2 DEF HasRead
<1>7. /\ UNCHANGED <<order, outbox, sent>>
      /\ orderCalls' \in 0..MaxOrderCalls /\ offset' \in 0..Len(ErpLog)
      /\ UNCHANGED <<owner, rebalances>>
  BY <1>a, OrderAssumption DEF OrdersTyped, RequestEdit, Begin, groupVars
<1>8. QED BY <1>3, <1>4, <1>5, <1>6, <1>7, WorkKeeps

LEMMA FailWorkKeeps ==
    ASSUME OrdersInv, NEW q \in Requests \cup Erp, FailWork(q)
    PROVE  OrdersInv'
<1>a. OrdersTyped BY DEF OrdersInv
<1>1. WorkFits(q, NoWork) /\ NoWork.op # "send" /\ CreateFits(q, NoWork)
  BY <1>a, IdleFits, IdleCreates
<1>2. work' = [work EXCEPT ![q] = NoWork] /\ UNCHANGED <<order, outbox, sent>> BY DEF FailWork
<1>3. /\ orderCalls' \in 0..MaxOrderCalls /\ offset' \in 0..Len(ErpLog)
      /\ UNCHANGED <<owner, rebalances>>
  BY <1>a DEF OrdersTyped, FailWork, groupVars
<1>4. QED BY <1>1, <1>2, <1>3, WorkKeeps

(* Whoever looked for the number did so before the rebalance. *)
LEMMA RebalanceKeeps ==
    ASSUME OrdersInv, NEW stopped \in SUBSET Erp, NEW next \in Erp, Rebalance(stopped, next)
    PROVE  OrdersInv'
<1>a. OrdersTyped /\ WorksFit /\ CreatesFit /\ Books /\ ErpOrderOnce BY DEF OrdersInv
<1>b. NoWork \in OrderWork BY DEF NoWork, OrderWork
<1>1. UNCHANGED <<order, outbox, sent, orderCalls>> BY DEF Rebalance
<1>2. PICK n, m : n = rebalances /\ m = rebalances' OBVIOUS
<1>3. n \in Nat /\ m = n + 1 /\ m \in 0..MaxOrderCalls
  BY <1>a, <1>2, OrderAssumption DEF OrdersTyped, Rebalance
<1>4. owner' \in Erp /\ offset' \in 0..Len(ErpLog)
  <2>1. Len(ErpLog) \in Nat BY OrderInputAssumption
  <2>2. QED BY <2>1 DEF Rebalance
<1>5. PICK w, v : w = work /\ v = work' OBVIOUS
<1>6. v = [q \in Requests \cup Erp |-> IF q \in stopped THEN NoWork ELSE w[q]]
  BY <1>5 DEF Rebalance
<1>7. \A x \in Requests \cup Erp : v[x] = w[x] \/ v[x] = NoWork BY <1>6
<1>8. OrdersTyped'
  <2>1. v \in [Requests \cup Erp -> OrderWork] BY <1>a, <1>b, <1>5, <1>6 DEF OrdersTyped
  <2>2. QED BY <1>a, <1>1, <1>2, <1>3, <1>4, <1>5, <2>1 DEF OrdersTyped
<1>9. ASSUME NEW x \in Requests \cup Erp PROVE WorkFits(x, work[x])'
  <2>1. WorkFits(x, v[x]) BY <1>a, <1>5, <1>7, IdleFits DEF WorksFit
  <2>2. QED BY <1>1, <1>5, <2>1 DEF WorkFits
<1>10. ASSUME NEW x \in Requests \cup Erp PROVE CreateFits(x, work[x])'
  <2>1. PICK j : j = v[x] OBVIOUS
  <2>2. j \in OrderWork BY <1>5, <1>8, <2>1 DEF OrdersTyped
  <2>3. j.term <= n
    <3>1. CreateFits(x, w[x]) /\ CreateFits(x, NoWork)
      BY <1>a, <1>5, IdleCreates DEF CreatesFit
    <3>2. CreateFits(x, j) BY <1>7, <2>1, <3>1
    <3>3. QED BY <1>2, <3>2 DEF CreateFits
  <2>4. j.term <= m /\ j.term # m BY <1>3, <2>2, <2>3 DEF OrderWork
  <2>5. QED BY <1>2, <1>5, <2>1, <2>4 DEF CreateFits
<1>11. Books'
  <2>1. ASSUME NEW p \in Orders
        PROVE  Balanced(order'[p], outbox'[p], sent'[p], SendersOf(work', p))
    <3>1. PICK S, T : S = SendersOf(w, p) /\ T = SendersOf(v, p) OBVIOUS
    <3>2. T \subseteq S BY <1>7, <3>1, IdleFits DEF SendersOf
    <3>3. Balanced(order[p], outbox[p], sent[p], S) BY <1>a, <1>5, <3>1 DEF Books
    <3>4. outbox[p] \in Seq(OutboxRow) /\ sent[p] \in Nat BY <1>a DEF OrdersTyped
    <3>5. Balanced(order[p], outbox[p], sent[p], T) BY <3>2, <3>3, <3>4, FewerSenders
    <3>6. QED BY <1>1, <1>5, <3>1, <3>5
  <2>2. QED BY <2>1 DEF Books
<1>12. ErpOrderOnce' BY <1>a, <1>1 DEF ErpOrderOnce
<1>13. QED BY <1>8, <1>9, <1>10, <1>11, <1>12 DEF OrdersInv, WorksFit, CreatesFit

LEMMA TakeMessageKeeps ==
    ASSUME OrdersInv, NEW c \in Erp, NEW p \in Orders, TakeMessage(c, p) PROVE OrdersInv'
<1>a. OrdersTyped BY DEF OrdersInv
<1>b. c \in Requests \cup Erp /\ 0 \in {0, 1} OBVIOUS
<1>1. Len(ErpLog) \in Nat BY OrderInputAssumption
<1>2. /\ UNCHANGED <<order, outbox, sent>>
      /\ orderCalls' \in 0..MaxOrderCalls /\ offset' \in 0..Len(ErpLog)
      /\ UNCHANGED <<owner, rebalances>>
  BY <1>a, <1>1 DEF OrdersTyped, TakeMessage
<1>c. rebalances \in Nat /\ c = owner BY <1>a, OrderAssumption DEF OrdersTyped, TakeMessage
<1>3. CASE work' = work BY <1>2, <1>3, NothingKeeps
<1>4. CASE order[p] = NoOrder /\ ~Exists /\ HasRead(c, "create", p, <<>>, 0)
  <2>1. PICK j : j = [op |-> "create", order |-> p, row |-> <<>>, read |-> "none", qty |-> 0,
                      term |-> rebalances]
    OBVIOUS
  <2>2. work' = [work EXCEPT ![c] = j] BY <1>4, <2>1 DEF HasRead, NoOrder
  <2>3. j \in OrderWork /\ j.op = "create" /\ j.term = rebalances BY <1>c, <2>1 DEF OrderWork
  <2>4. WorkFits(c, j) BY <1>4, <2>3 DEF WorkFits
  <2>5. CreateFits(c, j) BY <1>c, <1>4, <2>3 DEF CreateFits, Exists
  <2>6. QED BY <1>b, <1>2, <2>2, <2>3, <2>4, <2>5, WorkKeeps
<1>5. ASSUME NEW e, NEW t \in Transitions(p, e), HasRead(c, "event", p, t, 0)
      PROVE  OrdersInv'
  <2>1. PICK j : j = [op |-> "event", order |-> p, row |-> t,
                      read |-> order[p].status, qty |-> 0, term |-> 0] OBVIOUS
  <2>2. WorkFits(c, j) BY <1>b, <2>1, ReadsFit
  <2>3. j.op \notin {"send", "create"} /\ j.term = 0 BY <2>1
  <2>4. CreateFits(c, j) BY <1>c, <2>3 DEF CreateFits
  <2>5. work' = [work EXCEPT ![c] = j] BY <1>5, <2>1 DEF HasRead
  <2>6. QED BY <1>b, <1>2, <2>2, <2>3, <2>4, <2>5, WorkKeeps
<1>6. QED BY <1>3, <1>4, <1>5 DEF TakeMessage

LEMMA OrdersStep == OrdersInv /\ [OrdersNext]_orderVars => OrdersInv'
<1> SUFFICES ASSUME OrdersInv, [OrdersNext]_orderVars PROVE OrdersInv' OBVIOUS
<1>1. CASE UNCHANGED orderVars
  <2>1. UNCHANGED <<order, outbox, sent, work>> BY <1>1 DEF orderVars
  <2>2. /\ orderCalls' \in 0..MaxOrderCalls /\ offset' \in 0..Len(ErpLog)
        /\ UNCHANGED <<owner, rebalances>>
    BY <1>1 DEF orderVars, groupVars, OrdersInv, OrdersTyped
  <2>3. QED BY <2>1, <2>2, NothingKeeps
<1>2. CASE OrdersNext
  BY <1>2, CreateOrderKeeps, RequestEditKeeps, RequestEventKeeps, ApplyEventKeeps,
     SendEventKeeps, ApplyEditKeeps, FailWorkKeeps, TakeMessageKeeps, CreateFromErpKeeps,
     RebalanceKeeps, FlagOrdersKeeps DEF OrdersNext
<1>3. QED BY <1>1, <1>2

LEMMA OrdersFollow == OrdersInv => OrdersTypeOK /\ OutboxTellsOrder /\ ErpOrderOnce
<1> SUFFICES ASSUME OrdersInv PROVE OrdersTypeOK /\ OutboxTellsOrder /\ ErpOrderOnce OBVIOUS
<1>a. OrdersTyped /\ WorksFit /\ Books /\ ErpOrderOnce BY DEF OrdersInv
<1>1. OrdersTypeOK
  <2>1. ASSUME NEW p \in Orders, order[p] # NoOrder PROVE order[p] \in OrderRow
    BY <1>a, <2>1 DEF OrdersTyped
  <2>2. \A q \in Requests \cup Erp : work[q].op \in {"none", "event", "edit", "create", "send"}
    BY <1>a DEF OrdersTyped, OrderWork
  <2>3. outbox \in [Orders -> Seq(PO_TRANSITIONS \X {0, 1})] BY <1>a DEF OrdersTyped, OutboxRow
  <2>4. ASSUME NEW p \in Orders, order[p] # NoOrder
        PROVE  /\ order[p].status \in POStatus /\ order[p].by \in {"api", "erp", "late"}
               /\ order[p].shipped \in Nat /\ order[p].received \in Nat
               /\ order[p].stamps \subseteq UNION {Stamps(e) : e \in Events}
               /\ order[p].edits \in Nat /\ order[p].flagged \in BOOLEAN
    BY <2>1, <2>4 DEF OrderRow
  <2>5. QED BY <1>a, <2>2, <2>3, <2>4 DEF OrdersTyped, OrdersTypeOK
<1>2. OutboxTellsOrder
  <2>1. SUFFICES ASSUME NEW p \in Orders, order[p] # NoOrder
        PROVE  /\ outbox[p] # <<>> => order[p].status = outbox[p][Len(outbox[p])][1][3]
               /\ order[p].shipped = Quantity(p, Ships)
               /\ order[p].received = Quantity(p, Events \ Ships)
               /\ order[p].stamps = UNION {Stamps(EventAt(p, i)) : i \in Rows(p)}
               /\ sent[p] <= Len(outbox[p])
               /\ order[p].status = "received" /\ ~Measured(p) =>
                     \E i \in Rows(p) : EventAt(p, i) = "resolve"
    BY DEF OutboxTellsOrder
  <2>2. PICK r, o, m, S : r = order[p] /\ o = outbox[p] /\ m = sent[p] /\ S = SendersOf(work, p)
    OBVIOUS
  <2>3. r \in OrderRow /\ o \in Seq(OutboxRow) /\ m \in Nat
    BY <1>a, <2>1, <2>2 DEF OrdersTyped
  <2>4. AddsUp(r, o) /\ IsFiniteSet(S) /\ m + Cardinality(S) <= Len(o)
    BY <1>a, <2>1, <2>2 DEF Books, Balanced
  <2>5. m <= Len(o)
    <3>1. Cardinality(S) \in Nat BY <2>4, FS_CardinalityType
    <3>2. Len(o) \in Nat BY <2>3
    <3>3. QED BY <2>3, <2>4, <3>1, <3>2
  <2>6. \A kinds : Quantity(p, kinds) = Counted(o, kinds)
    BY <2>2 DEF Quantity, Counted, Rows, EventAt
  <2>7. UNION {Stamps(EventAt(p, i)) : i \in Rows(p)} = Stamped(o)
    BY <2>2 DEF Stamped, Rows, EventAt
  <2>8. ASSUME r.status = "received", "fully_received" \notin r.stamps
        PROVE  \E i \in DOMAIN o : o[i][1][2] = "resolve"
    <3>1. o # <<>> /\ o[Len(o)][1][3] = "received" BY <2>4, <2>8 DEF AddsUp
    <3>2. PICK l \in Nat : l = Len(o) /\ DOMAIN o = 1..l BY <2>3
    <3>3. l \in 1..l BY <2>3, <3>1, <3>2
    <3>4. PICK t : t = o[l][1] OBVIOUS
    <3>5. t \in PO_TRANSITIONS /\ t[3] = "received"
      BY <2>3, <3>1, <3>2, <3>3, <3>4 DEF OutboxRow
    <3>6. Stamps(t[2]) \subseteq r.stamps BY <2>4, <3>2, <3>3, <3>4 DEF AddsUp, Stamped
    <3>7. "fully_received" \in Stamps("receive_complete") BY DEF Stamps
    <3>8. t[2] # "receive_complete" BY <2>8, <3>6, <3>7
    <3>9. t[2] = "resolve" BY <3>5, <3>8, TransitionFacts
    <3>10. QED BY <3>2, <3>3, <3>4, <3>9
  <2>9. order[p].status = "received" /\ ~Measured(p) =>
           \E i \in Rows(p) : EventAt(p, i) = "resolve"
    BY <2>2, <2>8 DEF Measured, Rows, EventAt
  <2>10. QED BY <2>2, <2>4, <2>5, <2>6, <2>7, <2>9 DEF AddsUp
<1>3. QED BY <1>a, <1>1, <1>2

LEMMA TerminalStep == OrdersInv /\ [OrdersNext]_orderVars => TerminalKept
<1> SUFFICES ASSUME OrdersInv, [OrdersNext]_orderVars,
                    NEW p \in Orders, order[p].status \in TERMINAL, order'[p] # order[p]
    PROVE  \/ order[p].status = "received" /\ order'[p].status = "disputed"
           \/ \E q \in Requests \cup Erp :
                 /\ work[q].op \in {"event", "edit"} /\ work'[q].op \notin {"event", "edit"}
                 /\ work[q].order = p /\ work[q].read # order[p].status
  BY DEF TerminalKept
<1>a. OrdersTyped /\ WorksFit BY DEF OrdersInv
<1>b. order' # order OBVIOUS
<1>c. PICK st : st = order[p].status OBVIOUS
<1>d. order[p] # NoOrder BY DEF NoOrder, TERMINAL
<1>1. ASSUME NEW x \in Orders, NEW by, InsertOrder(x, by) PROVE FALSE
  <2>1. order'[p] = order[p] BY <1>a, <1>d, <1>1 DEF InsertOrder, OrdersTyped
  <2>2. QED BY <2>1
<1>2. CASE FlagOrders
  <2>1. ~Editable(p) BY DEF Editable
  <2>2. order'[p] = order[p] BY <1>2, <2>1 DEF FlagOrders
  <2>3. QED BY <2>2
<1>3. ASSUME NEW q \in Requests \cup Erp, ApplyEdit(q)
      PROVE  /\ work[q].op \in {"event", "edit"} /\ work'[q].op \notin {"event", "edit"}
             /\ work[q].order = p /\ work[q].read # order[p].status
  <2>1. work[q].op = "edit" /\ work' = [work EXCEPT ![q] = NoWork] BY <1>3 DEF ApplyEdit
  <2>2. work'[q].op = "none" BY <1>a, <2>1 DEF OrdersTyped, NoWork
  <2>3. work[q].order = p
    <3>1. order' = [order EXCEPT ![work[q].order].edits = @ + 1] BY <1>3 DEF ApplyEdit
    <3>2. PICK x, z : x = work[q].order /\ z = [order[x] EXCEPT !.edits = @ + 1] OBVIOUS
    <3>3. order' = [order EXCEPT ![x] = z] BY <3>1, <3>2
    <3>4. x = p BY <1>a, <3>3 DEF OrdersTyped
    <3>5. QED BY <3>2, <3>4
  <2>4. work[q].read \notin TERMINAL BY <1>a, <2>1 DEF WorksFit, WorkFits
  <2>5. QED BY <2>1, <2>2, <2>3, <2>4
<1>4. ASSUME NEW q \in Requests \cup Erp, ApplyEvent(q)
      PROVE  \/ order[p].status = "received" /\ order'[p].status = "disputed"
             \/ /\ work[q].op \in {"event", "edit"} /\ work'[q].op \notin {"event", "edit"}
                /\ work[q].order = p /\ work[q].read # order[p].status
  <2>1. PICK j, x, t, r : /\ j = work[q] /\ x = j.order /\ t = j.row /\ r = order[x]
    OBVIOUS
  <2>2. PICK z : z = Applied(r, t, j.qty) OBVIOUS
  <2>3. order' = [order EXCEPT ![x] = z] BY <1>4, <2>1, <2>2 DEF ApplyEvent
  <2>4. x = p /\ order'[p] = z BY <1>a, <2>3 DEF OrdersTyped
  <2>5. j.op = "event" /\ t \in PO_TRANSITIONS /\ t[1] = j.read
    BY <1>a, <1>4, <2>1 DEF WorksFit, WorkFits, ApplyEvent
  <2>6. work'[q].op = "send"
    <3>1. PICK k : k = [j EXCEPT !.op = "send"] OBVIOUS
    <3>2. j \in OrderWork BY <1>a, <2>1 DEF OrdersTyped
    <3>3. k.op = "send" BY <3>1, <3>2 DEF OrderWork
    <3>4. work' = [work EXCEPT ![q] = k] BY <1>4, <2>1, <3>1 DEF ApplyEvent
    <3>5. QED BY <1>a, <3>3, <3>4 DEF OrdersTyped
  <2>7. CASE j.read # order[p].status BY <2>1, <2>4, <2>5, <2>6, <2>7
  <2>8. CASE j.read = order[p].status
    <3>1. t[1] = "received" /\ t[3] = "disputed" BY <2>5, <2>8, TransitionFacts
    <3>2. r \in OrderRow BY <1>a, <1>d, <2>1, <2>4 DEF OrdersTyped
    <3>3. z.status = t[3] BY <2>2, <3>2 DEF Applied, OrderRow
    <3>4. QED BY <2>4, <2>5, <2>8, <3>1, <3>3
  <2>9. QED BY <2>7, <2>8
<1>5. ASSUME NEW q \in Requests, NEW x \in Orders, CreateOrder(q, x) PROVE FALSE
  BY <1>1, <1>5 DEF CreateOrder
<1>6. ASSUME NEW c \in Erp, CreateFromErp(c) PROVE FALSE
  BY <1>1, <1>6 DEF CreateFromErp
<1>7. CASE order' = order BY <1>7
<1>8. QED
  BY <1>b, <1>2, <1>3, <1>4, <1>5, <1>6 DEF OrdersNext, orderVars, RequestEdit, RequestEvent,
     SendEvent, FailWork, TakeMessage, Rebalance

-----------------------------------------------------------------------------
(* The ERP sync.  What a pull is to find is what last changed before its dispatch, and
   does not change while it stays that: it is fetched, or its place is behind the
   pages fetched, since places only grow while nothing is deleted. *)

Pulling(p) == p.stage \in {"fetching", "publishing"}

Covers(b, r) == stamp[r] = changed[r] /\ Since(b) < stamp[r] /\ stamp[r] < b

Settled(r) == <<r, edition[r]>> \in offered \cup unpublished

Reached(p, r) ==
    \/ Settled(r)
    \/ \E m \in p.got : m[2] = <<r, edition[r]>>
    \/ p.stage = "fetching" /\ Place(r, p.run) > (p.page - 1) * PageSize

GotFits(p) ==
    /\ \A m \in p.got : m[2][2] <= edition[m[2][1]]
    /\ \A m, n \in p.got : m[2][1] = n[2][1] /\ m[1] <= n[1] => m[2][2] <= n[2][2]
    /\ p.stage = "fetching" => \A m \in p.got : m[1] <= (p.page - 1) * PageSize
    /\ ~p.met => \A m \in p.got : lastWord[m[2][1]] <= m[2][2]

PullFits(p) ==
    Pulling(p) =>
        /\ p.run # 0 => p.run <= hours
        /\ GotFits(p)
        /\ p.run # 0 /\ ~p.shifted => \A r \in Listed : Covers(p.run, r) => Reached(p, r)

(* Two that are at work know of each other. *)
KnowOfEachOther == \A w, x \in Pullers : w # x /\ Pulling(pull[w]) /\ Pulling(pull[x]) => pull[w].met

RecordsKnown ==
    /\ \A r \in Records : stamp[r] <= hours /\ lastWord[r] <= edition[r]
    /\ \A r \in Listed : edition[r] > 0
    /\ system = "none" => listing = {}

TasksTimely == \A t \in syncTasks : t.run <= hours

Complete(b) == b <= hours /\ \A r \in Listed : Covers(b, r) => Settled(r)

RunsDone == \A b \in synced : Complete(b)

ErpInv ==
    /\ ErpTypeOK /\ RecordsKnown /\ TasksTimely /\ RunsDone /\ KnowOfEachOther
    /\ \A w \in Pullers : PullFits(pull[w])

LEMMA PageArith ==
    ASSUME NEW page \in Nat \ {0}
    PROVE  /\ (page - 1) * PageSize \in Nat /\ page * PageSize \in Nat
           /\ (page - 1) * PageSize <= page * PageSize
           /\ ((page + 1) - 1) * PageSize = page * PageSize
           /\ (1 - 1) * PageSize = 0
<1>1. PageSize \in Nat BY ErpAssumption
<1>2. PICK z \in Nat : z = page - 1 OBVIOUS
<1>3. PICK m, n : m = z * PageSize /\ n = page * PageSize OBVIOUS
<1>4. m \in Nat BY <1>1, <1>2, <1>3
<1>5. n = m + PageSize BY <1>1, <1>2, <1>3
<1>6. (page + 1) - 1 = page /\ 1 - 1 = 0 OBVIOUS
<1>7. 0 * PageSize = 0 BY <1>1
<1>8. QED BY <1>1, <1>2, <1>3, <1>4, <1>5, <1>6, <1>7

LEMMA TypeNumbers ==
    ASSUME ErpTypeOK
    PROVE  /\ hours \in Nat /\ pull \in [Pullers -> Pull]
           /\ \A r \in Records : stamp[r] \in Nat /\ edition[r] \in Nat /\ lastWord[r] \in Nat
<1>1. hours \in 0..MaxHours /\ stamp \in [Records -> 0..MaxHours]
      /\ edition \in [Records -> 0..MaxVersions] /\ lastWord \in [Records -> 0..MaxVersions]
      /\ pull \in [Pullers -> Pull]
  BY DEF ErpTypeOK
<1>2. QED BY <1>1

LEMMA PlaceFacts ==
    ASSUME NEW b, NEW r
    PROVE  /\ Place(r, b) \in Nat /\ Cardinality(Found(b)) \in Nat
           /\ Place(r, b) <= Cardinality(Found(b))
           /\ r \in Found(b) => Place(r, b) > 0
<1>1. PICK S, F : S = {x \in Found(b) : <<x, r>> \in listing} /\ F = Found(b) OBVIOUS
<1>2. F \subseteq Records BY <1>1 DEF Found, Listed
<1>3. IsFiniteSet(F) /\ S \subseteq F BY <1>1, <1>2, ErpAssumption, FS_Subset
<1>4. /\ IsFiniteSet(S) /\ Cardinality(S) \in Nat /\ Cardinality(F) \in Nat
      /\ Cardinality(S) <= Cardinality(F)
  BY <1>3, FS_Subset, FS_CardinalityType
<1>5. ASSUME r \in F PROVE Cardinality(S) > 0
  <2>1. r \in S BY <1>1, <1>5 DEF Found, Listed
  <2>2. Cardinality(S) # 0 BY <1>4, <2>1, FS_EmptySet
  <2>3. QED BY <1>4, <2>2
<1>6. QED BY <1>1, <1>4, <1>5 DEF Place

(* Of a run, once its hour is past: it covers only what does not change any more. *)
LEMMA RunFacts ==
    ASSUME NEW b \in Runs
    PROVE  b \in Nat \ {0} /\ Since(b) \in Int /\ Since(b) < b
<1>1. b \in Nat \ {0} BY DEF Runs
<1>2. LookBack \in Nat /\ LookBack > 0 BY ErpAssumption
<1>3. QED BY <1>1, <1>2 DEF Since

LEMMA CoversFacts ==
    ASSUME NEW b \in Runs, NEW r \in Records, stamp \in [Records -> 0..MaxHours],
           Covers(b, r)
    PROVE  Matches(r, b) /\ (b <= hours => stamp[r] # hours)
<1>1. PICK t : t = stamp[r] OBVIOUS
<1>2. t \in Nat BY <1>1, ErpAssumption
<1>3. PICK h \in Nat, s \in Int : h = b /\ s = Since(b) BY RunFacts
<1>4. s < t /\ t < h BY <1>1, <1>3 DEF Covers
<1>5. Matches(r, b) BY <1>1, <1>2, <1>3, <1>4 DEF Matches
<1>6. ASSUME h <= hours PROVE t # hours BY <1>2, <1>3, <1>4, <1>6
<1>7. QED BY <1>1, <1>3, <1>5, <1>6

(* What a step leaves of what run b covers, and of the places. *)
Held(b) ==
    \A r \in Records : r \in Listed' /\ Covers(b, r)' =>
        r \in Listed /\ Covers(b, r) /\ edition'[r] = edition[r]

PlacesHeld(b) ==
    \A r \in Records : r \in Listed' /\ Covers(b, r)' => Place(r, b) <= Place(r, b)'

Forward ==
    /\ offered \subseteq offered' /\ unpublished \subseteq unpublished'
    /\ hours \in Nat /\ hours' \in Nat /\ hours <= hours'

LEMMA SettledKeeps ==
    ASSUME Forward, NEW r, Settled(r), edition'[r] = edition[r] PROVE Settled(r)'
BY DEF Forward, Settled

LEMMA CompleteKeeps ==
    ASSUME NEW b \in Runs, Complete(b), Held(b), Forward PROVE Complete(b)'
<1>1. (b <= hours)'
  <2>1. PICK h \in Nat : h = b BY RunFacts
  <2>2. h <= hours BY <2>1 DEF Complete
  <2>3. h <= hours' BY <2>2 DEF Forward
  <2>4. QED BY <2>1, <2>3
<1>2. ASSUME NEW r \in Listed', Covers(b, r)' PROVE Settled(r)'
  <2>1. r \in Records BY DEF Listed
  <2>2. r \in Listed /\ Covers(b, r) /\ edition'[r] = edition[r] BY <1>2, <2>1 DEF Held
  <2>3. Settled(r) BY <2>2 DEF Complete
  <2>4. QED BY <2>2, <2>3, SettledKeeps
<1>3. QED BY <1>1, <1>2 DEF Complete

LEMMA FitKeeps ==
    ASSUME NEW p \in Pull, PullFits(p), Forward,
           p.run # 0 => Held(p.run),
           p.run # 0 /\ p.stage = "fetching" /\ ~p.shifted => PlacesHeld(p.run),
           \A r \in Records : edition[r] \in Nat /\ edition'[r] \in Nat /\ edition[r] <= edition'[r],
           lastWord' = lastWord \/ p.met
    PROVE  PullFits(p)'
<1>1. SUFFICES ASSUME Pulling(p)
      PROVE  /\ p.run # 0 => p.run <= hours'
             /\ GotFits(p)'
             /\ p.run # 0 /\ ~p.shifted =>
                   \A r \in Listed' : Covers(p.run, r)' => Reached(p, r)'
  BY DEF PullFits, Pulling
<1>2. p.run # 0 => p.run <= hours'
  <2>1. SUFFICES ASSUME p.run # 0 PROVE p.run <= hours' OBVIOUS
  <2>2. p.run \in Runs BY <2>1 DEF Pull
  <2>3. PICK h \in Nat : h = p.run BY <2>2, RunFacts
  <2>4. h <= hours BY <1>1, <2>1, <2>3 DEF PullFits
  <2>5. h <= hours' BY <2>4 DEF Forward
  <2>6. QED BY <2>3, <2>5
<1>3. GotFits(p) BY <1>1 DEF PullFits
<1>4. GotFits(p)'
  <2>1. ASSUME NEW m \in p.got PROVE m[2][2] <= edition'[m[2][1]]
    <3>1. m[2][1] \in Records /\ m[2][2] \in Nat BY DEF Pull, Editions
    <3>2. m[2][2] <= edition[m[2][1]] BY <1>3 DEF GotFits
    <3>3. PICK e, f, g : e = m[2][2] /\ f = edition[m[2][1]] /\ g = edition'[m[2][1]] OBVIOUS
    <3>4. e \in Nat /\ f \in Nat /\ g \in Nat /\ e <= f /\ f <= g BY <3>1, <3>2, <3>3
    <3>5. QED BY <3>3, <3>4
  <2>2. QED BY <1>3, <2>1 DEF GotFits
<1>5. ASSUME p.run # 0, ~p.shifted, NEW r \in Listed', Covers(p.run, r)' PROVE Reached(p, r)'
  <2>1. r \in Records BY DEF Listed
  <2>2. r \in Listed /\ Covers(p.run, r) /\ edition'[r] = edition[r]
    BY <1>5, <2>1 DEF Held
  <2>3. Reached(p, r) BY <1>1, <1>5, <2>2 DEF PullFits
  <2>4. CASE Settled(r) BY <2>2, <2>4, SettledKeeps DEF Reached
  <2>5. CASE \E m \in p.got : m[2] = <<r, edition[r]>> BY <2>2, <2>5 DEF Reached
  <2>6. CASE p.stage = "fetching" /\ Place(r, p.run) > (p.page - 1) * PageSize
    <3>1. PICK a, b, c : /\ a = Place(r, p.run) /\ b = Place(r, p.run)'
                         /\ c = (p.page - 1) * PageSize
      OBVIOUS
    <3>2. a <= b BY <1>5, <2>1, <2>6, <3>1 DEF PlacesHeld
    <3>3. a \in Nat /\ b \in Nat
      <4>1. a \in Nat BY <3>1, PlaceFacts
      <4>2. b \in Nat
        <5>1. Place(r, p.run)' \in Nat
          <6>1. PICK S, F : S = {x \in Found(p.run)' : <<x, r>> \in listing'}
                            /\ F = Found(p.run)'
            OBVIOUS
          <6>2. S \subseteq Records BY <6>1 DEF Found, Listed
          <6>3. Cardinality(S) \in Nat
            BY <6>2, ErpAssumption, FS_Subset, FS_CardinalityType
          <6>4. QED BY <6>1, <6>3 DEF Place
        <5>2. QED BY <3>1, <5>1
      <4>3. QED BY <4>1, <4>2
    <3>4. c \in Nat
      <4>1. p.page \in Nat \ {0} BY DEF Pull
      <4>2. QED BY <3>1, <4>1, PageArith
    <3>5. b > c BY <2>6, <3>1, <3>2, <3>3, <3>4
    <3>6. QED BY <2>6, <3>1, <3>5 DEF Reached
  <2>7. QED BY <2>3, <2>4, <2>5, <2>6 DEF Reached
<1>6. QED BY <1>2, <1>4, <1>5

LEMMA SameHeld ==
    ASSUME UNCHANGED <<dated, listing, stamp, changed, edition>>, NEW b
    PROVE  Held(b) /\ (UNCHANGED system => PlacesHeld(b))
<1>1. Held(b) BY DEF Held, Covers, Listed, Since
<1>2. ASSUME UNCHANGED system, NEW r \in Records PROVE Place(r, b) <= Place(r, b)'
  <2>1. Place(r, b)' = Place(r, b) BY <1>2 DEF Place, Found, Matches, Listed, Since
  <2>2. Place(r, b) \in Nat BY PlaceFacts
  <2>3. QED BY <2>1, <2>2
<1>3. QED BY <1>1, <1>2 DEF PlacesHeld

(* The part of the types that is not about the ERP and the pulls. *)
BooksTyped ==
    /\ beats \in Nat /\ (beats > 0 => hours \in Runs)
    /\ syncTasks \subseteq [run : Runs, tries : 0..PullTries]
    /\ offered \subseteq Editions /\ unpublished \subseteq Editions
    /\ lastWord \in [Records -> 0..MaxVersions] /\ breaks \in 0..MaxBreaks
    /\ synced \subseteq Runs

(* A pull goes on to k. *)
Goes(w, k) ==
    /\ w \in Pullers /\ k \in Pull /\ pull' = [pull EXCEPT ![w] = k]
    /\ Pulling(k) => Pulling(pull[w]) /\ k.met = pull[w].met

(* Only one that no other overlaps publishes without being met. *)
WordsMove(w) ==
    /\ \A r \in Records : lastWord'[r] <= edition[r]
    /\ \/ lastWord' = lastWord
       \/ \A x \in Pullers : x # w /\ Pulling(pull[x]) => pull[x].met

SyncedMoves == \A b \in synced' : b \in synced \/ Complete(b)

(* A step that leaves the ERP alone and moves at most one pull. *)
LEMMA PullMoves ==
    ASSUME ErpInv, UNCHANGED <<system, dated, listing, stamp, changed, edition>>,
           hours' \in 0..MaxHours, hours <= hours', NEW w, NEW k,
           (pull' = pull /\ lastWord' = lastWord) \/ (Goes(w, k) /\ PullFits(k)'),
           BooksTyped', TasksTimely', WordsMove(w), SyncedMoves,
           offered \subseteq offered', unpublished \subseteq unpublished'
    PROVE  ErpInv'
<1>a. ErpTypeOK /\ RecordsKnown /\ TasksTimely /\ RunsDone /\ KnowOfEachOther
      /\ \A x \in Pullers : PullFits(pull[x])
  BY DEF ErpInv
<1>b. Listed' = Listed BY DEF Listed
<1>c. pull \in [Pullers -> Pull] BY <1>a DEF ErpTypeOK
<1>d. Forward
  <2>1. hours' \in Nat OBVIOUS
  <2>2. QED BY <1>a, <2>1, TypeNumbers DEF Forward
<1>1. ErpTypeOK'
  <2>1. pull' \in [Pullers -> Pull] BY <1>c DEF Goes
  <2>2. (listing \subseteq Listed \X Listed)' BY <1>a, <1>b DEF ErpTypeOK
  <2>3. QED BY <1>a, <1>b, <2>1, <2>2 DEF ErpTypeOK, BooksTyped
<1>2. RecordsKnown'
  <2>1. ASSUME NEW r \in Records PROVE stamp[r] <= hours'
    <3>1. PICK t, h, i : t = stamp[r] /\ h = hours /\ i = hours' OBVIOUS
    <3>2. t \in Nat /\ h \in Nat BY <1>a, <3>1, TypeNumbers
    <3>3. i \in Nat /\ h <= i BY <3>1
    <3>4. t <= h BY <1>a, <3>1 DEF RecordsKnown
    <3>5. t <= i BY <3>2, <3>3, <3>4
    <3>6. QED BY <3>1, <3>5
  <2>2. QED BY <1>a, <1>b, <2>1 DEF RecordsKnown, WordsMove
<1>3. RunsDone'
  <2>1. ASSUME NEW b \in synced' PROVE Complete(b)'
    <3>0. b \in Runs BY DEF BooksTyped
    <3>1. Complete(b) BY <1>a, <2>1 DEF RunsDone, SyncedMoves
    <3>2. Held(b) BY SameHeld
    <3>3. QED BY <1>d, <3>0, <3>1, <3>2, CompleteKeeps
  <2>2. QED BY <2>1 DEF RunsDone
<1>4. ASSUME NEW x \in Pullers, pull'[x] = pull[x], lastWord' = lastWord \/ (Pulling(pull[x]) => pull[x].met)
      PROVE  PullFits(pull[x])'
  <2>1. PICK p \in Pull : p = pull[x] BY <1>c
  <2>2. PullFits(p) BY <1>a, <2>1
  <2>3. p.run # 0 => Held(p.run) /\ PlacesHeld(p.run) BY SameHeld
  <2>4. \A r \in Records : edition[r] \in Nat /\ edition'[r] \in Nat /\ edition[r] <= edition'[r]
    <3>1. ASSUME NEW r \in Records PROVE edition[r] \in Nat /\ edition'[r] = edition[r]
      BY <1>a, TypeNumbers
    <3>2. QED BY <3>1
  <2>5. CASE ~Pulling(p)
    <3>1. PullFits(p)' BY <2>5 DEF PullFits, Pulling
    <3>2. QED BY <1>4, <2>1, <3>1 DEF PullFits, GotFits, Reached, Pulling
  <2>6. CASE Pulling(p)
    <3>1. lastWord' = lastWord \/ p.met BY <1>4, <2>1, <2>6
    <3>2. PullFits(p)' BY <1>d, <2>2, <2>3, <2>4, <3>1, FitKeeps
    <3>3. QED BY <1>4, <2>1, <3>2 DEF PullFits, GotFits, Reached, Pulling
  <2>7. QED BY <2>5, <2>6
<1>5. CASE pull' = pull /\ lastWord' = lastWord
  <2>1. \A x \in Pullers : PullFits(pull[x])' BY <1>4, <1>5
  <2>2. KnowOfEachOther' BY <1>a, <1>5 DEF KnowOfEachOther
  <2>3. QED BY <1>1, <1>2, <1>3, <2>1, <2>2 DEF ErpInv
<1>6. CASE Goes(w, k) /\ PullFits(k)'
  <2>1. \A x \in Pullers : pull'[x] = IF x = w THEN k ELSE pull[x] BY <1>c, <1>6 DEF Goes
  <2>2. ASSUME NEW x \in Pullers PROVE PullFits(pull[x])'
    <3>1. CASE x = w
      <4>1. pull'[x] = k BY <2>1, <3>1
      <4>2. QED BY <1>6, <4>1 DEF PullFits, GotFits, Reached, Pulling
    <3>2. CASE x # w BY <1>4, <2>1, <3>2 DEF WordsMove
    <3>3. QED BY <3>1, <3>2
  <2>3. KnowOfEachOther'
    <3>1. ASSUME NEW x \in Pullers, NEW y \in Pullers, x # y,
                 Pulling(pull'[x]), Pulling(pull'[y])
          PROVE  pull'[x].met
      <4>1. Pulling(pull[x]) /\ Pulling(pull[y]) /\ pull'[x].met = pull[x].met
        BY <1>6, <2>1, <3>1 DEF Goes
      <4>2. QED BY <1>a, <3>1, <4>1 DEF KnowOfEachOther
    <3>2. QED BY <3>1 DEF KnowOfEachOther, Pulling
  <2>4. QED BY <1>1, <1>2, <1>3, <2>2, <2>3 DEF ErpInv
<1>7. QED BY <1>5, <1>6

LEMMA NobodyMoves ==
    ASSUME ErpInv, UNCHANGED <<system, dated, listing, stamp, changed, edition, pull,
                               offered, lastWord, unpublished>>,
           hours' \in 0..MaxHours, hours <= hours', BooksTyped', TasksTimely', SyncedMoves
    PROVE  ErpInv'
<1>1. WordsMove(0) BY DEF WordsMove, ErpInv, RecordsKnown
<1>2. pull' = pull /\ lastWord' = lastWord OBVIOUS
<1>3. offered \subseteq offered' /\ unpublished \subseteq unpublished' OBVIOUS
<1>4. QED BY <1>1, <1>2, <1>3, PullMoves

LEMMA IdlePulls ==
    /\ NoPull \in Pull /\ Over \in Pull
    /\ ~Pulling(NoPull) /\ ~Pulling(Over)
    /\ NoPull.met = FALSE /\ Over.met = FALSE /\ NoPull.stage = "idle"
<1>1. PullTries \in Nat BY ErpAssumption
<1>2. NoPull \in Pull BY <1>1 DEF NoPull, Pull
<1>3. ASSUME NEW n \in Pull PROVE [n EXCEPT !.stage = "over"] \in Pull BY DEF Pull
<1>4. ASSUME NEW n \in Pull
      PROVE [n EXCEPT !.stage = "over"].stage = "over" /\ [n EXCEPT !.stage = "over"].met = n.met
  BY DEF Pull
<1>5. Over \in Pull BY <1>2, <1>3 DEF Over
<1>6. NoPull.stage = "idle" /\ NoPull.met = FALSE BY DEF NoPull
<1>7. Over.stage = "over" /\ Over.met = FALSE BY <1>2, <1>4, <1>6 DEF Over
<1>8. QED BY <1>2, <1>5, <1>6, <1>7 DEF Pulling

LEMMA ErpTypes ==
    ASSUME ErpInv PROVE BooksTyped /\ hours \in 0..MaxHours /\ hours \in Nat /\ hours <= hours
<1>1. ErpTypeOK BY DEF ErpInv
<1>2. hours \in 0..MaxHours BY <1>1 DEF ErpTypeOK
<1>3. BooksTyped BY <1>1 DEF ErpTypeOK, BooksTyped
<1>4. QED BY <1>2, <1>3

LEMMA BreakKeeps == ASSUME BooksTyped, Break \/ UNCHANGED breaks PROVE breaks' \in 0..MaxBreaks
<1>1. MaxBreaks \in Nat /\ breaks \in 0..MaxBreaks BY ErpAssumption DEF BooksTyped
<1>2. QED BY <1>1 DEF Break

LEMMA InitErp == ErpInit => ErpInv
<1> SUFFICES ASSUME ErpInit PROVE ErpInv OBVIOUS
<1>n. MaxHours \in Nat /\ MaxVersions \in Nat /\ MaxBreaks \in Nat /\ Period \in Nat \ {0}
      /\ Period < MaxHours
  BY ErpAssumption
<1>1. Listed = {} BY DEF ErpInit, Listed
<1>2. (\A w \in Pullers : pull[w] \in {NoPull, Over}) /\ pull = [w \in Pullers |-> pull[w]]
  BY DEF ErpInit
<1>3. pull \in [Pullers -> Pull]
  <2>1. \A w \in Pullers : pull[w] \in Pull BY <1>2, IdlePulls
  <2>2. QED BY <1>2, <2>1
<1>4. /\ hours \in 0..MaxHours /\ breaks \in 0..MaxBreaks /\ dated \in BOOLEAN
      /\ beats \in Nat /\ (beats > 0 => hours \in Runs)
  BY <1>n DEF ErpInit
<1>5. hours \in 0..MaxHours /\ 0 <= hours BY <1>n, <1>4
<1>6. /\ stamp \in [Records -> 0..MaxHours] /\ changed \in [Records -> 0..MaxHours]
      /\ edition \in [Records -> 0..MaxVersions] /\ lastWord \in [Records -> 0..MaxVersions]
  BY <1>n DEF ErpInit
<1>7. ErpTypeOK BY <1>1, <1>3, <1>4, <1>5, <1>6 DEF ErpInit, ErpTypeOK
<1>8. RecordsKnown
  <2>1. \A r \in Records : stamp[r] = 0 /\ edition[r] = 0 /\ lastWord[r] = 0 BY DEF ErpInit
  <2>2. QED BY <1>1, <1>5, <2>1 DEF RecordsKnown, ErpInit
<1>9. \A w \in Pullers : ~Pulling(pull[w]) BY <1>2, IdlePulls
<1>10. TasksTimely /\ RunsDone BY DEF TasksTimely, RunsDone, ErpInit
<1>11. QED BY <1>7, <1>8, <1>9, <1>10 DEF ErpInv, KnowOfEachOther, PullFits

LEMMA HourKeeps == ASSUME ErpInv, Hour PROVE ErpInv'
<1>a. BooksTyped /\ hours \in 0..MaxHours /\ hours \in Nat BY ErpTypes
<1>1. hours' \in 0..MaxHours /\ hours <= hours' /\ hours' \in Runs
  BY <1>a, ErpAssumption DEF Hour, Runs
<1>2. UNCHANGED <<system, dated, listing, stamp, changed, edition, pull, offered, lastWord,
                  unpublished>>
      /\ UNCHANGED <<syncTasks, breaks, synced>>
  BY DEF Hour, topicVars, recordVars
<1>3. BooksTyped'
  <2>1. beats' \in Nat BY <1>a DEF Hour, BooksTyped
  <2>2. QED BY <1>a, <1>1, <1>2, <2>1 DEF BooksTyped
<1>4. TasksTimely'
  <2>1. ASSUME NEW t \in syncTasks PROVE t.run <= hours'
    <3>1. t.run \in Nat BY <1>a DEF BooksTyped, Runs
    <3>2. PICK h : h = t.run OBVIOUS
    <3>3. h <= hours /\ h \in Nat BY <3>1, <3>2 DEF ErpInv, TasksTimely
    <3>4. h <= hours' BY <1>a, <1>1, <3>3
    <3>5. QED BY <3>2, <3>4
  <2>2. QED BY <1>2, <2>1 DEF TasksTimely
<1>5. SyncedMoves BY <1>2 DEF SyncedMoves
<1>6. QED BY <1>1, <1>2, <1>3, <1>4, <1>5, NobodyMoves

LEMMA DispatchKeeps == ASSUME ErpInv, Dispatch \/ DispatchAgain \/ Miss PROVE ErpInv'
<1>a. BooksTyped /\ hours \in 0..MaxHours /\ hours \in Nat /\ hours <= hours BY ErpTypes
<1>1. UNCHANGED <<system, dated, listing, stamp, changed, edition, pull, offered, lastWord,
                  unpublished>>
      /\ hours' = hours /\ synced' = synced
  BY DEF Dispatch, DispatchAgain, Miss, topicVars, recordVars
<1>2. beats \in Nat /\ beats > 0 /\ hours \in Runs /\ beats' \in Nat
  BY <1>a DEF Dispatch, DispatchAgain, Miss, BooksTyped
<1>3. PICK t : t = [run |-> hours, tries |-> 0] OBVIOUS
<1>4. t \in [run : Runs, tries : 0..PullTries] /\ t.run = hours BY <1>2, <1>3, ErpAssumption
<1>5. syncTasks' = syncTasks \/ syncTasks' = syncTasks \cup {t}
  BY <1>3 DEF Dispatch, DispatchAgain, Miss, Send
<1>6. Break \/ UNCHANGED breaks BY DEF Dispatch, DispatchAgain, Miss
<1>7. SyncedMoves BY <1>1 DEF SyncedMoves
<1>8. BooksTyped'
  <2>1. breaks' \in 0..MaxBreaks BY <1>a, <1>6, BreakKeeps
  <2>2. syncTasks' \subseteq [run : Runs, tries : 0..PullTries]
    <3>1. PICK T : T = [run : Runs, tries : 0..PullTries] OBVIOUS
    <3>2. syncTasks \subseteq T BY <1>a, <3>1 DEF BooksTyped
    <3>3. t \in T BY <1>4, <3>1
    <3>4. syncTasks' \subseteq T BY <1>5, <3>2, <3>3
    <3>5. QED BY <3>1, <3>4
  <2>3. QED BY <1>a, <1>1, <1>2, <2>1, <2>2 DEF BooksTyped
<1>9. TasksTimely'
  <2>1. \A x \in syncTasks' : x.run <= hours
    BY <1>a, <1>4, <1>5 DEF ErpInv, TasksTimely
  <2>2. QED BY <1>1, <2>1 DEF TasksTimely
<1>10. hours' \in 0..MaxHours /\ hours <= hours' BY <1>a, <1>1
<1>11. QED BY <1>1, <1>7, <1>8, <1>9, <1>10, NobodyMoves

LEMMA PullOf ==
    ASSUME ErpInv, NEW w \in Pullers
    PROVE  /\ pull[w] \in Pull /\ PullFits(pull[w])
           /\ pull[w].page \in Nat \ {0}
           /\ pull[w].run # 0 => pull[w].run \in Runs
<1>1. pull \in [Pullers -> Pull] BY DEF ErpInv, ErpTypeOK
<1>2. pull[w] \in Pull BY <1>1
<1>3. QED BY <1>2 DEF ErpInv, Pull

(* A worker that is through with its pull, one way or the other. *)
LEMMA StopKeeps ==
    ASSUME ErpInv, NEW w \in Pullers, Stop(w),
           UNCHANGED <<system, hours, dated, listing, stamp, changed, edition, offered,
                       lastWord, unpublished>>,
           Break \/ UNCHANGED breaks,
           Pulling(pull[w]),
           \/ UNCHANGED syncTasks
           \/ pull[w].run # 0 /\ \E n \in 0..PullTries : Requeue(w, n),
           \/ UNCHANGED synced
           \/ /\ pull[w].run # 0 /\ synced' = synced \cup {pull[w].run}
              /\ Complete(pull[w].run),
           UNCHANGED beats
    PROVE  ErpInv'
<1>a. BooksTyped /\ hours \in 0..MaxHours /\ hours \in Nat /\ hours <= hours BY ErpTypes
<1>b. PICK p \in Pull : p = pull[w] BY PullOf
<1>c. p.run # 0 => p.run \in Runs /\ p.run <= hours
  <2>1. PullFits(p) /\ Pulling(p) BY <1>b, PullOf
  <2>2. QED BY <2>1 DEF PullFits, Pull
<1>1. PICK k \in {NoPull, Over} : pull' = [pull EXCEPT ![w] = k] BY DEF Stop
<1>2. k \in Pull /\ ~Pulling(k) BY IdlePulls
<1>3. Goes(w, k) BY <1>1, <1>2 DEF Goes
<1>4. PullFits(k)' BY <1>2 DEF PullFits, Pulling
<1>5. WordsMove(w) BY DEF WordsMove, ErpInv, RecordsKnown
<1>6. SyncedMoves BY <1>a, <1>b, <1>c DEF SyncedMoves, BooksTyped
<1>7. PICK T : T = [run : Runs, tries : 0..PullTries] OBVIOUS
<1>8. \/ syncTasks' = syncTasks
      \/ \E t \in T : p.run # 0 /\ syncTasks' = syncTasks \cup {t} /\ t.run = p.run
  <2>1. ASSUME NEW n \in 0..PullTries, p.run # 0, Requeue(w, n)
        PROVE  \E t \in T : syncTasks' = syncTasks \cup {t} /\ t.run = p.run
    <3>1. PICK t : t = [run |-> p.run, tries |-> n] OBVIOUS
    <3>2. t \in T /\ t.run = p.run BY <1>c, <1>7, <2>1, <3>1
    <3>3. syncTasks' = syncTasks \cup {t} BY <1>b, <2>1, <3>1 DEF Requeue
    <3>4. QED BY <3>2, <3>3
  <2>2. QED BY <1>b, <2>1
<1>9. BooksTyped'
  <2>1. breaks' \in 0..MaxBreaks BY <1>a, BreakKeeps
  <2>2. synced' \subseteq Runs BY <1>a, <1>b, <1>c DEF BooksTyped
  <2>3. syncTasks' \subseteq [run : Runs, tries : 0..PullTries]
    <3>1. syncTasks \subseteq T BY <1>a, <1>7 DEF BooksTyped
    <3>2. syncTasks' \subseteq T BY <1>8, <3>1
    <3>3. QED BY <1>7, <3>2
  <2>4. QED BY <1>a, <2>1, <2>2, <2>3 DEF BooksTyped
<1>10. TasksTimely'
  <2>1. \A x \in syncTasks' : x.run <= hours
    BY <1>c, <1>8 DEF ErpInv, TasksTimely
  <2>2. QED BY <2>1 DEF TasksTimely
<1>11. hours' \in 0..MaxHours /\ hours <= hours' BY <1>a
<1>12. offered \subseteq offered' /\ unpublished \subseteq unpublished' OBVIOUS
<1>13. QED BY <1>3, <1>4, <1>5, <1>6, <1>9, <1>10, <1>11, <1>12, PullMoves

LEMMA PullFailsKeeps == ASSUME ErpInv, NEW w \in Pullers, PullFails(w) PROVE ErpInv'
<1>1. pull[w] \in Pull BY PullOf
<1>2. PICK n : n = pull[w].tries OBVIOUS
<1>3. n \in 0..PullTries BY <1>1, <1>2 DEF Pull
<1>4. n < PullTries => n + 1 \in 0..PullTries BY <1>3, ErpAssumption
<1>5. Pulling(pull[w]) BY DEF PullFails, Pulling
<1>6. \/ UNCHANGED syncTasks
      \/ pull[w].run # 0 /\ \E m \in 0..PullTries : Requeue(w, m)
  BY <1>2, <1>4 DEF PullFails
<1>7. UNCHANGED <<system, hours, dated, listing, stamp, changed, edition, offered,
                  lastWord, unpublished>>
      /\ Stop(w) /\ (Break \/ UNCHANGED breaks) /\ UNCHANGED synced /\ UNCHANGED beats
  BY DEF PullFails, topicVars, recordVars
<1>8. QED BY <1>5, <1>6, <1>7, StopKeeps

LEMMA CrashKeeps == ASSUME ErpInv, NEW w \in Pullers, CrashPuller(w) PROVE ErpInv'
<1>1. pull[w] \in Pull BY PullOf
<1>2. pull[w].tries \in 0..PullTries BY <1>1 DEF Pull
<1>3. Pulling(pull[w]) BY DEF CrashPuller, Busy, Pulling
<1>4. \/ UNCHANGED syncTasks
      \/ pull[w].run # 0 /\ \E m \in 0..PullTries : Requeue(w, m)
  BY <1>2 DEF CrashPuller
<1>5. UNCHANGED <<system, hours, dated, listing, stamp, changed, edition, offered,
                  lastWord, unpublished>>
      /\ Stop(w) /\ (Break \/ UNCHANGED breaks) /\ UNCHANGED synced /\ UNCHANGED beats
  BY DEF CrashPuller, topicVars, recordVars
<1>6. QED BY <1>3, <1>4, <1>5, StopKeeps

LEMMA RedeliverKeeps == ASSUME ErpInv, NEW w \in Pullers, Redeliver(w) PROVE ErpInv'
<1>a. BooksTyped /\ hours \in 0..MaxHours /\ hours \in Nat /\ hours <= hours BY ErpTypes
<1>b. PICK p \in Pull : p = pull[w] BY PullOf
<1>1. p.run \in Runs /\ p.run <= hours
  <2>1. PullFits(p) /\ Pulling(p) /\ p.run # 0 BY <1>b, PullOf DEF Redeliver, Busy, Pulling
  <2>2. QED BY <2>1 DEF PullFits, Pull
<1>2. PICK t : t = [run |-> p.run, tries |-> p.tries] OBVIOUS
<1>3. t \in [run : Runs, tries : 0..PullTries] /\ t.run = p.run BY <1>1, <1>2 DEF Pull
<1>4. syncTasks' = syncTasks \cup {t} BY <1>b, <1>2 DEF Redeliver, Requeue
<1>u. UNCHANGED <<system, dated, listing, stamp, changed, edition, pull, offered, lastWord,
                  unpublished>>
      /\ UNCHANGED <<hours, beats, synced>>
  BY DEF Redeliver, topicVars, recordVars
<1>5. BooksTyped'
  <2>1. breaks' \in 0..MaxBreaks BY <1>a, BreakKeeps DEF Redeliver
  <2>2. syncTasks' \subseteq [run : Runs, tries : 0..PullTries]
    BY <1>a, <1>3, <1>4 DEF BooksTyped
  <2>3. QED BY <1>a, <1>u, <2>1, <2>2 DEF BooksTyped
<1>6. TasksTimely'
  <2>1. \A x \in syncTasks' : x.run <= hours BY <1>1, <1>3, <1>4 DEF ErpInv, TasksTimely
  <2>2. QED BY <1>u, <2>1 DEF TasksTimely
<1>7. SyncedMoves BY <1>u DEF SyncedMoves
<1>8. hours' \in 0..MaxHours /\ hours <= hours' BY <1>a, <1>u
<1>9. QED BY <1>5, <1>6, <1>7, <1>8, <1>u, NobodyMoves

(* What it has published by then is all that its run covers, or a deletion has
   moved the pages. *)
LEMMA FinishKeeps == ASSUME ErpInv, NEW w \in Pullers, Finish(w) PROVE ErpInv'
<1>1. PICK p \in Pull : p = pull[w] BY PullOf
<1>2. p.stage = "publishing" /\ p.got = {} BY <1>1 DEF Finish
<1>3. Pulling(p) /\ PullFits(p) BY <1>1, <1>2, PullOf DEF Pulling
<1>4. ASSUME p.run # 0, ~p.shifted PROVE Complete(p.run)
  <2>1. p.run <= hours BY <1>3, <1>4 DEF PullFits
  <2>2. \A r \in Listed : Covers(p.run, r) => Reached(p, r) BY <1>3, <1>4 DEF PullFits
  <2>3. \A r : Reached(p, r) => Settled(r) BY <1>2 DEF Reached
  <2>4. QED BY <2>1, <2>2, <2>3 DEF Complete
<1>5. \/ UNCHANGED synced
      \/ /\ pull[w].run # 0 /\ synced' = synced \cup {pull[w].run}
         /\ Complete(pull[w].run)
  BY <1>1, <1>4 DEF Finish
<1>6. UNCHANGED <<system, hours, dated, listing, stamp, changed, edition, offered,
                  lastWord, unpublished>>
      /\ Stop(w) /\ UNCHANGED breaks /\ UNCHANGED <<beats, syncTasks>>
  BY DEF Finish, topicVars, recordVars, brokerVars
<1>7. Pulling(pull[w]) BY <1>1, <1>3
<1>8. QED BY <1>5, <1>6, <1>7, StopKeeps

LEMMA PageFacts ==
    ASSUME ErpInv, NEW b, NEW page \in Nat \ {0}, NEW m \in PageOf(b, page)
    PROVE  /\ m \in Nat \X Editions
           /\ (page - 1) * PageSize < m[1] /\ m[1] <= page * PageSize
           /\ m[2][1] \in Records /\ m[2][2] = edition[m[2][1]]
           /\ lastWord[m[2][1]] <= m[2][2]
<1>1. PICK r \in Found(b) :
         /\ m = <<Place(r, b), <<r, edition[r]>>>>
         /\ Place(r, b) > (page - 1) * PageSize /\ Place(r, b) <= page * PageSize
  BY DEF PageOf
<1>2. r \in Listed /\ r \in Records BY DEF Found, Listed
<1>3. PICK q, e : q = Place(r, b) /\ e = edition[r] OBVIOUS
<1>4. q \in Nat BY <1>3, PlaceFacts
<1>5. lastWord[r] <= e /\ e > 0 BY <1>2, <1>3 DEF ErpInv, RecordsKnown
<1>6. e \in 0..MaxVersions BY <1>2, <1>3 DEF ErpInv, ErpTypeOK
<1>7. e \in 1..MaxVersions BY <1>5, <1>6, ErpAssumption
<1>8. m = <<q, <<r, e>>>> BY <1>1, <1>3
<1>9. m \in Nat \X Editions BY <1>2, <1>4, <1>7, <1>8 DEF Editions
<1>10. m[1] = q /\ m[2][1] = r /\ m[2][2] = e BY <1>8
<1>11. PICK a, c : a = (page - 1) * PageSize /\ c = page * PageSize OBVIOUS
<1>12. a \in Nat BY <1>11, PageArith
<1>13. q > a /\ q <= c BY <1>1, <1>3, <1>11
<1>14. a < q BY <1>4, <1>12, <1>13
<1>15. QED BY <1>2, <1>3, <1>5, <1>9, <1>10, <1>11, <1>13, <1>14

(* What a page brings, in a pull that had p.got before. *)
Paged(p, k, bad, full) ==
    /\ k.got = p.got \cup (PageOf(p.run, p.page) \ bad)
    /\ k.page = (IF full THEN p.page + 1 ELSE 1)
    /\ k.stage = (IF full THEN p.stage ELSE "publishing")
    /\ k.run = p.run /\ k.met = p.met /\ k.shifted = p.shifted

LEMMA FetchFits ==
    ASSUME ErpInv, NEW p \in Pull, NEW k, NEW bad, NEW full,
           Paged(p, k, bad, full), full <=> Full(p.run, p.page),
           p.stage = "fetching", PullFits(p), p.page \in Nat \ {0}
    PROVE  GotFits(k)
<1>w. Pulling(p) BY DEF Pulling
<1>f. GotFits(p) BY <1>w DEF PullFits
<1>a. PICK a, c : a = (p.page - 1) * PageSize /\ c = p.page * PageSize OBVIOUS
<1>b. a \in Nat /\ c \in Nat /\ a <= c /\ ((p.page + 1) - 1) * PageSize = c BY <1>a, PageArith
<1>p. \A m \in p.got : m \in Nat \X Editions /\ m[1] <= a BY <1>a, <1>f DEF Pull, GotFits
<1>n. \A m \in k.got \ p.got :
         /\ m \in Nat \X Editions /\ a < m[1] /\ m[1] <= c
         /\ m[2][2] = edition[m[2][1]] /\ lastWord[m[2][1]] <= m[2][2]
  BY <1>a, PageFacts DEF Paged
<1>g. \A m \in k.got : m \in Nat \X Editions /\ m[1] \in Nat /\ m[2][1] \in Records /\ m[2][2] \in Nat
  <2>1. \A m \in k.got : m \in Nat \X Editions BY <1>p, <1>n
  <2>2. \A m \in Nat \X Editions : m[1] \in Nat /\ m[2][1] \in Records /\ m[2][2] \in Nat
    BY DEF Editions
  <2>3. QED BY <2>1, <2>2
<1>h. \A m \in k.got : edition[m[2][1]] \in Nat BY <1>g, TypeNumbers DEF ErpInv
<1>1. \A m \in k.got : m[2][2] <= edition[m[2][1]]
  <2>1. ASSUME NEW m \in k.got, m \notin p.got PROVE m[2][2] <= edition[m[2][1]]
    <3>1. PICK e : e = m[2][2] OBVIOUS
    <3>2. e = edition[m[2][1]] /\ e \in Nat BY <1>g, <1>n, <2>1, <3>1
    <3>3. QED BY <3>1, <3>2
  <2>2. QED BY <1>f, <2>1 DEF GotFits
<1>2. ASSUME NEW m \in k.got, NEW n \in k.got, m[2][1] = n[2][1], m[1] <= n[1]
      PROVE  m[2][2] <= n[2][2]
  <2>1. CASE m \in p.got /\ n \in p.got BY <1>2, <1>f, <2>1 DEF GotFits
  <2>2. CASE n \notin p.got
    <3>1. n[2][2] = edition[m[2][1]] BY <1>2, <1>n, <2>2
    <3>2. QED BY <1>1, <3>1
  <2>3. CASE m \notin p.got /\ n \in p.got
    <3>1. PICK x, y : x = m[1] /\ y = n[1] OBVIOUS
    <3>2. a < x /\ y <= a /\ x \in Nat /\ y \in Nat BY <1>g, <1>n, <1>p, <2>3, <3>1
    <3>3. ~(x <= y) BY <1>b, <3>2
    <3>4. QED BY <1>2, <3>1, <3>3
  <2>4. QED BY <2>1, <2>2, <2>3
<1>3. ASSUME k.stage = "fetching", NEW m \in k.got PROVE m[1] <= (k.page - 1) * PageSize
  <2>1. full BY <1>3 DEF Paged
  <2>2. k.page = p.page + 1 BY <2>1 DEF Paged
  <2>3. (k.page - 1) * PageSize = c BY <1>b, <2>2
  <2>4. PICK x : x = m[1] OBVIOUS
  <2>5. x \in Nat /\ (x <= a \/ x <= c) BY <1>g, <1>n, <1>p, <2>4
  <2>6. x <= c BY <1>b, <2>5
  <2>7. QED BY <2>3, <2>4, <2>6
<1>4. ASSUME ~k.met, NEW m \in k.got PROVE lastWord[m[2][1]] <= m[2][2]
  <2>1. CASE m \in p.got BY <1>4, <1>f, <2>1 DEF GotFits, Paged
  <2>2. CASE m \notin p.got BY <1>n, <2>2
  <2>3. QED BY <2>1, <2>2
<1>5. QED BY <1>1, <1>2, <1>3, <1>4 DEF GotFits

(* What it is to find is on the page, or has a place behind it. *)
LEMMA FetchReaches ==
    ASSUME ErpInv, NEW p \in Pull, NEW k, NEW bad, NEW full, NEW more,
           Paged(p, k, bad, full), full <=> Full(p.run, p.page),
           p.stage = "fetching", p.page \in Nat \ {0}, p.run \in Runs,
           NEW r \in Listed, Covers(p.run, r), Reached(p, r),
           \A m \in bad : m[2] \in more
    PROVE  \/ <<r, edition[r]>> \in offered \cup (unpublished \cup more)
           \/ \E m \in k.got : m[2] = <<r, edition[r]>>
           \/ k.stage = "fetching" /\ Place(r, p.run) > (k.page - 1) * PageSize
<1>1. CASE Settled(r) BY <1>1 DEF Settled
<1>2. CASE \E m \in p.got : m[2] = <<r, edition[r]>> BY <1>2 DEF Paged
<1>3. CASE Place(r, p.run) > (p.page - 1) * PageSize
  <2>1. r \in Records BY DEF Listed
  <2>2. stamp \in [Records -> 0..MaxHours] BY DEF ErpInv, ErpTypeOK
  <2>3. r \in Found(p.run) BY <2>1, <2>2, CoversFacts DEF Found
  <2>4. PICK q, c, f : /\ q = Place(r, p.run) /\ c = p.page * PageSize
                       /\ f = Cardinality(Found(p.run))
    OBVIOUS
  <2>5. q \in Nat /\ f \in Nat /\ q <= f BY <2>4, PlaceFacts
  <2>6. c \in Nat /\ ((p.page + 1) - 1) * PageSize = c BY <2>4, PageArith
  <2>7. CASE q <= c
    <3>1. PICK m : m = <<q, <<r, edition[r]>>>> OBVIOUS
    <3>2. m \in PageOf(p.run, p.page) BY <1>3, <2>3, <2>4, <2>7, <3>1 DEF PageOf
    <3>3. m[2] = <<r, edition[r]>> BY <3>1
    <3>4. CASE m \in bad BY <3>3, <3>4
    <3>5. CASE m \notin bad BY <3>2, <3>3, <3>5 DEF Paged
    <3>6. QED BY <3>4, <3>5
  <2>8. CASE q > c
    <3>1. f >= c BY <2>5, <2>6, <2>8
    <3>2. full BY <2>4, <3>1 DEF Full
    <3>3. k.page = p.page + 1 /\ k.stage = "fetching" BY <3>2 DEF Paged
    <3>4. (k.page - 1) * PageSize = c BY <2>6, <3>3
    <3>5. QED BY <2>4, <2>8, <3>3, <3>4
  <2>9. QED BY <2>5, <2>6, <2>7, <2>8
<1>4. QED BY <1>1, <1>2, <1>3 DEF Reached

LEMMA FetchKeeps == ASSUME ErpInv, NEW w \in Pullers, Fetch(w) PROVE ErpInv'
<1>a. BooksTyped /\ hours \in 0..MaxHours /\ hours \in Nat /\ hours <= hours BY ErpTypes
<1>b. PICK p \in Pull : p = pull[w] BY PullOf
<1>c. PullFits(p) /\ p.page \in Nat \ {0} /\ (p.run # 0 => p.run \in Runs) BY <1>b, PullOf
<1>d. p.stage = "fetching" /\ Pulling(p) BY <1>b DEF Fetch, Pulling
<1>e. PICK full : full = Full(p.run, p.page) OBVIOUS
<1>f. PICK R : R = PageOf(p.run, p.page) OBVIOUS
<1>g. PICK bad : /\ bad \subseteq R
                 /\ Break \/ UNCHANGED breaks
                 /\ unpublished' = unpublished \cup {m[2] : m \in bad}
                 /\ pull' = [pull EXCEPT
                       ![w].got = @ \cup (R \ bad),
                       ![w].page = IF full THEN @ + 1 ELSE 1,
                       ![w].stage = IF full THEN @ ELSE "publishing"]
  <2>1. PICK bad \in {{}} \cup {{m} : m \in PageOf(pull[w].run, pull[w].page)} :
           /\ IF bad = {} THEN UNCHANGED breaks ELSE Break
           /\ unpublished' = unpublished \cup {m[2] : m \in bad}
           /\ pull' = [pull EXCEPT
                 ![w].got = @ \cup (PageOf(pull[w].run, pull[w].page) \ bad),
                 ![w].page = IF Full(pull[w].run, pull[w].page) THEN @ + 1 ELSE 1,
                 ![w].stage = IF Full(pull[w].run, pull[w].page) THEN @ ELSE "publishing"]
    BY DEF Fetch
  <2>2. PageOf(pull[w].run, pull[w].page) = R /\ Full(pull[w].run, pull[w].page) = full
    BY <1>b, <1>e, <1>f
  <2>3. bad \subseteq R BY <2>1, <2>2
  <2>4. Break \/ UNCHANGED breaks BY <2>1
  <2>5. pull' = [pull EXCEPT
           ![w].got = @ \cup (R \ bad),
           ![w].page = IF full THEN @ + 1 ELSE 1,
           ![w].stage = IF full THEN @ ELSE "publishing"]
    BY <2>1, <2>2
  <2>6. QED BY <2>1, <2>3, <2>4, <2>5
<1>h. PICK k : k = [p EXCEPT !.got = p.got \cup (R \ bad),
                             !.page = IF full THEN p.page + 1 ELSE 1,
                             !.stage = IF full THEN p.stage ELSE "publishing"]
  OBVIOUS
<1>i. PICK more : more = {m[2] : m \in bad} OBVIOUS
<1>j. full \in BOOLEAN BY <1>e DEF Full
<1>1. pull \in [Pullers -> Pull] BY DEF ErpInv, ErpTypeOK
<1>2. pull' = [pull EXCEPT ![w] = k] BY <1>1, <1>b, <1>g, <1>h
<1>3. /\ k.got = p.got \cup (R \ bad)
      /\ k.page = (IF full THEN p.page + 1 ELSE 1)
      /\ k.stage = (IF full THEN p.stage ELSE "publishing")
      /\ k.run = p.run /\ k.met = p.met /\ k.shifted = p.shifted
  BY <1>h DEF Pull
<1>4. Paged(p, k, bad, full) BY <1>3, <1>f DEF Paged
<1>5. \A m \in R : m \in Nat \X Editions BY <1>c, <1>f, PageFacts
<1>6. more \subseteq Editions /\ \A m \in bad : m[2] \in more
  <2>1. \A m \in Nat \X Editions : m[2] \in Editions OBVIOUS
  <2>2. QED BY <1>5, <1>g, <1>i, <2>1
<1>7. k \in Pull
  <2>1. k.got \in SUBSET (Nat \X Editions) BY <1>3, <1>5 DEF Pull
  <2>2. k.page \in Nat \ {0} BY <1>3, <1>c
  <2>3. k.stage \in {"fetching", "publishing"} BY <1>3, <1>d
  <2>4. PICK g, n, s : g = k.got /\ n = k.page /\ s = k.stage OBVIOUS
  <2>5. k = [p EXCEPT !.got = g, !.page = n, !.stage = s] BY <1>3, <1>h, <2>4
  <2>6. g \in SUBSET (Nat \X Editions) /\ n \in Nat \ {0} /\ s \in {"fetching", "publishing"}
    BY <2>1, <2>2, <2>3, <2>4
  <2>7. QED BY <2>5, <2>6 DEF Pull
<1>8. Goes(w, k)
  <2>1. Pulling(pull[w]) /\ k.met = pull[w].met BY <1>b, <1>d, <1>3
  <2>2. QED BY <1>2, <1>7, <2>1 DEF Goes
<1>u. UNCHANGED <<system, hours, dated, listing, stamp, changed, edition, beats, syncTasks,
                  offered, lastWord, synced>>
  BY DEF Fetch, topicVars, recordVars, brokerVars
<1>9. PullFits(k)'
  <2>1. GotFits(k) BY <1>4, <1>c, <1>d, <1>e, FetchFits
  <2>2. GotFits(k)' BY <2>1, <1>u DEF GotFits
  <2>3. p.run # 0 => p.run <= hours BY <1>c, <1>d DEF PullFits
  <2>4. ASSUME p.run # 0, ~p.shifted, NEW r \in Listed, Covers(p.run, r)
        PROVE  Reached(k, r)'
    <3>1. Reached(p, r) BY <1>c, <1>d, <2>4 DEF PullFits
    <3>2. p.run \in Runs BY <1>c, <2>4
    <3>3. \/ <<r, edition[r]>> \in offered \cup (unpublished \cup more)
          \/ \E m \in k.got : m[2] = <<r, edition[r]>>
          \/ k.stage = "fetching" /\ Place(r, p.run) > (k.page - 1) * PageSize
      BY <1>4, <1>6, <1>c, <1>d, <1>e, <2>4, <3>1, <3>2, FetchReaches
    <3>4. Place(r, p.run)' = Place(r, p.run)
      BY <1>u DEF Place, Found, Matches, Listed, Since
    <3>5. unpublished' = unpublished \cup more BY <1>g, <1>i
    <3>6. CASE <<r, edition[r]>> \in offered \cup (unpublished \cup more)
      BY <1>u, <3>5, <3>6 DEF Reached, Settled
    <3>7. CASE \E m \in k.got : m[2] = <<r, edition[r]>> BY <1>u, <3>7 DEF Reached
    <3>8. CASE k.stage = "fetching" /\ Place(r, p.run) > (k.page - 1) * PageSize
      BY <1>3, <3>4, <3>8 DEF Reached
    <3>9. QED BY <3>3, <3>6, <3>7, <3>8
  <2>5. Listed' = Listed /\ hours' = hours /\ \A r : Covers(p.run, r)' <=> Covers(p.run, r)
    BY <1>u DEF Listed, Covers, Since
  <2>6. QED BY <1>3, <2>2, <2>3, <2>4, <2>5 DEF PullFits
<1>10. BooksTyped'
  <2>1. breaks' \in 0..MaxBreaks BY <1>a, <1>g, BreakKeeps
  <2>2. unpublished' \subseteq Editions BY <1>a, <1>6, <1>g, <1>i DEF BooksTyped
  <2>3. QED BY <1>a, <1>u, <2>1, <2>2 DEF BooksTyped
<1>11. TasksTimely' BY <1>u DEF TasksTimely, ErpInv
<1>12. WordsMove(w) BY <1>u DEF WordsMove, ErpInv, RecordsKnown
<1>13. SyncedMoves BY <1>u DEF SyncedMoves
<1>14. hours' \in 0..MaxHours /\ hours <= hours' BY <1>a, <1>u
<1>15. offered \subseteq offered' /\ unpublished \subseteq unpublished' BY <1>g, <1>u
<1>16. UNCHANGED <<system, dated, listing, stamp, changed, edition>> BY <1>u
<1>17. QED BY <1>8, <1>9, <1>10, <1>11, <1>12, <1>13, <1>14, <1>15, <1>16, PullMoves

(* What it is to find has a place behind the pages not yet fetched. *)
LEMMA StartReaches ==
    ASSUME ErpInv, NEW k, k.page = 1, k.stage = "fetching", k.run \in Runs,
           NEW r \in Listed, Covers(k.run, r)
    PROVE  Place(r, k.run) > (k.page - 1) * PageSize
<1>1. r \in Records BY DEF Listed
<1>2. stamp \in [Records -> 0..MaxHours] BY DEF ErpInv, ErpTypeOK
<1>3. r \in Found(k.run) BY <1>1, <1>2, CoversFacts DEF Found
<1>4. Place(r, k.run) > 0 BY <1>3, PlaceFacts
<1>5. (k.page - 1) * PageSize = 0
  <2>1. (1 - 1) * PageSize = 0 BY PageArith
  <2>2. QED BY <2>1
<1>6. QED BY <1>4, <1>5

LEMMA PullAgainKeeps == ASSUME ErpInv, NEW w \in Pullers, PullAgain(w) PROVE ErpInv'
<1>a. BooksTyped /\ hours \in 0..MaxHours /\ hours \in Nat /\ hours <= hours BY ErpTypes
<1>b. PICK p \in Pull : p = pull[w] BY PullOf
<1>c. PullFits(p) /\ (p.run # 0 => p.run \in Runs) BY <1>b, PullOf
<1>d. p.stage = "fetching" /\ Pulling(p) BY <1>b DEF PullAgain, Pulling
<1>u. UNCHANGED <<system, hours, dated, listing, stamp, changed, edition, beats, syncTasks,
                  offered, lastWord, synced, unpublished>>
      /\ Break
  BY DEF PullAgain, topicVars, recordVars, brokerVars
<1>1. PICK k : k = [p EXCEPT !.page = 1, !.got = {}, !.shifted = FALSE] OBVIOUS
<1>2. k.page = 1 /\ k.got = {} /\ k.shifted = FALSE /\ k.stage = "fetching"
      /\ k.run = p.run /\ k.met = p.met
  BY <1>1, <1>d DEF Pull
<1>3. k \in Pull
  <2>1. ASSUME NEW g \in SUBSET (Nat \X Editions), NEW n \in Nat \ {0}, NEW s \in BOOLEAN
        PROVE  [p EXCEPT !.page = n, !.got = g, !.shifted = s] \in Pull
    BY DEF Pull
  <2>2. {} \in SUBSET (Nat \X Editions) /\ 1 \in Nat \ {0} /\ FALSE \in BOOLEAN OBVIOUS
  <2>3. QED BY <1>1, <2>1, <2>2
<1>4. pull \in [Pullers -> Pull] BY DEF ErpInv, ErpTypeOK
<1>5. pull' = [pull EXCEPT ![w] = k] BY <1>1, <1>4, <1>b DEF PullAgain
<1>6. Goes(w, k)
  <2>1. Pulling(pull[w]) /\ k.met = pull[w].met BY <1>b, <1>d, <1>2
  <2>2. QED BY <1>3, <1>5, <2>1 DEF Goes
<1>7. PullFits(k)'
  <2>1. GotFits(k)'
    <3>1. \A m \in k.got : FALSE BY <1>2
    <3>2. QED BY <3>1 DEF GotFits
  <2>2. p.run # 0 => p.run <= hours BY <1>c, <1>d DEF PullFits
  <2>3. ASSUME p.run # 0, NEW r \in Listed, Covers(p.run, r) PROVE Reached(k, r)'
    <3>1. Place(r, k.run) > (k.page - 1) * PageSize BY <1>2, <1>c, <2>3, StartReaches
    <3>2. Place(r, k.run)' = Place(r, k.run)
      BY <1>u DEF Place, Found, Matches, Listed, Since
    <3>3. QED BY <1>2, <3>1, <3>2 DEF Reached
  <2>4. Listed' = Listed /\ hours' = hours /\ \A r : Covers(p.run, r)' <=> Covers(p.run, r)
    BY <1>u DEF Listed, Covers, Since
  <2>5. QED BY <1>2, <2>1, <2>2, <2>3, <2>4 DEF PullFits
<1>8. BooksTyped'
  <2>1. breaks' \in 0..MaxBreaks BY <1>a, <1>u, BreakKeeps
  <2>2. QED BY <1>a, <1>u, <2>1 DEF BooksTyped
<1>9. TasksTimely' BY <1>u DEF TasksTimely, ErpInv
<1>10. WordsMove(w) BY <1>u DEF WordsMove, ErpInv, RecordsKnown
<1>11. SyncedMoves BY <1>u DEF SyncedMoves
<1>12. hours' \in 0..MaxHours /\ hours <= hours' BY <1>a, <1>u
<1>13. offered \subseteq offered' /\ unpublished \subseteq unpublished' BY <1>u
<1>14. UNCHANGED <<system, dated, listing, stamp, changed, edition>> BY <1>u
<1>15. QED BY <1>6, <1>7, <1>8, <1>9, <1>10, <1>11, <1>12, <1>13, <1>14, PullMoves

LEMMA PublishNextKeeps == ASSUME ErpInv, NEW w \in Pullers, PublishNext(w) PROVE ErpInv'
<1>a. BooksTyped /\ hours \in 0..MaxHours /\ hours \in Nat /\ hours <= hours BY ErpTypes
<1>b. PICK p \in Pull : p = pull[w] BY PullOf
<1>c. PullFits(p) BY <1>b, PullOf
<1>d. p.stage = "publishing" /\ Pulling(p) BY <1>b DEF PublishNext, Pulling
<1>g. GotFits(p) BY <1>c, <1>d DEF PullFits
<1>u. UNCHANGED <<system, hours, dated, listing, stamp, changed, edition, beats, syncTasks,
                  synced>>
  BY DEF PublishNext, recordVars, brokerVars
<1>1. PICK m \in p.got :
         /\ \A n \in p.got : m[1] <= n[1]
         /\ Break \/ UNCHANGED breaks
         /\ \/ offered' = offered \cup {m[2]} /\ lastWord' = [lastWord EXCEPT ![m[2][1]] = m[2][2]]
            \/ UNCHANGED <<offered, lastWord>> /\ m[2] \in unpublished'
         /\ unpublished' = unpublished \/ unpublished' = unpublished \cup {m[2]}
         /\ pull' = [pull EXCEPT ![w].got = @ \ {m}]
  BY <1>b DEF PublishNext, Offer, topicVars
<1>2. PICK r, e : r = m[2][1] /\ e = m[2][2] OBVIOUS
<1>3. r \in Records /\ e \in 1..MaxVersions /\ m[2] \in Editions /\ m[2] = <<r, e>>
  <2>1. m \in Nat \X Editions BY DEF Pull
  <2>2. QED BY <1>2, <2>1 DEF Editions
<1>4. PICK k : k = [p EXCEPT !.got = p.got \ {m}] OBVIOUS
<1>5. k.got = p.got \ {m} /\ k.stage = "publishing" /\ k.run = p.run
      /\ k.met = p.met /\ k.shifted = p.shifted
  BY <1>4, <1>d DEF Pull
<1>6. k \in Pull BY <1>4 DEF Pull
<1>7. pull \in [Pullers -> Pull] BY DEF ErpInv, ErpTypeOK
<1>8. pull' = [pull EXCEPT ![w] = k] BY <1>1, <1>4, <1>7, <1>b
<1>9. Goes(w, k)
  <2>1. Pulling(pull[w]) /\ k.met = pull[w].met BY <1>b, <1>d, <1>5
  <2>2. QED BY <1>6, <1>8, <2>1 DEF Goes
<1>10. lastWord \in [Records -> 0..MaxVersions] BY <1>a DEF BooksTyped
<1>11. \A s \in Records : lastWord'[s] = lastWord[s] \/ (s = r /\ lastWord'[s] = e)
  BY <1>1, <1>2, <1>10
<1>12. offered \subseteq offered' /\ unpublished \subseteq unpublished'
       /\ m[2] \in offered' \cup unpublished'
  BY <1>1
<1>13. PullFits(k)'
  <2>1. GotFits(k)'
    <3>1. \A n \in k.got : n[2][2] <= edition[n[2][1]] BY <1>5, <1>g DEF GotFits
    <3>2. \A n, o \in k.got : n[2][1] = o[2][1] /\ n[1] <= o[1] => n[2][2] <= o[2][2]
      BY <1>5, <1>g DEF GotFits
    <3>3. ASSUME ~k.met, NEW n \in k.got PROVE lastWord'[n[2][1]] <= n[2][2]
      <4>1. n[2][1] \in Records
        <5>1. n \in Nat \X Editions BY <1>5 DEF Pull
        <5>2. QED BY <5>1 DEF Editions
      <4>2. lastWord[n[2][1]] <= n[2][2] BY <1>5, <1>g, <3>3 DEF GotFits
      <4>3. n[2][1] = r => e <= n[2][2] BY <1>1, <1>2, <1>5, <1>g DEF GotFits
      <4>4. QED BY <1>11, <4>1, <4>2, <4>3
    <3>4. QED BY <1>5, <1>u, <3>1, <3>2, <3>3 DEF GotFits
  <2>2. p.run # 0 => p.run <= hours BY <1>c, <1>d DEF PullFits
  <2>3. ASSUME p.run # 0, ~p.shifted, NEW s \in Listed, Covers(p.run, s)
        PROVE  Reached(k, s)'
    <3>1. Reached(p, s) BY <1>c, <1>d, <2>3 DEF PullFits
    <3>2. CASE Settled(s) BY <1>12, <1>u, <3>2 DEF Settled, Reached
    <3>3. CASE \E n \in p.got : n[2] = <<s, edition[s]>>
      <4>1. PICK n \in p.got : n[2] = <<s, edition[s]>> BY <3>3
      <4>2. CASE n = m BY <1>12, <1>u, <4>1, <4>2 DEF Settled, Reached
      <4>3. CASE n # m BY <1>5, <1>u, <4>1, <4>3 DEF Reached
      <4>4. QED BY <4>2, <4>3
    <3>4. QED BY <1>d, <3>1, <3>2, <3>3 DEF Reached
  <2>4. Listed' = Listed /\ hours' = hours /\ \A s : Covers(p.run, s)' <=> Covers(p.run, s)
    BY <1>u DEF Listed, Covers, Since
  <2>5. QED BY <1>5, <2>1, <2>2, <2>3, <2>4 DEF PullFits
<1>14. BooksTyped'
  <2>1. breaks' \in 0..MaxBreaks BY <1>1, <1>a, BreakKeeps
  <2>2. offered' \subseteq Editions /\ unpublished' \subseteq Editions
    BY <1>1, <1>3, <1>a DEF BooksTyped
  <2>3. lastWord' \in [Records -> 0..MaxVersions]
    <3>1. e \in 0..MaxVersions BY <1>3
    <3>2. QED BY <1>1, <1>2, <1>10, <3>1
  <2>4. QED BY <1>a, <1>u, <2>1, <2>2, <2>3 DEF BooksTyped
<1>15. TasksTimely' BY <1>u DEF TasksTimely, ErpInv
<1>16. WordsMove(w)
  <2>1. e <= edition[r] BY <1>2, <1>g DEF GotFits
  <2>2. \A s \in Records : lastWord'[s] <= edition[s]
    BY <1>11, <2>1 DEF ErpInv, RecordsKnown
  <2>3. ASSUME NEW x \in Pullers, x # w, Pulling(pull[x]) PROVE pull[x].met
    BY <1>b, <1>d, <2>3 DEF ErpInv, KnowOfEachOther
  <2>4. QED BY <2>2, <2>3 DEF WordsMove
<1>17. SyncedMoves BY <1>u DEF SyncedMoves
<1>18. hours' \in 0..MaxHours /\ hours <= hours' BY <1>a, <1>u
<1>19. UNCHANGED <<system, dated, listing, stamp, changed, edition>> BY <1>u
<1>20. QED BY <1>9, <1>12, <1>13, <1>14, <1>15, <1>16, <1>17, <1>18, <1>19, PullMoves

LEMMA StartPullKeeps ==
    ASSUME ErpInv, NEW w \in Pullers, NEW b \in {0} \cup Runs, NEW tries \in 0..PullTries,
           Start(w, b, tries), b # 0 => b <= hours,
           UNCHANGED <<system, hours, dated, listing, stamp, changed, edition, offered,
                       lastWord>>,
           UNCHANGED <<beats, breaks, synced, unpublished>>,
           syncTasks' \subseteq syncTasks
    PROVE  ErpInv'
<1>a. ErpTypeOK /\ RecordsKnown /\ TasksTimely /\ RunsDone /\ KnowOfEachOther
      /\ \A x \in Pullers : PullFits(pull[x])
  BY DEF ErpInv
<1>b. pull \in [Pullers -> Pull] BY <1>a DEF ErpTypeOK
<1>c. PICK met \in BOOLEAN : met <=> \E x \in Pullers : Busy(x) OBVIOUS
<1>d. PICK k : k = [stage |-> "fetching", run |-> b, tries |-> tries, page |-> 1,
                    got |-> {}, met |-> met, shifted |-> FALSE]
  OBVIOUS
<1>e. k \in Pull /\ k.stage = "fetching" /\ k.run = b /\ k.page = 1 /\ k.got = {} /\ k.met = met
  BY <1>d DEF Pull
<1>f. \A x \in Pullers : Busy(x) \in BOOLEAN /\ (Busy(x) <=> Pulling(pull[x])) BY DEF Busy, Pulling
<1>1. pull' = [x \in Pullers |-> IF x = w THEN k ELSE [pull[x] EXCEPT !.met = Busy(x)]]
  <2>1. (\E x \in Pullers : Busy(x)) = met BY <1>c
  <2>2. QED BY <1>d, <2>1 DEF Start
<1>2. pull'[w] = k BY <1>1
<1>3. ASSUME NEW x \in Pullers, x # w
      PROVE  /\ pull'[x] \in Pull
             /\ pull'[x].stage = pull[x].stage /\ pull'[x].run = pull[x].run
             /\ pull'[x].page = pull[x].page /\ pull'[x].got = pull[x].got
             /\ pull'[x].shifted = pull[x].shifted
             /\ Pulling(pull'[x]) => Pulling(pull[x]) /\ pull'[x].met
  <2>1. PICK p \in Pull : p = pull[x] BY <1>b
  <2>2. PICK m \in BOOLEAN : m <=> Pulling(p) OBVIOUS
  <2>3. Busy(x) = m BY <1>f, <2>1, <2>2
  <2>4. pull'[x] = [p EXCEPT !.met = m] BY <1>1, <1>3, <2>1, <2>3
  <2>5. PICK j : j = [p EXCEPT !.met = m] OBVIOUS
  <2>6. j \in Pull BY <2>5 DEF Pull
  <2>7. j.stage = p.stage /\ j.run = p.run /\ j.page = p.page /\ j.got = p.got
        /\ j.shifted = p.shifted /\ j.met = m
    BY <2>5 DEF Pull
  <2>8. Pulling(j) => Pulling(p) /\ j.met BY <2>2, <2>7 DEF Pulling
  <2>9. QED BY <2>1, <2>4, <2>5, <2>6, <2>7, <2>8
<1>l. Listed' = Listed BY DEF Listed
<1>4. ErpTypeOK'
  <2>1. pull' \in [Pullers -> Pull]
    <3>1. \A x \in Pullers : pull'[x] \in Pull BY <1>2, <1>3, <1>e
    <3>2. pull' = [x \in Pullers |-> pull'[x]] BY <1>1
    <3>3. QED BY <3>1, <3>2
  <2>2. PICK T : T = [run : Runs, tries : 0..PullTries] OBVIOUS
  <2>3. syncTasks' \subseteq T BY <1>a, <2>2 DEF ErpTypeOK
  <2>4. syncTasks' \subseteq [run : Runs, tries : 0..PullTries] BY <2>2, <2>3
  <2>5. (listing \subseteq Listed \X Listed)' BY <1>a, <1>l DEF ErpTypeOK
  <2>6. QED BY <1>a, <1>l, <2>1, <2>4, <2>5 DEF ErpTypeOK
<1>5. RecordsKnown' BY <1>a, <1>l DEF RecordsKnown
<1>6. TasksTimely' BY <1>a DEF TasksTimely
<1>7. RunsDone'
  <2>1. ASSUME NEW c, Complete(c) PROVE Complete(c)'
    BY <1>l, <2>1 DEF Complete, Covers, Since, Settled
  <2>2. QED BY <1>a, <2>1 DEF RunsDone
<1>8. KnowOfEachOther'
  <2>1. ASSUME NEW x \in Pullers, NEW y \in Pullers, x # y, Pulling(pull'[x]), Pulling(pull'[y])
        PROVE  pull'[x].met
    <3>1. CASE x # w BY <1>3, <2>1, <3>1
    <3>2. CASE x = w
      <4>1. Pulling(pull[y]) BY <1>3, <2>1, <3>2
      <4>2. met BY <1>c, <1>f, <4>1
      <4>3. QED BY <1>2, <1>e, <3>2, <4>2
    <3>3. QED BY <3>1, <3>2
  <2>2. QED BY <2>1 DEF KnowOfEachOther, Pulling
<1>r. \A r \in Listed : \A c : Covers(c, r)' <=> Covers(c, r) BY DEF Covers, Since
<1>9. ASSUME NEW x \in Pullers, x # w PROVE PullFits(pull[x])'
  <2>1. PICK p, j : p = pull[x] /\ j = pull'[x] OBVIOUS
  <2>2. PullFits(p) BY <1>a, <2>1
  <2>3. /\ j.stage = p.stage /\ j.run = p.run /\ j.page = p.page /\ j.got = p.got
        /\ j.shifted = p.shifted
        /\ Pulling(j) => Pulling(p) /\ j.met
    BY <1>3, <1>9, <2>1
  <2>4. PullFits(j)'
    <3>1. SUFFICES ASSUME Pulling(j)
          PROVE  /\ j.run # 0 => j.run <= hours
                 /\ GotFits(j)'
                 /\ j.run # 0 /\ ~j.shifted => \A r \in Listed : Covers(j.run, r) => Reached(j, r)'
      BY <1>l, <1>r DEF PullFits, Pulling
    <3>2. Pulling(p) /\ j.met BY <2>3, <3>1
    <3>3. GotFits(j)' BY <2>2, <2>3, <3>2 DEF PullFits, GotFits
    <3>4. ASSUME NEW r, Reached(p, r) PROVE Reached(j, r)'
      <4>1. CASE Settled(r) BY <4>1 DEF Reached, Settled
      <4>2. CASE \E m \in p.got : m[2] = <<r, edition[r]>> BY <2>3, <4>2 DEF Reached
      <4>3. CASE p.stage = "fetching" /\ Place(r, p.run) > (p.page - 1) * PageSize
        <5>1. Place(r, p.run)' = Place(r, p.run)
          BY DEF Place, Found, Matches, Listed, Since
        <5>2. QED BY <2>3, <4>3, <5>1 DEF Reached
      <4>4. QED BY <3>4, <4>1, <4>2, <4>3 DEF Reached
    <3>5. QED BY <2>2, <2>3, <3>2, <3>3, <3>4 DEF PullFits
  <2>5. QED BY <2>1, <2>4 DEF PullFits, GotFits, Reached, Pulling
<1>10. PullFits(k)'
  <2>1. GotFits(k)'
    <3>1. \A m \in k.got : FALSE BY <1>e
    <3>2. QED BY <3>1 DEF GotFits
  <2>2. ASSUME b # 0, NEW r \in Listed, Covers(b, r) PROVE Reached(k, r)'
    <3>1. Place(r, k.run) > (k.page - 1) * PageSize
      <4>1. k.run \in Runs BY <1>e, <2>2
      <4>2. Covers(k.run, r) BY <1>e, <2>2
      <4>3. QED BY <1>e, <4>1, <4>2, StartReaches
    <3>2. Place(r, k.run)' = Place(r, k.run) BY DEF Place, Found, Matches, Listed, Since
    <3>3. QED BY <1>e, <3>1, <3>2 DEF Reached
  <2>3. QED BY <1>e, <1>l, <1>r, <2>1, <2>2 DEF PullFits
<1>11. \A x \in Pullers : PullFits(pull[x])'
  <2>1. PullFits(pull[w])' BY <1>2, <1>10 DEF PullFits, GotFits, Reached, Pulling
  <2>2. QED BY <1>9, <2>1
<1>12. QED BY <1>4, <1>5, <1>6, <1>7, <1>8, <1>11 DEF ErpInv

LEMMA TakeSyncKeeps ==
    ASSUME ErpInv, NEW w \in SyncWorkers, NEW t \in syncTasks, TakeSync(w, t) PROVE ErpInv'
<1>1. BooksTyped /\ w \in Pullers BY ErpTypes DEF Pullers
<1>2. PICK b, n : b = t.run /\ n = t.tries OBVIOUS
<1>3. b \in {0} \cup Runs /\ n \in 0..PullTries BY <1>1, <1>2 DEF BooksTyped
<1>4. Start(w, b, n) BY <1>2 DEF TakeSync
<1>5. b <= hours BY <1>2 DEF ErpInv, TasksTimely
<1>6. UNCHANGED <<system, hours, dated, listing, stamp, changed, edition, offered, lastWord>>
      /\ UNCHANGED <<beats, breaks, synced, unpublished>> /\ syncTasks' \subseteq syncTasks
  BY DEF TakeSync, topicVars, recordVars
<1>7. QED BY <1>1, <1>3, <1>4, <1>5, <1>6, StartPullKeeps

LEMMA TriggerKeeps == ASSUME ErpInv, NEW w \in SyncRequests, Trigger(w) PROVE ErpInv'
<1>1. w \in Pullers /\ 0 \in {0} \cup Runs /\ 0 \in 0..PullTries BY ErpAssumption DEF Pullers
<1>2. Start(w, 0, 0) BY DEF Trigger
<1>3. UNCHANGED <<system, hours, dated, listing, stamp, changed, edition, offered, lastWord>>
      /\ UNCHANGED <<beats, breaks, synced, unpublished>> /\ syncTasks' \subseteq syncTasks
  BY DEF Trigger, topicVars, recordVars, brokerVars
<1>4. QED BY <1>1, <1>2, <1>3, StartPullKeeps

(* A pull goes on as it was, or learns that a record is gone. *)
Follows(p, j) ==
    /\ j \in Pull
    /\ j.stage = p.stage /\ j.run = p.run /\ j.page = p.page /\ j.got = p.got /\ j.met = p.met
    /\ ~j.shifted => ~p.shifted

(* A step of the ERP: what the runs so far cover stays as it is. *)
LEMMA ErpMoves ==
    ASSUME ErpInv, ErpTypeOK', RecordsKnown',
           UNCHANGED <<hours, beats, syncTasks, offered, lastWord, synced, unpublished>>,
           \A b \in Runs : b <= hours => Held(b),
           \A r \in Records : edition[r] <= edition'[r],
           \A w \in Pullers : Follows(pull[w], pull'[w]),
           \/ \A w \in Pullers : pull'[w].stage = "fetching" => pull'[w].shifted
           \/ \A b \in Runs : b <= hours => PlacesHeld(b)
    PROVE  ErpInv'
<1>a. ErpTypeOK /\ RecordsKnown /\ TasksTimely /\ RunsDone /\ KnowOfEachOther
      /\ \A x \in Pullers : PullFits(pull[x])
  BY DEF ErpInv
<1>d. Forward
  <2>1. hours \in Nat /\ hours' = hours /\ hours <= hours BY <1>a, ErpTypes
  <2>2. QED BY <2>1 DEF Forward
<1>1. TasksTimely' BY <1>a DEF TasksTimely
<1>2. RunsDone'
  <2>1. ASSUME NEW b \in synced' PROVE Complete(b)'
    <3>0. b \in Runs BY <1>a DEF ErpTypeOK
    <3>1. Complete(b) BY <1>a, <2>1 DEF RunsDone
    <3>2. Held(b) BY <3>0, <3>1 DEF Complete
    <3>3. QED BY <1>d, <3>0, <3>1, <3>2, CompleteKeeps
  <2>2. QED BY <2>1 DEF RunsDone
<1>3. KnowOfEachOther' BY <1>a DEF KnowOfEachOther, Follows, Pulling
<1>4. \A r \in Records : edition[r] \in Nat /\ edition'[r] \in Nat /\ edition[r] <= edition'[r]
  <2>1. \A r \in Records : edition[r] \in Nat BY <1>a, TypeNumbers
  <2>2. edition' \in [Records -> 0..MaxVersions] BY DEF ErpTypeOK
  <2>3. \A r \in Records : edition'[r] \in Nat BY <2>2
  <2>4. QED BY <2>1, <2>3
<1>5. ASSUME NEW w \in Pullers PROVE PullFits(pull[w])'
  <2>1. PICK p, j : p = pull[w] /\ j = pull'[w] OBVIOUS
  <2>2. Follows(p, j) /\ PullFits(p) BY <1>a, <2>1
  <2>3. j \in Pull BY <2>2 DEF Follows
  <2>4. CASE ~Pulling(j)
    <3>1. PullFits(j)' BY <2>4 DEF PullFits, Pulling
    <3>2. QED BY <2>1, <3>1 DEF PullFits, GotFits, Reached, Pulling
  <2>5. CASE Pulling(j)
    <3>1. PullFits(j)
      BY <2>2, <2>5 DEF Follows, PullFits, GotFits, Reached, Pulling
    <3>2. j.run # 0 => j.run \in Runs /\ j.run <= hours
      BY <2>3, <2>5, <3>1 DEF Pull, PullFits
    <3>3. j.run # 0 => Held(j.run) BY <3>2
    <3>4. j.run # 0 /\ j.stage = "fetching" /\ ~j.shifted => PlacesHeld(j.run)
      BY <2>1, <3>2
    <3>5. lastWord' = lastWord \/ j.met OBVIOUS
    <3>6. PullFits(j)' BY <1>4, <1>d, <2>3, <3>1, <3>3, <3>4, <3>5, FitKeeps
    <3>7. QED BY <2>1, <3>6 DEF PullFits, GotFits, Reached, Pulling
  <2>6. QED BY <2>4, <2>5
<1>6. QED BY <1>1, <1>2, <1>3, <1>5 DEF ErpInv

(* Orders: with an element at the front, at the end, and without one. *)
Order(L, D) ==
    /\ L \subseteq D \X D
    /\ \A x, y \in D : <<x, y>> \in L \/ <<y, x>> \in L
    /\ \A x, y, z \in D : <<x, y>> \in L /\ <<y, z>> \in L => <<x, z>> \in L /\ (x = z => x = y)

Dropped(L, r) == {p \in L : r \notin {p[1], p[2]}}

LEMMA PairFacts ==
    ASSUME NEW L, NEW D, L \subseteq D \X D, NEW r
    PROVE  /\ \A x, y : <<x, y>> \in Dropped(L, r) <=> <<x, y>> \in L /\ x # r /\ y # r
           /\ \A x, y : <<x, y>> \in L => x \in D /\ y \in D
BY DEF Dropped

LEMMA OrderByPairs ==
    ASSUME NEW M, NEW E, M \subseteq E \X E,
           \A x, y \in E : <<x, y>> \in M \/ <<y, x>> \in M,
           \A x, y, z \in E : <<x, y>> \in M /\ <<y, z>> \in M =>
               <<x, z>> \in M /\ (x = z => x = y)
    PROVE  Order(M, E) /\ \A x : x \in E <=> <<x, x>> \in M
<1>1. Order(M, E) BY DEF Order
<1>2. \A x \in E : <<x, x>> \in M OBVIOUS
<1>3. \A x : <<x, x>> \in M => x \in E OBVIOUS
<1>4. QED BY <1>1, <1>2, <1>3

LEMMA DropOrder ==
    ASSUME NEW L, NEW D, Order(L, D), NEW r, NEW M, M = Dropped(L, r)
    PROVE  Order(M, D \ {r}) /\ \A x : x \in D \ {r} <=> <<x, x>> \in M
<1>1. \A x, y : <<x, y>> \in M <=> <<x, y>> \in L /\ x # r /\ y # r
  <2>1. L \subseteq D \X D BY DEF Order
  <2>2. \A x, y : <<x, y>> \in Dropped(L, r) <=> <<x, y>> \in L /\ x # r /\ y # r
    BY <2>1, PairFacts
  <2>3. QED BY <2>2
<1>2. M \subseteq (D \ {r}) \X (D \ {r}) BY DEF Order, Dropped
<1>3. PICK E : E = D \ {r} OBVIOUS
<1>4. \A x, y \in E : <<x, y>> \in M \/ <<y, x>> \in M BY <1>1, <1>3 DEF Order
<1>5. \A x, y, z \in E : <<x, y>> \in M /\ <<y, z>> \in M =>
          <<x, z>> \in M /\ (x = z => x = y)
  BY <1>1, <1>3 DEF Order
<1>6. M \subseteq E \X E BY <1>2, <1>3
<1>7. Order(M, E) /\ \A x : x \in E <=> <<x, x>> \in M BY <1>4, <1>5, <1>6, OrderByPairs
<1>8. QED BY <1>3, <1>7

LEMMA FrontOrder ==
    ASSUME NEW L, NEW D, Order(L, D), NEW r,
           NEW M, M = Dropped(L, r) \cup ({r} \X (D \cup {r}))
    PROVE  /\ Order(M, D \cup {r}) /\ \A x : x \in D \cup {r} <=> <<x, x>> \in M
           /\ \A x, y : <<x, y>> \in L /\ y # r => <<x, y>> \in M
<1>1. \A x, y : <<x, y>> \in M <=> (x = r /\ y \in D \cup {r}) \/ (<<x, y>> \in L /\ x # r /\ y # r)
  <2>1. \A x, y : <<x, y>> \in Dropped(L, r) <=> <<x, y>> \in L /\ x # r /\ y # r
    BY PairFacts DEF Order
  <2>2. \A x, y : <<x, y>> \in {r} \X (D \cup {r}) <=> x = r /\ y \in D \cup {r} OBVIOUS
  <2>3. QED BY <2>1, <2>2
<1>2. PICK E : E = D \cup {r} OBVIOUS
<1>l. \A x, y : <<x, y>> \in L => x \in D /\ y \in D BY PairFacts DEF Order
<1>3. M \subseteq E \X E BY <1>2 DEF Order, Dropped
<1>4. \A x, y \in E : <<x, y>> \in M \/ <<y, x>> \in M BY <1>1, <1>2 DEF Order
<1>5. ASSUME NEW x \in E, NEW y \in E, NEW z \in E, <<x, y>> \in M, <<y, z>> \in M
      PROVE  <<x, z>> \in M /\ (x = z => x = y)
  <2>1. CASE x = r BY <1>1, <1>2, <1>5, <2>1
  <2>2. CASE x # r
    <3>1. <<x, y>> \in L /\ y # r BY <1>1, <1>5, <2>2
    <3>2. <<y, z>> \in L /\ z # r BY <1>1, <1>5, <3>1
    <3>3. x \in D /\ y \in D /\ z \in D BY <1>l, <3>1, <3>2
    <3>4. <<x, z>> \in L /\ (x = z => x = y) BY <3>1, <3>2, <3>3 DEF Order
    <3>5. QED BY <1>1, <2>2, <3>2, <3>4
  <2>3. QED BY <2>1, <2>2
<1>6. Order(M, E) /\ \A x : x \in E <=> <<x, x>> \in M BY <1>3, <1>4, <1>5, OrderByPairs
<1>7. \A x, y : <<x, y>> \in L /\ y # r => <<x, y>> \in M BY <1>1, <1>l
<1>8. QED BY <1>2, <1>6, <1>7

LEMMA LastOrder ==
    ASSUME NEW L, NEW D, Order(L, D), NEW r, r \notin D,
           NEW M, M = L \cup ((D \cup {r}) \X {r})
    PROVE  Order(M, D \cup {r}) /\ \A x : x \in D \cup {r} <=> <<x, x>> \in M
<1>1. \A x, y : <<x, y>> \in M <=> <<x, y>> \in L \/ (y = r /\ x \in D \cup {r})
  <2>1. \A x, y : <<x, y>> \in (D \cup {r}) \X {r} <=> y = r /\ x \in D \cup {r} OBVIOUS
  <2>2. QED BY <2>1
<1>2. PICK E : E = D \cup {r} OBVIOUS
<1>l. \A x, y : <<x, y>> \in L => x \in D /\ y \in D BY PairFacts DEF Order
<1>3. M \subseteq E \X E BY <1>2 DEF Order
<1>4. \A x, y \in E : <<x, y>> \in M \/ <<y, x>> \in M BY <1>1, <1>2 DEF Order
<1>5. ASSUME NEW x \in E, NEW y \in E, NEW z \in E, <<x, y>> \in M, <<y, z>> \in M
      PROVE  <<x, z>> \in M /\ (x = z => x = y)
  <2>1. CASE z = r
    <3>1. <<x, z>> \in M BY <1>1, <1>2, <2>1
    <3>2. ASSUME x = z PROVE x = y BY <1>1, <1>5, <1>l, <2>1, <3>2
    <3>3. QED BY <3>1, <3>2
  <2>2. CASE z # r
    <3>1. <<y, z>> \in L BY <1>1, <1>5, <2>2
    <3>2. y \in D /\ y # r BY <1>l, <3>1
    <3>3. <<x, y>> \in L BY <1>1, <1>5, <3>2
    <3>4. x \in D /\ z \in D BY <1>l, <3>1, <3>3
    <3>5. <<x, z>> \in L /\ (x = z => x = y) BY <3>1, <3>2, <3>3, <3>4 DEF Order
    <3>6. QED BY <1>1, <3>5
  <2>3. QED BY <2>1, <2>2
<1>6. Order(M, E) /\ \A x : x \in E <=> <<x, x>> \in M BY <1>3, <1>4, <1>5, OrderByPairs
<1>7. QED BY <1>2, <1>6

LEMMA ListingOrder ==
    ASSUME ErpTypeOK PROVE Order(listing, Listed)
BY DEF ErpTypeOK, Order

LEMMA MovedOrder ==
    ASSUME ErpTypeOK, NEW x \in Records
    PROVE  /\ Order(Moved(x), Listed \cup {x})
           /\ \A r : r \in Listed \cup {x} <=> <<r, r>> \in Moved(x)
           /\ \A y, r : <<y, r>> \in listing /\ r # x => <<y, r>> \in Moved(x)
<1>1. Order(listing, Listed) BY ListingOrder
<1>2. PICK L, D : L = listing /\ D = Listed OBVIOUS
<1>o. Order(L, D) BY <1>1, <1>2
<1>3. CASE system = "oracle"
  <2>1. Moved(x) = Without(x) \cup ({x} \X (Listed \cup {x})) BY <1>3 DEF Moved
  <2>2. PICK M : M = Dropped(L, x) \cup ({x} \X (D \cup {x})) OBVIOUS
  <2>3. Moved(x) = M BY <1>2, <2>1, <2>2 DEF Without, Dropped
  <2>4. /\ Order(M, D \cup {x}) /\ \A y : y \in D \cup {x} <=> <<y, y>> \in M
        /\ \A y, z : <<y, z>> \in L /\ z # x => <<y, z>> \in M
    BY <1>o, <2>2, FrontOrder
  <2>5. QED BY <1>2, <2>3, <2>4
<1>4. CASE system # "oracle" /\ x \in Listed
  <2>1. Moved(x) = listing BY <1>4 DEF Moved
  <2>2. Listed \cup {x} = Listed BY <1>4
  <2>3. \A r \in Listed : <<r, r>> \in listing BY DEF Listed
  <2>4. \A r : <<r, r>> \in listing => r \in Listed BY <1>1 DEF Order
  <2>5. QED BY <1>1, <2>1, <2>2, <2>3, <2>4
<1>5. CASE system # "oracle" /\ x \notin Listed
  <2>1. Moved(x) = listing \cup ((Listed \cup {x}) \X {x}) BY <1>5 DEF Moved
  <2>2. PICK M : M = L \cup ((D \cup {x}) \X {x}) OBVIOUS
  <2>3. Moved(x) = M BY <1>2, <2>1, <2>2
  <2>4. Order(M, D \cup {x}) /\ \A y : y \in D \cup {x} <=> <<y, y>> \in M
    BY <1>2, <1>o, <1>5, <2>2, LastOrder
  <2>5. L \subseteq M BY <2>2
  <2>6. QED BY <1>2, <2>3, <2>4, <2>5
<1>6. QED BY <1>3, <1>4, <1>5

LEMMA ListingMoved ==
    ASSUME NEW x \in Records, ErpTypeOK, listing' = Moved(x)
    PROVE  /\ Listed' = Listed \cup {x}
           /\ Order(listing', Listed')
           /\ \A y, r : <<y, r>> \in listing /\ r # x => <<y, r>> \in listing'
<1>1. PICK M : M = Moved(x) OBVIOUS
<1>2. /\ Order(M, Listed \cup {x})
      /\ \A r : r \in Listed \cup {x} <=> <<r, r>> \in M
      /\ \A y, r : <<y, r>> \in listing /\ r # x => <<y, r>> \in M
  BY <1>1, MovedOrder
<1>3. listing' = M BY <1>1
<1>4. Listed \cup {x} \subseteq Records BY DEF Listed
<1>5. Listed' = {r \in Records : <<r, r>> \in M} BY <1>3 DEF Listed
<1>6. Listed' = Listed \cup {x} BY <1>2, <1>4, <1>5
<1>7. QED BY <1>2, <1>3, <1>6

(* The change is under way, and so not what a run so far covers, by what stamp; a place it leaves is taken before the others or kept. *)
LEMMA ChangeHeld ==
    ASSUME ErpInv, NEW x \in Records, Change(x), NEW b \in Runs, b <= hours
    PROVE  Held(b) /\ PlacesHeld(b)
<1>a. ErpTypeOK /\ RecordsKnown BY DEF ErpInv
<1>b. /\ stamp \in [Records -> 0..MaxHours] /\ changed \in [Records -> 0..MaxHours]
      /\ edition \in [Records -> 0..MaxVersions] /\ hours \in Nat
  BY <1>a, TypeNumbers DEF ErpTypeOK
<1>c. /\ Listed' = Listed \cup {x}
      /\ \A y, r : <<y, r>> \in listing /\ r # x => <<y, r>> \in listing'
  BY <1>a, ListingMoved DEF Change
<1>d. /\ \A r \in Records : r # x => stamp'[r] = stamp[r] /\ edition'[r] = edition[r]
      /\ \A r \in Records : r # x => changed'[r] = changed[r]
      /\ changed'[x] = hours /\ system' = system
  BY <1>b DEF Change
<1>e. PICK h, s : h = b /\ s = Since(b) OBVIOUS
<1>f. h \in Nat /\ s \in Int /\ s < h /\ h <= hours BY <1>e, RunFacts
<1>g. \A r : Covers(b, r)' <=> stamp'[r] = changed'[r] /\ s < stamp'[r] /\ stamp'[r] < h
  BY <1>e DEF Covers, Since
<1>h. ~Covers(b, x)' BY <1>b, <1>d, <1>f, <1>g
<1>1. ASSUME NEW r \in Records, r \in Listed', Covers(b, r)'
      PROVE  r # x /\ r \in Listed /\ Covers(b, r) /\ edition'[r] = edition[r]
  <2>1. r # x BY <1>1, <1>h
  <2>2. stamp[r] = changed[r] /\ s < stamp[r] /\ stamp[r] < h BY <1>1, <1>d, <1>g, <2>1
  <2>3. QED BY <1>1, <1>c, <1>d, <1>e, <2>1, <2>2 DEF Covers
<1>2. ASSUME NEW r \in Records, r \in Listed', Covers(b, r)' PROVE Place(r, b) <= Place(r, b)'
  <2>1. r # x BY <1>1, <1>2
  <2>2. PICK A, B : /\ A = {y \in Found(b) : <<y, r>> \in listing}
                    /\ B = {y \in Found(b)' : <<y, r>> \in listing'}
    OBVIOUS
  <2>3. ASSUME NEW y \in A PROVE y \in B
    <3>1. y \in Listed /\ y \in Records /\ Matches(y, b) /\ <<y, r>> \in listing
      BY <2>2 DEF Found, Listed
    <3>2. y \in Listed' /\ <<y, r>> \in listing' BY <1>c, <2>1, <3>1
    <3>3. Matches(y, b)'
      <4>1. CASE y # x BY <1>d, <3>1, <4>1 DEF Matches, Since
      <4>2. CASE y = x
        <5>1. edition[x] > 0 BY <1>a, <3>1, <4>2 DEF RecordsKnown
        <5>2. stamp'[x] = hours \/ stamp'[x] = stamp[x] BY <1>b, <5>1 DEF Change, FilterDates
        <5>3. CASE stamp'[x] = hours
          <6>1. hours > s BY <1>b, <1>f
          <6>2. stamp'[y] > s BY <4>2, <5>3, <6>1
          <6>3. QED BY <1>e, <6>2 DEF Matches, Since
        <5>4. CASE stamp'[x] = stamp[x] BY <1>d, <3>1, <4>2, <5>4 DEF Matches, Since
        <5>5. QED BY <5>2, <5>3, <5>4
      <4>3. QED BY <4>1, <4>2
    <3>4. QED BY <2>2, <3>2, <3>3 DEF Found
  <2>4. B \subseteq Records BY <2>2 DEF Found, Listed
  <2>5. IsFiniteSet(B) /\ A \subseteq B BY <2>3, <2>4, ErpAssumption, FS_Subset
  <2>6. Cardinality(A) <= Cardinality(B) BY <2>5, FS_Subset
  <2>7. QED BY <2>2, <2>6 DEF Place
<1>3. QED BY <1>1, <1>2 DEF Held, PlacesHeld

LEMMA ChangeKeeps == ASSUME ErpInv, NEW x \in Records, Change(x) PROVE ErpInv'
<1>a. ErpTypeOK /\ RecordsKnown BY DEF ErpInv
<1>b. /\ stamp \in [Records -> 0..MaxHours] /\ edition \in [Records -> 0..MaxVersions]
      /\ lastWord \in [Records -> 0..MaxVersions] /\ hours \in 0..MaxHours
      /\ changed \in [Records -> 0..MaxHours]
  BY <1>a DEF ErpTypeOK
<1>c. Listed' = Listed \cup {x} /\ Order(listing', Listed') BY <1>a, ListingMoved DEF Change
<1>d. /\ UNCHANGED <<system, dated, hours, beats, syncTasks, pull, offered, lastWord,
                     breaks, synced,
                     unpublished>>
      /\ edition[x] < MaxVersions /\ system # "none"
      /\ edition' = [edition EXCEPT ![x] = @ + 1] /\ changed' = [changed EXCEPT ![x] = hours]
  BY DEF Change, topicVars, brokerVars
<1>e. MaxVersions \in Nat /\ MaxHours \in Nat BY ErpAssumption
<1>s. PICK s \in 0..hours : stamp' = [stamp EXCEPT ![x] = s]
  <2>1. PICK s \in FilterDates(x) : stamp' = [stamp EXCEPT ![x] = s] BY DEF Change
  <2>2. stamp[x] \in Nat /\ stamp[x] <= hours BY <1>a, <1>b DEF RecordsKnown
  <2>3. hours \in 0..hours /\ stamp[x] \in 0..hours BY <1>b, <2>2
  <2>4. s \in 0..hours BY <2>1, <2>3 DEF FilterDates
  <2>5. QED BY <2>1, <2>4
<1>1. /\ edition' \in [Records -> 0..MaxVersions] /\ stamp' \in [Records -> 0..MaxHours]
      /\ changed' \in [Records -> 0..MaxHours]
      /\ \A r \in Records : edition[r] <= edition'[r]
  <2>1. PICK e : e = edition[x] OBVIOUS
  <2>2. e \in 0..MaxVersions /\ e < MaxVersions BY <1>b, <1>d, <2>1
  <2>3. e + 1 \in 0..MaxVersions /\ e <= e + 1 BY <1>e, <2>2
  <2>4. edition' = [edition EXCEPT ![x] = e + 1] BY <1>d, <2>1
  <2>5. edition' \in [Records -> 0..MaxVersions] BY <1>b, <2>3, <2>4
  <2>6. \A r \in Records : r # x => edition'[r] = edition[r] BY <1>b, <2>4
  <2>7. edition'[x] = e + 1 BY <1>b, <2>4
  <2>8. ASSUME NEW r \in Records PROVE edition[r] <= edition'[r]
    <3>1. CASE r = x BY <2>1, <2>3, <2>7, <3>1
    <3>2. CASE r # x
      <4>1. edition[r] \in Nat BY <1>b
      <4>2. edition'[r] = edition[r] BY <2>6, <3>2
      <4>3. PICK f : f = edition[r] OBVIOUS
      <4>4. f \in Nat /\ edition'[r] = f BY <4>1, <4>2, <4>3
      <4>5. QED BY <4>3, <4>4
    <3>3. QED BY <3>1, <3>2
  <2>9. stamp' \in [Records -> 0..MaxHours] /\ changed' \in [Records -> 0..MaxHours]
    <3>1. s \in 0..MaxHours BY <1>b, <1>e, <1>s
    <3>2. QED BY <1>b, <1>d, <1>s, <3>1
  <2>10. QED BY <2>5, <2>8, <2>9
<1>2. ErpTypeOK'
  <2>1. (listing \subseteq Listed \X Listed)'
        /\ (\A y, r \in Listed : <<y, r>> \in listing \/ <<r, y>> \in listing)'
        /\ (\A y, z, r \in Listed : <<y, z>> \in listing /\ <<z, r>> \in listing =>
              <<y, r>> \in listing /\ (y = r => y = z))'
    BY <1>c DEF Order
  <2>2. QED BY <1>a, <1>d, <1>1, <2>1 DEF ErpTypeOK
<1>3. RecordsKnown'
  <2>1. ASSUME NEW r \in Records PROVE stamp'[r] <= hours /\ lastWord[r] <= edition'[r]
    <3>1. stamp'[r] <= hours
      <4>1. CASE r = x
        <5>1. stamp'[r] = s /\ s <= hours BY <1>b, <1>s, <4>1
        <5>2. QED BY <1>b, <5>1
      <4>2. CASE r # x BY <1>a, <1>b, <1>s, <4>2 DEF RecordsKnown
      <4>3. QED BY <4>1, <4>2
    <3>2. PICK l, e, f : l = lastWord[r] /\ e = edition[r] /\ f = edition'[r] OBVIOUS
    <3>3. l \in Nat /\ e \in Nat /\ f \in Nat /\ e <= f BY <1>b, <1>1, <3>2
    <3>4. l <= e BY <1>a, <3>2 DEF RecordsKnown
    <3>5. l <= f BY <3>3, <3>4
    <3>6. QED BY <3>1, <3>2, <3>5
  <2>2. ASSUME NEW r \in Listed' PROVE edition'[r] > 0
    <3>1. CASE r = x
      <4>1. PICK e : e = edition[x] OBVIOUS
      <4>2. e \in Nat BY <1>b, <4>1
      <4>3. edition'[r] = e + 1 BY <1>b, <1>d, <3>1, <4>1
      <4>4. QED BY <4>2, <4>3
    <3>2. CASE r # x
      <4>1. r \in Listed /\ r \in Records BY <1>c, <3>2 DEF Listed
      <4>2. edition'[r] = edition[r] BY <1>b, <1>d, <3>2, <4>1
      <4>3. edition[r] > 0 BY <1>a, <4>1 DEF RecordsKnown
      <4>4. QED BY <4>2, <4>3
    <3>3. QED BY <3>1, <3>2
  <2>3. QED BY <1>d, <2>1, <2>2 DEF RecordsKnown
<1>4. ASSUME NEW w \in Pullers PROVE Follows(pull[w], pull'[w])
  <2>1. pull[w] \in Pull BY PullOf
  <2>2. pull'[w] = pull[w] BY <1>d
  <2>3. QED BY <2>1, <2>2 DEF Follows
<1>5. \A b \in Runs : b <= hours => Held(b) /\ PlacesHeld(b) BY ChangeHeld
<1>6. UNCHANGED <<hours, beats, syncTasks, offered, lastWord, synced, unpublished>> BY <1>d
<1>7. QED BY <1>1, <1>2, <1>3, <1>4, <1>5, <1>6, ErpMoves

LEMMA DeleteKeeps == ASSUME ErpInv, NEW x \in Records, Delete(x) PROVE ErpInv'
<1>a. ErpTypeOK /\ RecordsKnown BY DEF ErpInv
<1>d. /\ UNCHANGED <<system, dated, hours, stamp, changed, edition, beats, syncTasks,
                     offered, lastWord, breaks, synced,
                     unpublished>>
      /\ x \in Listed
  BY DEF Delete, topicVars, brokerVars
<1>1. Listed' = Listed \ {x} /\ Order(listing', Listed')
  <2>1. PICK L, D : L = listing /\ D = Listed OBVIOUS
  <2>2. PICK M : M = Dropped(L, x) OBVIOUS
  <2>3. listing' = M BY <2>1, <2>2 DEF Delete, Without, Dropped
  <2>4. Order(M, D \ {x}) /\ \A r : r \in D \ {x} <=> <<r, r>> \in M
    <3>1. Order(L, D) BY <1>a, <2>1, ListingOrder
    <3>2. QED BY <2>2, <3>1, DropOrder
  <2>5. Listed' = {r \in Records : <<r, r>> \in M} BY <2>3 DEF Listed
  <2>6. D \subseteq Records BY <2>1 DEF Listed
  <2>7. Listed' = D \ {x} BY <2>4, <2>5, <2>6
  <2>8. QED BY <2>1, <2>3, <2>4, <2>7
<1>2. ASSUME NEW w \in Pullers
      PROVE  Follows(pull[w], pull'[w]) /\ (pull'[w].stage = "fetching" => pull'[w].shifted)
  <2>1. PICK p \in Pull : p = pull[w] BY PullOf
  <2>2. PICK s \in BOOLEAN : s <=> p.shifted \/ p.stage = "fetching" OBVIOUS
  <2>3. (p.shifted \/ p.stage = "fetching") = s BY <2>2
  <2>4. pull'[w] = [p EXCEPT !.shifted = p.shifted \/ p.stage = "fetching"]
    BY <2>1 DEF Delete
  <2>5. PICK j : j = [p EXCEPT !.shifted = s] OBVIOUS
  <2>6. pull'[w] = j BY <2>3, <2>4, <2>5
  <2>7. j \in Pull BY <2>5 DEF Pull
  <2>8. j.stage = p.stage /\ j.run = p.run /\ j.page = p.page /\ j.got = p.got
        /\ j.met = p.met /\ j.shifted = s
    BY <2>5 DEF Pull
  <2>9. Follows(p, j) /\ (j.stage = "fetching" => j.shifted) BY <2>2, <2>7, <2>8 DEF Follows
  <2>10. QED BY <2>1, <2>6, <2>9
<1>3. ErpTypeOK'
  <2>1. (listing \subseteq Listed \X Listed)'
        /\ (\A y, r \in Listed : <<y, r>> \in listing \/ <<r, y>> \in listing)'
        /\ (\A y, z, r \in Listed : <<y, z>> \in listing /\ <<z, r>> \in listing =>
              <<y, r>> \in listing /\ (y = r => y = z))'
    BY <1>1 DEF Order
  <2>2. pull' \in [Pullers -> Pull]
    <3>1. \A w \in Pullers : pull'[w] \in Pull BY <1>2 DEF Follows
    <3>2. pull' = [w \in Pullers |-> pull'[w]] BY DEF Delete
    <3>3. QED BY <3>1, <3>2
  <2>3. QED BY <1>a, <1>d, <2>1, <2>2 DEF ErpTypeOK
<1>4. RecordsKnown'
  <2>1. system # "none" BY <1>a, <1>d DEF RecordsKnown, Listed
  <2>2. QED BY <1>1, <1>a, <1>d, <2>1 DEF RecordsKnown
<1>5. \A b \in Runs : Held(b) BY <1>1, <1>d DEF Held, Covers, Since
<1>6. ASSUME NEW r \in Records PROVE edition[r] <= edition'[r]
  <2>1. PICK e : e = edition[r] OBVIOUS
  <2>2. e \in Nat BY <1>a, <2>1, TypeNumbers
  <2>3. QED BY <1>d, <2>1, <2>2
<1>7. UNCHANGED <<hours, beats, syncTasks, offered, lastWord, synced, unpublished>> BY <1>d
<1>8. QED BY <1>2, <1>3, <1>4, <1>5, <1>6, <1>7, ErpMoves

LEMMA ConnectKeeps ==
    ASSUME ErpInv, NEW s \in {"sap", "oracle", "generic"}, Connect(s) PROVE ErpInv'
<1>a. ErpTypeOK /\ RecordsKnown BY DEF ErpInv
<1>d. UNCHANGED <<hours, dated, listing, stamp, changed, edition, beats, syncTasks, pull,
                  offered, lastWord, breaks, synced, unpublished>>
      /\ system = "none" /\ system' = s
  BY DEF Connect, topicVars, recordVars, brokerVars
<1>1. Listed' = Listed /\ Listed = {} BY <1>a, <1>d DEF Listed, RecordsKnown
<1>2. ErpTypeOK'
  <2>1. (listing \subseteq Listed \X Listed)' BY <1>1, <1>a, <1>d DEF ErpTypeOK
  <2>2. QED BY <1>1, <1>a, <1>d, <2>1 DEF ErpTypeOK
<1>3. RecordsKnown' BY <1>1, <1>a, <1>d DEF RecordsKnown
<1>4. \A b \in Runs : Held(b) /\ PlacesHeld(b) BY <1>1 DEF Held, PlacesHeld
<1>5. ASSUME NEW r \in Records PROVE edition[r] <= edition'[r]
  <2>1. PICK e : e = edition[r] OBVIOUS
  <2>2. e \in Nat BY <1>a, <2>1, TypeNumbers
  <2>3. QED BY <1>d, <2>1, <2>2
<1>6. ASSUME NEW w \in Pullers PROVE Follows(pull[w], pull'[w])
  <2>1. pull[w] \in Pull BY PullOf
  <2>2. pull'[w] = pull[w] BY <1>d
  <2>3. QED BY <2>1, <2>2 DEF Follows
<1>7. UNCHANGED <<hours, beats, syncTasks, offered, lastWord, synced, unpublished>> BY <1>d
<1>8. QED BY <1>2, <1>3, <1>4, <1>5, <1>6, <1>7, ErpMoves

LEMMA ErpStep == ASSUME ErpInv, ErpNext \/ UNCHANGED erpVars PROVE ErpInv'
<1>1. CASE UNCHANGED erpVars
  <2>1. BooksTyped /\ hours \in 0..MaxHours /\ hours <= hours BY ErpTypes
  <2>2. UNCHANGED <<system, dated, listing, stamp, changed, edition, pull, offered,
                    lastWord, unpublished>>
        /\ UNCHANGED <<hours, beats, syncTasks, breaks, synced>>
    BY <1>1 DEF erpVars, recordVars, brokerVars, topicVars
  <2>3. BooksTyped' BY <2>1, <2>2 DEF BooksTyped
  <2>4. TasksTimely' BY <2>2 DEF TasksTimely, ErpInv
  <2>5. SyncedMoves BY <2>2 DEF SyncedMoves
  <2>6. hours' \in 0..MaxHours /\ hours <= hours' BY <2>1, <2>2
  <2>7. QED BY <2>2, <2>3, <2>4, <2>5, <2>6, NobodyMoves
<1>2. CASE \E s \in {"sap", "oracle", "generic"} : Connect(s) BY <1>2, ConnectKeeps
<1>3. CASE \E r \in Records : Change(r) \/ Delete(r) BY <1>3, ChangeKeeps, DeleteKeeps
<1>4. CASE Hour BY <1>4, HourKeeps
<1>5. CASE Dispatch \/ DispatchAgain \/ Miss BY <1>5, DispatchKeeps
<1>6. CASE \E w \in SyncWorkers, t \in syncTasks : TakeSync(w, t) BY <1>6, TakeSyncKeeps
<1>7. CASE \E w \in SyncRequests : Trigger(w) BY <1>7, TriggerKeeps
<1>8. CASE \E w \in Pullers :
              \/ Fetch(w) \/ PullAgain(w) \/ PullFails(w)
              \/ PublishNext(w) \/ Finish(w) \/ CrashPuller(w) \/ Redeliver(w)
  BY <1>8, FetchKeeps, PullAgainKeeps, PullFailsKeeps, PublishNextKeeps, FinishKeeps,
     CrashKeeps, RedeliverKeeps
<1>9. QED BY <1>1, <1>2, <1>3, <1>4, <1>5, <1>6, <1>7, <1>8 DEF ErpNext

(* The least number of a set of them. *)
LEMMA LeastNumber ==
    ASSUME NEW S, S \subseteq Nat, NEW j \in S PROVE \E i \in S : \A x \in S : i <= x
<1>1. PICK i \in S : \A x \in S : ~(<<x, i>> \in OpToRel(<, Nat))
  BY WFMin, NatLessThanWellFounded
<1>2. \A x \in S : ~(x < i) BY <1>1 DEF OpToRel
<1>3. QED BY <1>2

(* What changed since the first run looked back and before the last is covered by
   the first run that came after it. *)
LEMMA NothingIsMissed == ASSUME ErpInv PROVE NothingMissed
<1>a. ErpTypeOK /\ RunsDone BY DEF ErpInv
<1>1. SUFFICES ASSUME NEW a \in Runs, NEW b \in Runs, a <= b, SyncedThrough(a, b),
                      NEW r \in Listed, stamp[r] = changed[r], a - LookBack < stamp[r], stamp[r] < b
               PROVE  <<r, edition[r]>> \in offered \cup unpublished
  BY DEF NothingMissed
<1>2. r \in Records BY DEF Listed
<1>3. PICK t : t = stamp[r] OBVIOUS
<1>4. t \in Nat BY <1>a, <1>2, <1>3, TypeNumbers
<1>5. a \in Nat /\ b \in Nat /\ LookBack \in Nat BY ErpAssumption DEF Runs
<1>6. PICK S : S = {x \in a..b : x \in synced /\ t < x} OBVIOUS
<1>7. b \in S /\ S \subseteq Nat BY <1>1, <1>3, <1>5, <1>6 DEF SyncedThrough
<1>8. PICK x \in S : \A y \in S : x <= y BY <1>7, LeastNumber
<1>9. x \in a..b /\ x \in Nat /\ x \in synced /\ x \in Runs /\ t < x
  BY <1>a, <1>5, <1>6, <1>8 DEF ErpTypeOK
<1>10. x - LookBack < t
  <2>1. CASE x = a BY <1>1, <1>3, <2>1
  <2>2. CASE x # a
    <3>1. a < x /\ x <= b BY <1>5, <1>9, <2>2
    <3>2. PICK y \in synced : a <= y /\ y < x /\ x < y + LookBack
      BY <1>1, <1>9, <3>1 DEF SyncedThrough
    <3>3. y \in Nat BY <1>a DEF ErpTypeOK, Runs
    <3>4. y \in a..b /\ ~(x <= y) BY <1>5, <1>9, <3>2, <3>3
    <3>5. ~(t < y) BY <1>6, <1>8, <3>4
    <3>6. QED BY <1>4, <1>5, <1>9, <3>2, <3>3, <3>5
  <2>3. QED BY <2>1, <2>2
<1>11. Covers(x, r) BY <1>1, <1>3, <1>9, <1>10 DEF Covers, Since
<1>12. Complete(x) BY <1>9, <1>a DEF RunsDone
<1>13. QED BY <1>11, <1>12 DEF Complete, Settled

(* A pull that no other overlaps publishes what is not older than the topic's. *)
LEMMA StaleByOverlap ==
    ASSUME ErpInv, ErpNext \/ UNCHANGED erpVars PROVE StaleOnlyByOverlap
<1>a. BooksTyped BY ErpTypes
<1>b. lastWord \in [Records -> 0..MaxVersions] BY <1>a DEF BooksTyped
<1>1. SUFFICES ASSUME NEW w \in Pullers, NEW r \in Records,
                      lastWord'[r] < lastWord[r], pull'[w] # pull[w], ~pull[w].met
               PROVE  FALSE
  BY DEF StaleOnlyByOverlap
<1>2. lastWord' # lastWord
  <2>1. ASSUME lastWord' = lastWord PROVE FALSE
    <3>1. PICK l : l = lastWord[r] OBVIOUS
    <3>2. l \in Nat /\ l < l BY <1>1, <1>b, <2>1, <3>1
    <3>3. QED BY <3>2
  <2>2. QED BY <2>1
<1>3. PICK v \in Pullers : PublishNext(v)
  BY <1>2 DEF ErpNext, erpVars, topicVars, Connect, Change, Delete, Hour, Dispatch,
       DispatchAgain, Miss, TakeSync, Trigger, Fetch, PullAgain, PullFails, Finish, CrashPuller, Redeliver
<1>4. PICK p \in Pull : p = pull[v] BY PullOf
<1>5. GotFits(p) /\ p.stage = "publishing"
  <2>1. p.stage = "publishing" BY <1>3, <1>4 DEF PublishNext
  <2>2. QED BY <1>4, <2>1, PullOf DEF PullFits, Pulling
<1>6. PICK m \in p.got :
         /\ \/ lastWord' = [lastWord EXCEPT ![m[2][1]] = m[2][2]]
            \/ lastWord' = lastWord
         /\ pull' = [pull EXCEPT ![v].got = @ \ {m}]
  BY <1>3, <1>4 DEF PublishNext, Offer, topicVars
<1>7. w = v
  <2>1. pull \in [Pullers -> Pull] BY DEF ErpInv, ErpTypeOK
  <2>2. QED BY <1>1, <1>6, <2>1
<1>8. PICK q, e, l : q = m[2][1] /\ e = m[2][2] /\ l = lastWord[r] OBVIOUS
<1>9. e \in Nat /\ l \in Nat
  <2>1. m \in Nat \X Editions BY DEF Pull
  <2>2. e \in Nat BY <1>8, <2>1 DEF Editions
  <2>3. QED BY <1>8, <1>b, <2>2
<1>10. lastWord' = [lastWord EXCEPT ![q] = e] BY <1>2, <1>6, <1>8
<1>11. CASE r = q
  <2>1. lastWord'[r] = e BY <1>10, <1>11, <1>b
  <2>2. l <= e BY <1>1, <1>4, <1>5, <1>7, <1>8, <1>11 DEF GotFits
  <2>3. e < l BY <1>1, <1>8, <2>1
  <2>4. QED BY <1>9, <2>2, <2>3
<1>12. CASE r # q
  <2>1. lastWord'[r] = l BY <1>10, <1>12, <1>8, <1>b
  <2>2. l < l BY <1>1, <1>8, <2>1
  <2>3. QED BY <1>9, <2>2
<1>13. QED BY <1>11, <1>12

-----------------------------------------------------------------------------
(* The parts together. *)

InboundInv ==
    /\ HooksInv /\ ShipmentsInv /\ ReadingsInv /\ OrdersInv /\ ErpInv
    /\ focus \in {"orders", "tracking", "telemetry", "webhooks", "erp"}

LEMMA InitInbound == Init => InboundInv
BY InitHooks, InitShipments, InitReadings, InitOrders, InitErp DEF Init, InboundInv

LEMMA InboundStep == InboundInv /\ [Next]_vars => InboundInv'
<1> SUFFICES ASSUME InboundInv, [Next]_vars PROVE InboundInv' OBVIOUS
<1> USE DEF InboundInv
(* A part whose variables do not change keeps its invariant. *)
<1>h. UNCHANGED hookVars => HooksInv' BY HooksStep
<1>s. UNCHANGED shipmentVars => ShipmentsInv' BY ShipmentsStep
<1>t. UNCHANGED telemetryVars => ReadingsInv' BY ReadingsStep
<1>o. UNCHANGED orderVars => OrdersInv' BY OrdersStep
<1>e. UNCHANGED erpVars => ErpInv' BY ErpStep
<1>f. UNCHANGED focus BY DEF Next, vars
<1>1. CASE UNCHANGED vars
  BY <1>1, <1>h, <1>s, <1>t, <1>o, <1>e, <1>f DEF vars, visibilityVars
<1>2. CASE Ordering BY <1>2, <1>h, <1>s, <1>t, <1>e, <1>f, OrdersStep DEF Ordering
<1>3. CASE Tracking BY <1>3, <1>h, <1>t, <1>o, <1>e, <1>f, ShipmentsStep DEF Tracking
<1>4. CASE Reporting
  <2>1. HooksInv' /\ OrdersInv' /\ ErpInv' BY <1>4, <1>h, <1>o, <1>e DEF Reporting
  <2>2. CASE TelemetryNext /\ UNCHANGED <<trail, scan, untold, told, failed, clock>>
    BY <2>1, <2>2, <1>f, ReadingsStep, ReportsKeepShipments
  <2>3. ASSUME NEW s \in Shipments, CreateShipment(s, 0), UNCHANGED telemetryVars
        PROVE  InboundInv'
    BY <2>1, <2>3, <1>f, <1>t, CreateShipmentKeeps
  <2>4. QED BY <1>4, <2>2, <2>3 DEF Reporting
<1>5. CASE Receiving
  BY <1>5, <1>s, <1>t, <1>o, <1>e, <1>f, HooksStep DEF Receiving, visibilityVars
<1>6. CASE Syncing
  BY <1>6, <1>h, <1>s, <1>t, <1>o, <1>f, ErpStep DEF Syncing, visibilityVars
<1>7. QED BY <1>1, <1>2, <1>3, <1>4, <1>5, <1>6 DEF Next

LEMMA InboundInvariant == Spec => []InboundInv
BY InitInbound, InboundStep, PTL DEF Spec

(* check of the sliding window and ingest_webhook: however requests, the clock,
   deleted registrations and failing stores interleave, a window admits at most
   RateLimit of those whose script no script of a later reading came before, a
   request is refused only by a full window, and the topic, the log and the answers
   account for each other. *)
THEOREM InboundWebhooks == Spec => []WebhooksKept
<1>1. InboundInv => WebhooksKept BY DEF InboundInv, HooksInv, WebhooksKept
<1>2. QED BY <1>1, InboundInvariant, PTL

(* add_tracking_event, update_shipment and the relay: concurrent scans of one
   shipment leave its row with the last event's status and the latest delivery's
   date, and what is told of it comes in the order in which its transactions began
   unless a send failed. *)
THEOREM InboundShipments == Spec => []ShipmentsKept
<1>1. InboundInv => ShipmentsKept
  BY ArrivalFollows, LastWordFollows DEF InboundInv, ShipmentsKept
<1>2. QED BY <1>1, InboundInvariant, PTL

(* process_telemetry: whatever fails, is read again or is posted meanwhile, the
   readings in the table and the announcements on the topics account for each
   other, and a reading within the thresholds raises no alert. *)
THEOREM InboundTelemetry == Spec => []TelemetryAccounted
<1>1. InboundInv => TelemetryAccounted BY AnnouncementsFollow DEF InboundInv
<1>2. QED BY <1>1, InboundInvariant, PTL

(* apply_po_event, update_purchase_order and the consumers: although orders are
   updated by id after what was read of them, the rows of an order's outbox add up
   to its row, a terminal order is changed only by what had read another status of
   it (save that a received one is disputed), and the ERP's messages, whichever
   processes read them and however often, insert one order, unless a partition
   went to another process between a message's look for the order and its insert. *)
THEOREM InboundOrders == Spec => OrdersKept
<1>1. InboundInv => OutboxTellsOrder /\ ErpOrderOnce BY OrdersFollow DEF InboundInv
<1>2. InboundInv /\ [Next]_vars => [TerminalKept]_orderVars
  <2> SUFFICES ASSUME InboundInv, [Next]_vars PROVE [TerminalKept]_orderVars OBVIOUS
  <2>1. CASE Ordering BY <2>1, TerminalStep DEF Ordering, InboundInv
  <2>2. CASE UNCHANGED orderVars BY <2>2
  <2>3. QED
    BY <2>1, <2>2 DEF Next, vars, visibilityVars, Tracking, Reporting, Receiving, Syncing
<1>3. QED BY <1>1, <1>2, InboundInvariant, PTL DEF Spec, OrdersKept

(* sync_erp_entities, the beat that dispatches it, soon or late, and the ERP under
   it: whatever retries, crashes and requests meet, once the tasks of dispatches
   that ran less than the look-back apart have finished, every record that last
   changed in the time they look back on, and that the ERP's filter stamps with that
   change, has been published as it is, or its publish has failed, unless a deletion
   moved the pages; and the topic goes back to an older edition of a record only by
   a pull that another one overlapped. *)
THEOREM InboundErp == Spec => ErpKept
<1>1. InboundInv => NothingMissed BY NothingIsMissed DEF InboundInv
<1>2. InboundInv /\ [Next]_vars => [StaleOnlyByOverlap]_erpVars
  <2> SUFFICES ASSUME InboundInv, [Next]_vars PROVE [StaleOnlyByOverlap]_erpVars OBVIOUS
  <2>1. CASE Syncing BY <2>1, StaleByOverlap DEF Syncing, InboundInv
  <2>2. CASE UNCHANGED erpVars BY <2>2
  <2>3. QED
    BY <2>1, <2>2 DEF Next, vars, Tracking, Reporting, Receiving, Ordering
<1>3. QED BY <1>1, <1>2, InboundInvariant, PTL DEF Spec, ErpKept

(* Each part keeps the types it states of its variables: orders, shipments, readings,
   webhooks and the ERP sync, whichever of them takes steps. *)
THEOREM InboundTypes == Spec => []TypeOK
<1>1. InboundInv => TypeOK
  BY ShipmentsTyped, TelemetryTyped, OrdersFollow DEF InboundInv, HooksInv, ErpInv, TypeOK
<1>2. QED BY <1>1, InboundInvariant, PTL

=============================================================================
