------------------------ MODULE AlertLifecycleProofs ------------------------
(***************************************************************************)
(* Proofs about AlertLifecycle, for any sets of alerts, users, calls and   *)
(* sweeps.                                                                 *)
(***************************************************************************)
EXTENDS AlertLifecycle, FiniteSetTheorems, TLAPS

USE DEF Status, Terminal, Cause, Transition, Op, Phase

(* The tables of the module are functions on the operations. *)
LEMMA Tables ==
    /\ Allowed \in [Transition -> SUBSET (Status \ {"none"})]
    /\ \A op \in Transition : Allowed[op] \cap Terminal = {}
    /\ Target \in [Op -> Status \ {"none"}]
    /\ \A op \in Transition : Target[op] # "open"
    /\ Causes \in [Op -> SUBSET Cause]
BY DEF Allowed, Target, Causes

(* Counting keeps a counter table a table of naturals. *)
LEMMA CountType ==
    ASSUME NEW count \in [Alerts -> [Cause -> Nat]], NEW as, NEW causes
    PROVE  AddToAll(count, as, causes) \in [Alerts -> [Cause -> Nat]]
<1> DEFINE inc(a, c) == IF a \in as /\ c \in causes THEN 1 ELSE 0
<1>1. \A a \in Alerts, c \in Cause : inc(a, c) \in {0, 1} OBVIOUS
<1> HIDE DEF inc
<1>2. \A a \in Alerts, c \in Cause : count[a][c] \in Nat OBVIOUS
<1>3. \A a \in Alerts, c \in Cause : count[a][c] + inc(a, c) \in Nat
  BY <1>1, <1>2
<1>4. QED BY <1>3 DEF AddToAll, inc

LEMMA AddToType ==
    ASSUME NEW count \in [Alerts -> [Cause -> Nat]], NEW a, NEW causes
    PROVE  AddTo(count, a, causes) \in [Alerts -> [Cause -> Nat]]
BY CountType DEF AddTo

(* IInv holds initially. *)
LEMMA InitIInv == Init => IInv
<1> SUFFICES ASSUME Init PROVE IInv OBVIOUS
<1>1. (CHOOSE a \in Alerts : TRUE) \in Alerts BY IdsAssumption
<1>2. NoCall \in Call BY <1>1 DEF NoCall, Call
<1>3. TypeOK BY <1>2 DEF Init, TypeOK, NoCount
<1>4. SweptOnce /\ SweptStaysClosed BY DEF Init, SweptOnce, SweptStaysClosed
<1>5. CallsInOrder BY DEF Init, CallsInOrder, NoCall
<1>6. QED BY <1>3, <1>4, <1>5 DEF IInv

(* The row write of an operation other than a creation. *)
LEMMA WriteRowType ==
    ASSUME TypeOK, NEW op \in Op, NEW a \in Alerts, WriteRow(op, a)
    PROVE  /\ status' \in [Alerts -> Status]
           /\ version' \in [Alerts -> Nat]
           /\ writes' \in [Alerts -> [Cause -> Nat]]
           /\ status'[a] = Target[op]
           /\ version'[a] = version[a] + 1
           /\ \A b \in Alerts \ {a} : status'[b] = status[b] /\ version'[b] = version[b]
<1>1. Target[op] \in Status BY Tables
<1>2. writes' \in [Alerts -> [Cause -> Nat]] BY AddToType DEF TypeOK, WriteRow
<1>3. /\ status' \in [Alerts -> Status] /\ status'[a] = Target[op]
      /\ \A b \in Alerts \ {a} : status'[b] = status[b]
  BY <1>1 DEF TypeOK, WriteRow
<1>4. /\ version' \in [Alerts -> Nat] /\ version'[a] = version[a] + 1
      /\ \A b \in Alerts \ {a} : version'[b] = version[b]
  BY DEF TypeOK, WriteRow
<1>5. QED BY <1>2, <1>3, <1>4

(* Creation: the new row is open, and no call or sweep knew its id. *)
LEMMA CreatePreservesIInv ==
    ASSUME IInv, NEW q \in Calls, NEW a \in Alerts, Create(q, a)
    PROVE  IInv'
<1> USE DEF IInv
<1>1. /\ status' \in [Alerts -> Status]
      /\ version' \in [Alerts -> Nat]
      /\ writes' \in [Alerts -> [Cause -> Nat]]
      /\ status'[a] = "open"
      /\ version'[a] = version[a] + 1
      /\ \A b \in Alerts \ {a} : status'[b] = status[b] /\ version'[b] = version[b]
  BY WriteRowType DEF Create, Target
<1>2. call' \in [Calls -> Call] BY DEF Create, TypeOK, Call
<1>3. TypeOK' BY <1>1, <1>2 DEF Create, TypeOK, outVars
<1>4. swept[a] = 0 BY DEF Create, SweptStaysClosed, TypeOK
<1>5. SweptOnce' BY DEF Create, SweptOnce
<1>6. SweptStaysClosed' BY <1>1, <1>4 DEF Create, SweptStaysClosed
<1>7. CallsInOrder' BY <1>1 DEF Create, CallsInOrder, TypeOK, Call
<1>8. QED BY <1>3, <1>5, <1>6, <1>7

(* A lookup changes nothing but the call; only an alert's id is found. *)
LEMMA FetchPreservesIInv ==
    ASSUME IInv, NEW q \in Calls, NEW op \in Transition, NEW path \in Alerts,
           NEW id \in Alerts \cup Users, id \in Alerts => id = path,
           Fetch(q, op, path, id)
    PROVE  IInv'
<1> USE DEF IInv
<1>1. call' \in [Calls -> Call] BY DEF Fetch, TypeOK, Call, Outcome
<1>2. TypeOK' BY <1>1 DEF Fetch, TypeOK, rowVars, outVars
<1>3. SweptOnce' /\ SweptStaysClosed'
  BY DEF Fetch, SweptOnce, SweptStaysClosed, rowVars
<1>4. CallsInOrder'
  BY DEF Fetch, CallsInOrder, TypeOK, Call, Outcome, rowVars
<1>5. QED BY <1>2, <1>3, <1>4

(* The unguarded UPDATE overtakes the calls that validated earlier: what they
   saw is an older version. *)
LEMMA WritePreservesIInv ==
    ASSUME IInv, NEW q \in Calls, Write(q)
    PROVE  IInv'
<1> USE DEF IInv
<1> DEFINE op == call[q].op
           a == call[q].id
<1>0. op \in Transition /\ a \in Alerts BY DEF Write, CallsInOrder
<1>1. /\ status' \in [Alerts -> Status]
      /\ version' \in [Alerts -> Nat]
      /\ writes' \in [Alerts -> [Cause -> Nat]]
      /\ status'[a] = Target[op]
      /\ version'[a] = version[a] + 1
      /\ \A b \in Alerts \ {a} : status'[b] = status[b] /\ version'[b] = version[b]
  BY <1>0, WriteRowType DEF Write
<1>2. status'[a] \notin {"none", "open"} BY <1>0, <1>1, Tables
<1>3. call' \in [Calls -> Call] BY DEF Write, Advance, TypeOK, Call
<1>4. TypeOK' BY <1>1, <1>3 DEF Write, TypeOK, outVars
<1>5. SweptOnce' BY DEF Write, SweptOnce
<1>6. SweptStaysClosed' BY <1>1, <1>2 DEF Write, SweptStaysClosed
<1>7. CallsInOrder'
  BY <1>0, <1>1, <1>2 DEF Write, Advance, CallsInOrder, TypeOK, Call
<1>8. QED BY <1>4, <1>5, <1>6, <1>7

(* What follows the commit touches no row. *)
LEMMA AftermathPreservesIInv ==
    ASSUME IInv, NEW q \in Calls, Enqueue(q) \/ PublishResolved(q) \/ Die(q)
    PROVE  IInv'
<1> USE DEF IInv
<1>0. call[q].id \in Alerts
  BY DEF CallsInOrder, Enqueue, PublishResolved, Die
<1>1. /\ jobs' \in [Alerts -> [Cause -> Nat]]
      /\ lost' \in [Alerts -> [Cause -> Nat]]
  BY AddToType DEF TypeOK, Enqueue, PublishResolved, Die
<1>2. resolvedEvents' \in [Alerts -> Nat]
  BY <1>0 DEF TypeOK, Enqueue, PublishResolved, Die
<1>3. call' \in [Calls -> Call]
  <2>1. PICK phase \in Phase : Advance(q, phase)
    <3>1. CASE Enqueue(q)
      <4>1. (IF call[q].op = "resolve" THEN "notified" ELSE "done") \in Phase
        OBVIOUS
      <4>2. QED BY <3>1, <4>1 DEF Enqueue
    <3>2. CASE PublishResolved(q) BY <3>2 DEF PublishResolved
    <3>3. CASE Die(q) BY <3>3 DEF Die
    <3>4. QED BY <3>1, <3>2, <3>3
  <2>2. QED BY <2>1 DEF TypeOK, Call, Advance
<1>4. UNCHANGED <<rowVars, due, pending, swept>>
  BY DEF Enqueue, PublishResolved, Die
<1>5. TypeOK' BY <1>1, <1>2, <1>3, <1>4 DEF TypeOK, rowVars
<1>6. SweptOnce' /\ SweptStaysClosed'
  BY <1>4 DEF SweptOnce, SweptStaysClosed, rowVars
<1>7. \A p \in Calls :
         /\ call'[p].phase \in {"validated", "written", "notified"}
               => /\ call[p].phase \in {"validated", "written", "notified"}
                  /\ call'[p].id = call[p].id
         /\ call'[p].phase = "validated" => call'[p] = call[p]
  BY DEF TypeOK, Call, Advance, Enqueue, PublishResolved, Die
<1>8. CallsInOrder' BY <1>4, <1>7 DEF CallsInOrder, rowVars
<1>9. QED BY <1>5, <1>6, <1>8

(* The sweep takes open alerts, none of which was swept before. *)
LEMMA SweepPreservesIInv ==
    ASSUME IInv, NEW s \in Sweepers, Sweep(s)
    PROVE  IInv'
<1> USE DEF IInv
<1>1. Stale \subseteq Alerts BY DEF Stale, TypeOK
<1>2. \A a \in Stale : status[a] = "open" /\ swept[a] = 0
  BY <1>1 DEF Stale, SweptStaysClosed, TypeOK
<1>3. /\ status' \in [Alerts -> Status]
      /\ version' \in [Alerts -> Nat]
      /\ swept' \in [Alerts -> Nat]
      /\ pending' \in [Sweepers -> SUBSET Alerts]
  BY <1>1 DEF Sweep, TypeOK
<1>4. writes' \in [Alerts -> [Cause -> Nat]] BY CountType DEF Sweep, TypeOK
<1>5. TypeOK' BY <1>3, <1>4 DEF Sweep, TypeOK, outVars
<1>6. \A a \in Alerts :
         IF a \in Stale
         THEN status'[a] = "escalated" /\ version'[a] = version[a] + 1 /\ swept'[a] = 1
         ELSE status'[a] = status[a] /\ version'[a] = version[a] /\ swept'[a] = swept[a]
  BY <1>2 DEF Sweep, TypeOK
<1>7. SweptOnce' BY <1>6 DEF SweptOnce
<1>8. SweptStaysClosed' BY <1>6 DEF SweptStaysClosed
<1>9. CallsInOrder' BY <1>6 DEF Sweep, CallsInOrder, TypeOK, Call
<1>10. QED BY <1>5, <1>7, <1>8, <1>9

(* Reporting a sweep, losing it, and time passing touch no row and no call. *)
LEMMA QuietPreservesIInv ==
    ASSUME IInv,
           \/ \E a \in Alerts : Age(a)
           \/ \E s \in Sweepers, a \in Alerts : SweepEnqueue(s, a)
           \/ \E s \in Sweepers : SweepDies(s)
           \/ UNCHANGED vars
    PROVE  IInv'
<1> USE DEF IInv
<1>1. UNCHANGED <<rowVars, call, swept>>
  BY DEF Age, SweepEnqueue, SweepDies, vars
<1>2. /\ due' \subseteq Alerts
      /\ pending' \in [Sweepers -> SUBSET Alerts]
      /\ jobs' \in [Alerts -> [Cause -> Nat]]
      /\ lost' \in [Alerts -> [Cause -> Nat]]
      /\ resolvedEvents' \in [Alerts -> Nat]
  <2>1. CASE \E a \in Alerts : Age(a) BY <2>1 DEF Age, TypeOK, outVars
  <2>2. CASE \E s \in Sweepers, a \in Alerts : SweepEnqueue(s, a)
    BY <2>2, AddToType DEF SweepEnqueue, TypeOK
  <2>3. CASE \E s \in Sweepers : SweepDies(s)
    BY <2>3, CountType DEF SweepDies, TypeOK
  <2>4. CASE UNCHANGED vars BY <2>4 DEF vars, TypeOK, outVars
  <2>5. QED BY <2>1, <2>2, <2>3, <2>4
<1>3. TypeOK' BY <1>1, <1>2 DEF TypeOK, rowVars
<1>4. SweptOnce' /\ SweptStaysClosed' /\ CallsInOrder'
  BY <1>1 DEF SweptOnce, SweptStaysClosed, CallsInOrder, rowVars
<1>5. QED BY <1>3, <1>4

LEMMA StepPreservesIInv ==
    ASSUME IInv, [Next]_vars
    PROVE  IInv'
<1>1. ASSUME NEW q \in Calls, NEW a \in Alerts, Create(q, a) PROVE IInv'
  BY <1>1, CreatePreservesIInv
<1>2. ASSUME NEW q \in Calls, NEW op \in Transition, NEW a \in Alerts,
             ServiceCall(q, op, a)
      PROVE  IInv'
  BY <1>2, FetchPreservesIInv DEF ServiceCall
<1>3. ASSUME NEW q \in Calls, NEW op \in Transition, NEW a \in Alerts,
             NEW u \in Users, RouterCall(q, op, a, u)
      PROVE  IInv'
  BY <1>3, FetchPreservesIInv, IdsAssumption DEF RouterCall
<1>4. ASSUME NEW q \in Calls,
             Write(q) \/ Enqueue(q) \/ PublishResolved(q) \/ Die(q)
      PROVE  IInv'
  BY <1>4, WritePreservesIInv, AftermathPreservesIInv
<1>5. ASSUME NEW s \in Sweepers, Sweep(s) PROVE IInv'
  BY <1>5, SweepPreservesIInv
<1>6. QED BY <1>1, <1>2, <1>3, <1>4, <1>5, QuietPreservesIInv DEF Next

(* The inductive invariant holds of every behaviour. *)
THEOREM LifecycleInvariant == Spec => []IInv
<1>1. Init => IInv BY InitIInv
<1>2. IInv /\ [Next]_vars => IInv' BY StepPreservesIInv
<1>3. QED BY <1>1, <1>2, PTL DEF Spec

(* Every variable keeps its type. *)
THEOREM LifecycleTypeCorrect == Spec => []TypeOK
<1>1. IInv => TypeOK BY DEF IInv
<1>2. QED BY <1>1, LifecycleInvariant, PTL

(* However many sweeps and calls overlap, an alert is escalated by a sweep at
   most once. *)
THEOREM SweptAtMostOnce == Spec => []SweptOnce
<1>1. IInv => SweptOnce BY DEF IInv
<1>2. QED BY <1>1, LifecycleInvariant, PTL

(* A row in a terminal status changes only in a Write, whose call saw an older
   version of it. *)
LEMMA TerminalStep ==
    ASSUME IInv, [Next]_vars, NEW a \in Alerts, status[a] \in Terminal,
           status'[a] # status[a]
    PROVE  \E q \in Calls : /\ call[q].phase = "validated"
                            /\ call[q].id = a
                            /\ call[q].seen < version[a]
<1> USE DEF IInv
<1>1. ASSUME NEW q \in Calls, NEW b \in Alerts, Create(q, b) PROVE FALSE
  BY <1>1 DEF Create, WriteRow, TypeOK
<1>2. ASSUME NEW q \in Calls, NEW op \in Transition, NEW b \in Alerts,
             \/ ServiceCall(q, op, b)
             \/ \E u \in Users : RouterCall(q, op, b, u)
      PROVE  FALSE
  BY <1>2 DEF ServiceCall, RouterCall, Fetch, rowVars
<1>3. ASSUME NEW q \in Calls, Enqueue(q) \/ PublishResolved(q) \/ Die(q)
      PROVE  FALSE
  BY <1>3 DEF Enqueue, PublishResolved, Die, rowVars
<1>4. ASSUME NEW s \in Sweepers, Sweep(s) PROVE FALSE
  BY <1>4 DEF Sweep, Stale, TypeOK
<1>5. ASSUME \/ \E b \in Alerts : Age(b)
             \/ \E s \in Sweepers, b \in Alerts : SweepEnqueue(s, b)
             \/ \E s \in Sweepers : SweepDies(s)
             \/ UNCHANGED vars
      PROVE  FALSE
  BY <1>5 DEF Age, SweepEnqueue, SweepDies, vars, rowVars
<1>6. PICK q \in Calls : Write(q)
  <2>1. Next BY <1>5
  <2>2. QED BY <2>1, <1>1, <1>2, <1>3, <1>4, <1>5 DEF Next
<1>7. call[q].phase = "validated" /\ call[q].id = a
  BY <1>6 DEF Write, WriteRow, TypeOK
<1>8. call[q].seen # version[a]
  BY <1>7, Tables DEF CallsInOrder
<1>9. call[q].seen \in Nat /\ version[a] \in Nat BY DEF TypeOK, Call
<1>10. QED BY <1>7, <1>8, <1>9 DEF CallsInOrder

(* Only a call that validated an older version of the alert takes it out of a
   terminal status. *)
THEOREM TerminalSafe == Spec => TerminalLeftOnlyByOverlap
<1> DEFINE Step ==
      \A a \in Alerts :
         status[a] \in Terminal /\ status'[a] # status[a]
            => \E q \in Calls : /\ call[q].phase = "validated"
                                /\ call[q].id = a
                                /\ call[q].seen < version[a]
<1>1. IInv /\ [Next]_vars => Step BY TerminalStep
<1>2. []IInv /\ [][Next]_vars => [][Step]_vars BY <1>1, PTL
<1>3. QED BY <1>2, LifecycleInvariant, PTL DEF Spec, TerminalLeftOnlyByOverlap

-----------------------------------------------------------------------------
(* Notices. *)

(* Two sets that differ in one element at most. *)
LEMMA OneApart ==
    ASSUME NEW S, IsFiniteSet(S), NEW A \in SUBSET S, NEW B \in SUBSET S, NEW x,
           A \ {x} = B \ {x}
    PROVE  /\ Cardinality(A) \in Nat /\ Cardinality(B) \in Nat
           /\ Cardinality(A) + (IF x \in B THEN 1 ELSE 0)
                = Cardinality(B) + (IF x \in A THEN 1 ELSE 0)
<1> DEFINE C == A \ {x}
<1>1. IsFiniteSet(C) BY FS_Subset
<1>2. PICK n \in Nat : n = Cardinality(C) BY <1>1, FS_CardinalityType
<1>3. Cardinality(C \cup {x}) = n + 1
  <2>1. x \notin C OBVIOUS
  <2> HIDE DEF C
  <2>2. QED BY <1>1, <1>2, <2>1, FS_AddElement
<1>4. /\ x \in A => A = C \cup {x}
      /\ x \notin A => A = C
      /\ x \in B => B = C \cup {x}
      /\ x \notin B => B = C
  OBVIOUS
<1> HIDE DEF C
<1>5. QED BY <1>2, <1>3, <1>4

(* Calls and sweeps that have a commit to report, and calls with an event to
   publish. *)
Reporting(a, c) ==
    {q \in Calls : call[q].phase = "written" /\ call[q].id = a /\ c \in Causes[call[q].op]}
Sweeping(a) == {s \in Sweepers : a \in pending[s]}
Telling(a) == {q \in Calls : call[q].phase = "notified" /\ call[q].id = a}

(* An event is published by a call whose job is enqueued. *)
EventsBehindJobs ==
    \A a \in Alerts :
        resolvedEvents[a] + Cardinality(Telling(a)) <= jobs[a]["alert_resolved"]

NoticesInv == IInv /\ NoticesAccounted /\ EventsBehindJobs

LEMMA WaitingIs ==
    ASSUME NEW a, NEW c
    PROVE  /\ Waiting(a, c) \in Nat
           /\ Waiting(a, c) = Cardinality(Reporting(a, c))
                + IF c = "alert_escalated" THEN Cardinality(Sweeping(a)) ELSE 0
           /\ Cardinality(Reporting(a, c)) \in Nat /\ Cardinality(Sweeping(a)) \in Nat
           /\ Cardinality(Telling(a)) \in Nat
<1>1. /\ Reporting(a, c) \in SUBSET Calls /\ Sweeping(a) \in SUBSET Sweepers
      /\ Telling(a) \in SUBSET Calls
  BY DEF Reporting, Sweeping, Telling
<1>2. /\ Cardinality(Reporting(a, c)) \in Nat /\ Cardinality(Sweeping(a)) \in Nat
      /\ Cardinality(Telling(a)) \in Nat
  BY <1>1, IdsAssumption, FS_Subset, FS_CardinalityType
<1>3. QED BY <1>2 DEF Waiting, Reporting, Sweeping

LEMMA CountAt ==
    ASSUME NEW count \in [Alerts -> [Cause -> Nat]], NEW as, NEW causes,
           NEW a \in Alerts, NEW c \in Cause
    PROVE  AddToAll(count, as, causes)[a][c]
             = count[a][c] + IF a \in as /\ c \in causes THEN 1 ELSE 0
BY DEF AddToAll

(* A step of one call changes at most that call's part in a count. *)
LEMMA ReportingChange ==
    ASSUME NEW q \in Calls, \A p \in Calls \ {q} : call'[p] = call[p], NEW a, NEW c
    PROVE  /\ Cardinality(Reporting(a, c)) \in Nat /\ Cardinality(Reporting(a, c))' \in Nat
           /\ Cardinality(Reporting(a, c)) + (IF q \in Reporting(a, c)' THEN 1 ELSE 0)
                = Cardinality(Reporting(a, c))' + (IF q \in Reporting(a, c) THEN 1 ELSE 0)
<1>1. PICK A, B : A = Reporting(a, c) /\ B = Reporting(a, c)' OBVIOUS
<1>2. /\ A \in SUBSET Calls /\ B \in SUBSET Calls
      /\ \A p \in Calls \ {q} : p \in A <=> p \in B
  BY <1>1 DEF Reporting
<1>3. A \ {q} = B \ {q} BY <1>2
<1>4. /\ Cardinality(A) \in Nat /\ Cardinality(B) \in Nat
      /\ Cardinality(A) + (IF q \in B THEN 1 ELSE 0)
           = Cardinality(B) + (IF q \in A THEN 1 ELSE 0)
  BY <1>2, <1>3, OneApart, IdsAssumption
<1>5. QED BY <1>1, <1>4

LEMMA TellingChange ==
    ASSUME NEW q \in Calls, \A p \in Calls \ {q} : call'[p] = call[p], NEW a
    PROVE  /\ Cardinality(Telling(a)) \in Nat /\ Cardinality(Telling(a))' \in Nat
           /\ Cardinality(Telling(a)) + (IF q \in Telling(a)' THEN 1 ELSE 0)
                = Cardinality(Telling(a))' + (IF q \in Telling(a) THEN 1 ELSE 0)
<1>1. PICK A, B : A = Telling(a) /\ B = Telling(a)' OBVIOUS
<1>2. /\ A \in SUBSET Calls /\ B \in SUBSET Calls
      /\ \A p \in Calls \ {q} : p \in A <=> p \in B
  BY <1>1 DEF Telling
<1>3. A \ {q} = B \ {q} BY <1>2
<1>4. /\ Cardinality(A) \in Nat /\ Cardinality(B) \in Nat
      /\ Cardinality(A) + (IF q \in B THEN 1 ELSE 0)
           = Cardinality(B) + (IF q \in A THEN 1 ELSE 0)
  BY <1>2, <1>3, OneApart, IdsAssumption
<1>5. QED BY <1>1, <1>4

LEMMA SweepingChange ==
    ASSUME NEW s \in Sweepers, \A t \in Sweepers \ {s} : pending'[t] = pending[t], NEW a
    PROVE  /\ Cardinality(Sweeping(a)) \in Nat /\ Cardinality(Sweeping(a))' \in Nat
           /\ Cardinality(Sweeping(a)) + (IF s \in Sweeping(a)' THEN 1 ELSE 0)
                = Cardinality(Sweeping(a))' + (IF s \in Sweeping(a) THEN 1 ELSE 0)
<1>1. PICK A, B : A = Sweeping(a) /\ B = Sweeping(a)' OBVIOUS
<1>2. /\ A \in SUBSET Sweepers /\ B \in SUBSET Sweepers
      /\ \A t \in Sweepers \ {s} : t \in A <=> t \in B
  BY <1>1 DEF Sweeping
<1>3. A \ {s} = B \ {s} BY <1>2
<1>4. /\ Cardinality(A) \in Nat /\ Cardinality(B) \in Nat
      /\ Cardinality(A) + (IF s \in B THEN 1 ELSE 0)
           = Cardinality(B) + (IF s \in A THEN 1 ELSE 0)
  BY <1>2, <1>3, OneApart, IdsAssumption
<1>5. QED BY <1>1, <1>4

(* What the counts of an alert are before and after a step. *)
LEMMA CountsAreNat ==
    ASSUME NoticesInv, NEW a \in Alerts, NEW c \in Cause
    PROVE  /\ writes[a][c] = jobs[a][c] + Waiting(a, c) + lost[a][c]
           /\ writes[a][c] \in Nat /\ jobs[a][c] \in Nat /\ lost[a][c] \in Nat
           /\ resolvedEvents[a] \in Nat
           /\ resolvedEvents[a] + Cardinality(Telling(a)) <= jobs[a]["alert_resolved"]
           /\ jobs[a]["alert_resolved"] \in Nat
<1>1. TypeOK BY DEF NoticesInv, IInv
<1>2. /\ writes[a][c] \in Nat /\ jobs[a][c] \in Nat /\ lost[a][c] \in Nat
      /\ resolvedEvents[a] \in Nat /\ jobs[a]["alert_resolved"] \in Nat
  BY <1>1 DEF TypeOK
<1>3. QED BY <1>2 DEF NoticesInv, NoticesAccounted, EventsBehindJobs

(* The balance of one alert and cause. *)
Balanced(a, c) ==
    /\ writes[a][c] = jobs[a][c] + Waiting(a, c) + lost[a][c]
    /\ resolvedEvents[a] + Cardinality(Telling(a)) <= jobs[a]["alert_resolved"]

(* Calls that are not the step's are told by their counts alone. *)
LEMMA CallBalance ==
    ASSUME NoticesInv, NEW q \in Calls, \A p \in Calls \ {q} : call'[p] = call[p],
           UNCHANGED pending, NEW a \in Alerts, NEW c \in Cause,
           TypeOK',
           writes'[a][c] + (IF q \in Reporting(a, c) THEN 1 ELSE 0) + jobs[a][c] + lost[a][c]
             = writes[a][c] + jobs'[a][c] + lost'[a][c]
                 + (IF q \in Reporting(a, c)' THEN 1 ELSE 0),
           resolvedEvents'[a] + (IF q \in Telling(a)' THEN 1 ELSE 0)
               + jobs[a]["alert_resolved"]
             <= jobs'[a]["alert_resolved"] + resolvedEvents[a]
                 + (IF q \in Telling(a) THEN 1 ELSE 0)
    PROVE  Balanced(a, c)'
<1>1. PICK was, is \in {0, 1} :
         /\ was = IF q \in Reporting(a, c) THEN 1 ELSE 0
         /\ is = IF q \in Reporting(a, c)' THEN 1 ELSE 0
  OBVIOUS
<1>2. PICK told, tells \in {0, 1} :
         /\ told = IF q \in Telling(a) THEN 1 ELSE 0
         /\ tells = IF q \in Telling(a)' THEN 1 ELSE 0
  OBVIOUS
<1>3. PICK R, R1 \in Nat : R = Cardinality(Reporting(a, c)) /\ R1 = Cardinality(Reporting(a, c))'
  BY ReportingChange
<1>4. PICK T, T1 \in Nat : T = Cardinality(Telling(a)) /\ T1 = Cardinality(Telling(a))'
  BY TellingChange
<1>5. R + is = R1 + was BY <1>1, <1>3, ReportingChange
<1>6. T + tells = T1 + told BY <1>2, <1>4, TellingChange
<1>7. PICK S \in Nat :
         /\ Waiting(a, c) = R + S
         /\ Waiting(a, c)' = R1 + S
  <2>1. Sweeping(a)' = Sweeping(a) BY DEF Sweeping
  <2>2. PICK S \in Nat : S = IF c = "alert_escalated" THEN Cardinality(Sweeping(a)) ELSE 0
    BY WaitingIs
  <2>3. Waiting(a, c) = R + S BY <1>3, <2>2, WaitingIs
  <2>4. Waiting(a, c)' = R1 + S
    BY <1>3, <2>1, <2>2 DEF Waiting, Reporting, Sweeping
  <2>5. QED BY <2>3, <2>4
<1>8. /\ writes[a][c] = jobs[a][c] + (R + S) + lost[a][c]
      /\ resolvedEvents[a] + T <= jobs[a]["alert_resolved"]
      /\ writes[a][c] \in Nat /\ jobs[a][c] \in Nat /\ lost[a][c] \in Nat
      /\ resolvedEvents[a] \in Nat /\ jobs[a]["alert_resolved"] \in Nat
  BY <1>4, <1>7, CountsAreNat
<1>9. /\ writes'[a][c] \in Int /\ jobs'[a][c] \in Int /\ lost'[a][c] \in Int
       /\ resolvedEvents'[a] \in Int /\ jobs'[a]["alert_resolved"] \in Int
  BY DEF TypeOK
<1>10. PICK w, w1 \in Int : w = writes[a][c] /\ w1 = writes'[a][c] BY <1>8, <1>9
<1>11. PICK j, j1 \in Int : j = jobs[a][c] /\ j1 = jobs'[a][c] BY <1>8, <1>9
<1>12. PICK l, l1 \in Int : l = lost[a][c] /\ l1 = lost'[a][c] BY <1>8, <1>9
<1>13. PICK r, r1 \in Int : r = resolvedEvents[a] /\ r1 = resolvedEvents'[a] BY <1>8, <1>9
<1>14. PICK k, k1 \in Int : k = jobs[a]["alert_resolved"] /\ k1 = jobs'[a]["alert_resolved"]
  BY <1>8, <1>9
<1>15. w1 = j1 + (R1 + S) + l1
  <2>1. w = j + (R + S) + l BY <1>8, <1>10, <1>11, <1>12
  <2>2. w1 + was + j + l = w + j1 + l1 + is BY <1>1, <1>10, <1>11, <1>12
  <2>3. QED BY <2>1, <2>2, <1>5
<1>16. r1 + T1 <= k1
  <2>1. r + T <= k BY <1>8, <1>13, <1>14
  <2>2. r1 + tells + k <= k1 + r + told BY <1>2, <1>13, <1>14
  <2>3. QED BY <2>1, <2>2, <1>6
<1>17. QED BY <1>4, <1>7, <1>10, <1>11, <1>12, <1>13, <1>14, <1>15, <1>16 DEF Balanced

(* A commit, a job and a lost report are counted for one alert and cause. *)
LEMMA AddedAt ==
    ASSUME NEW count \in [Alerts -> [Cause -> Nat]], NEW b, NEW causes,
           NEW a \in Alerts, NEW c \in Cause
    PROVE  AddTo(count, b, causes)[a][c]
             = count[a][c] + IF a = b /\ c \in causes THEN 1 ELSE 0
BY CountAt DEF AddTo

(* A creation is a commit to report. *)
LEMMA CreateBalanced ==
    ASSUME NoticesInv, IInv', NEW q \in Calls, NEW b \in Alerts, Create(q, b),
           NEW a \in Alerts, NEW c \in Cause
    PROVE  Balanced(a, c)'
<1>1. TypeOK /\ TypeOK' BY DEF NoticesInv, IInv
<1>2. PICK d, z \in {0, 1} :
         z = 0 /\ d = IF a = b /\ c \in Causes["create"] THEN 1 ELSE 0
  OBVIOUS
<1>3. writes'[a][c] = writes[a][c] + d
  <2>1. writes' = AddTo(writes, b, Causes["create"]) BY DEF Create, WriteRow
  <2>2. writes \in [Alerts -> [Cause -> Nat]] BY <1>1 DEF TypeOK
  <2>3. QED BY <1>2, <2>1, <2>2, AddedAt
<1>4. /\ jobs'[a][c] = jobs[a][c] + z
      /\ lost'[a][c] = lost[a][c] + z
      /\ resolvedEvents'[a] = resolvedEvents[a] + z
      /\ jobs'[a]["alert_resolved"] = jobs[a]["alert_resolved"] + z
  BY <1>1, <1>2 DEF Create, outVars, TypeOK
<1>5. /\ \A p \in Calls \ {q} : call'[p] = call[p]
      /\ call'[q].phase = "written" /\ call'[q].id = b /\ call'[q].op = "create"
  BY <1>1 DEF Create, TypeOK
<1>6. d + (IF q \in Reporting(a, c) THEN 1 ELSE 0)
        = z + z + (IF q \in Reporting(a, c)' THEN 1 ELSE 0)
  BY <1>2, <1>5 DEF Create, Reporting
<1>7. z + (IF q \in Telling(a)' THEN 1 ELSE 0) <= z + (IF q \in Telling(a) THEN 1 ELSE 0)
  BY <1>2, <1>5 DEF Create, Telling
<1>8. UNCHANGED pending BY DEF Create
<1>9. /\ writes'[a][c] + (IF q \in Reporting(a, c) THEN 1 ELSE 0) + jobs[a][c] + lost[a][c]
         = writes[a][c] + jobs'[a][c] + lost'[a][c]
             + (IF q \in Reporting(a, c)' THEN 1 ELSE 0)
       /\ resolvedEvents'[a] + (IF q \in Telling(a)' THEN 1 ELSE 0) + jobs[a]["alert_resolved"]
         <= jobs'[a]["alert_resolved"] + resolvedEvents[a]
             + (IF q \in Telling(a) THEN 1 ELSE 0)
  BY <1>2, <1>3, <1>4, <1>6, <1>7, CountsAreNat
<1>10. QED BY <1>1, <1>5, <1>8, <1>9, CallBalance

(* What a step of a call does to its record. *)
LEMMA Advanced ==
    ASSUME TypeOK, NEW q \in Calls, NEW phase \in Phase, Advance(q, phase)
    PROVE  /\ \A p \in Calls \ {q} : call'[p] = call[p]
           /\ call'[q].phase = phase
           /\ call'[q].id = call[q].id /\ call'[q].op = call[q].op
BY DEF Advance, TypeOK, Call

(* A lookup reports nothing: the phase it ends in has nothing to report. *)
LEMMA FetchBalanced ==
    ASSUME NoticesInv, IInv', NEW q \in Calls, NEW op, NEW path, NEW id, Fetch(q, op, path, id),
           NEW a \in Alerts, NEW c \in Cause
    PROVE  Balanced(a, c)'
<1>1. TypeOK /\ TypeOK' BY DEF NoticesInv, IInv
<1>2. PICK z \in {0, 1} : z = 0 OBVIOUS
<1>3. /\ writes'[a][c] = writes[a][c] + z
      /\ jobs'[a][c] = jobs[a][c] + z
      /\ lost'[a][c] = lost[a][c] + z
      /\ resolvedEvents'[a] = resolvedEvents[a] + z
      /\ jobs'[a]["alert_resolved"] = jobs[a]["alert_resolved"] + z
  BY <1>1, <1>2 DEF Fetch, outVars, rowVars, TypeOK
<1>4. /\ \A p \in Calls \ {q} : call'[p] = call[p]
      /\ call'[q].phase = Outcome(op, id)
  BY <1>1 DEF Fetch, TypeOK
<1>5. Outcome(op, id) \notin {"written", "notified"} BY DEF Outcome
<1>6. z + (IF q \in Reporting(a, c) THEN 1 ELSE 0)
        = z + z + (IF q \in Reporting(a, c)' THEN 1 ELSE 0)
  BY <1>2, <1>4, <1>5 DEF Fetch, Reporting
<1>7. z + (IF q \in Telling(a)' THEN 1 ELSE 0) <= z + (IF q \in Telling(a) THEN 1 ELSE 0)
  BY <1>2, <1>4, <1>5 DEF Fetch, Telling
<1>8. UNCHANGED pending BY DEF Fetch
<1>9. /\ writes'[a][c] + (IF q \in Reporting(a, c) THEN 1 ELSE 0) + jobs[a][c] + lost[a][c]
         = writes[a][c] + jobs'[a][c] + lost'[a][c]
             + (IF q \in Reporting(a, c)' THEN 1 ELSE 0)
       /\ resolvedEvents'[a] + (IF q \in Telling(a)' THEN 1 ELSE 0) + jobs[a]["alert_resolved"]
         <= jobs'[a]["alert_resolved"] + resolvedEvents[a]
             + (IF q \in Telling(a) THEN 1 ELSE 0)
  BY <1>2, <1>3, <1>6, <1>7, CountsAreNat
<1>10. QED BY <1>1, <1>4, <1>8, <1>9, CallBalance

(* A write is a commit to report if its operation has a cause. *)
LEMMA WriteBalanced ==
    ASSUME NoticesInv, IInv', NEW q \in Calls, Write(q), NEW a \in Alerts, NEW c \in Cause
    PROVE  Balanced(a, c)'
<1> DEFINE b == call[q].id
           causes == Causes[call[q].op]
<1>1. TypeOK /\ TypeOK' BY DEF NoticesInv, IInv
<1>2. PICK d, z \in {0, 1} : z = 0 /\ d = IF a = b /\ c \in causes THEN 1 ELSE 0
  OBVIOUS
<1>3. writes'[a][c] = writes[a][c] + d
  <2>1. writes' = AddTo(writes, b, causes) BY DEF Write, WriteRow
  <2>2. writes \in [Alerts -> [Cause -> Nat]] BY <1>1 DEF TypeOK
  <2>3. QED BY <1>2, <2>1, <2>2, AddedAt
<1>4. /\ jobs'[a][c] = jobs[a][c] + z
      /\ lost'[a][c] = lost[a][c] + z
      /\ resolvedEvents'[a] = resolvedEvents[a] + z
      /\ jobs'[a]["alert_resolved"] = jobs[a]["alert_resolved"] + z
  BY <1>1, <1>2 DEF Write, outVars, TypeOK
<1>5. /\ \A p \in Calls \ {q} : call'[p] = call[p]
      /\ call'[q].phase = IF causes = {} THEN "done" ELSE "written"
      /\ call'[q].id = b /\ call'[q].op = call[q].op
  BY <1>1, Advanced DEF Write
<1>6. d + (IF q \in Reporting(a, c) THEN 1 ELSE 0)
        = z + z + (IF q \in Reporting(a, c)' THEN 1 ELSE 0)
  BY <1>2, <1>5 DEF Write, Reporting
<1>7. z + (IF q \in Telling(a)' THEN 1 ELSE 0) <= z + (IF q \in Telling(a) THEN 1 ELSE 0)
  BY <1>2, <1>5 DEF Write, Telling
<1>8. UNCHANGED pending BY DEF Write
<1> HIDE DEF b, causes
<1>9. /\ writes'[a][c] + (IF q \in Reporting(a, c) THEN 1 ELSE 0) + jobs[a][c] + lost[a][c]
         = writes[a][c] + jobs'[a][c] + lost'[a][c]
             + (IF q \in Reporting(a, c)' THEN 1 ELSE 0)
       /\ resolvedEvents'[a] + (IF q \in Telling(a)' THEN 1 ELSE 0) + jobs[a]["alert_resolved"]
         <= jobs'[a]["alert_resolved"] + resolvedEvents[a]
             + (IF q \in Telling(a) THEN 1 ELSE 0)
  BY <1>2, <1>3, <1>4, <1>6, <1>7, CountsAreNat
<1>10. QED BY <1>1, <1>5, <1>8, <1>9, CallBalance

(* A job takes the place of what the call had to report, and a resolution's
   job comes before its event. *)
LEMMA EnqueueBalanced ==
    ASSUME NoticesInv, IInv', NEW q \in Calls, Enqueue(q), NEW a \in Alerts, NEW c \in Cause
    PROVE  Balanced(a, c)'
<1> DEFINE b == call[q].id
           causes == Causes[call[q].op]
<1>1. TypeOK /\ TypeOK' BY DEF NoticesInv, IInv
<1>2. PICK d, z, e \in {0, 1} :
         /\ z = 0
         /\ d = IF a = b /\ c \in causes THEN 1 ELSE 0
         /\ e = IF a = b /\ "alert_resolved" \in causes THEN 1 ELSE 0
  OBVIOUS
<1>3. /\ jobs'[a][c] = jobs[a][c] + d
      /\ jobs'[a]["alert_resolved"] = jobs[a]["alert_resolved"] + e
  <2>1. jobs' = AddTo(jobs, b, causes) BY DEF Enqueue
  <2>2. jobs \in [Alerts -> [Cause -> Nat]] BY <1>1 DEF TypeOK
  <2>3. "alert_resolved" \in Cause OBVIOUS
  <2> HIDE DEF Cause
  <2>4. QED BY <1>2, <2>1, <2>2, <2>3, AddedAt
<1>4. /\ writes'[a][c] = writes[a][c] + z
      /\ lost'[a][c] = lost[a][c] + z
      /\ resolvedEvents'[a] = resolvedEvents[a] + z
  BY <1>1, <1>2 DEF Enqueue, rowVars, TypeOK
<1>5. /\ \A p \in Calls \ {q} : call'[p] = call[p]
      /\ call'[q].phase = IF call[q].op = "resolve" THEN "notified" ELSE "done"
      /\ call'[q].id = b /\ call'[q].op = call[q].op
  BY <1>1, Advanced DEF Enqueue
<1>6. z + (IF q \in Reporting(a, c) THEN 1 ELSE 0)
        = d + z + (IF q \in Reporting(a, c)' THEN 1 ELSE 0)
  BY <1>2, <1>5 DEF Enqueue, Reporting
<1>7. call[q].op = "resolve" => "alert_resolved" \in causes BY DEF Causes
<1>8. z + (IF q \in Telling(a)' THEN 1 ELSE 0) <= e + (IF q \in Telling(a) THEN 1 ELSE 0)
  BY <1>2, <1>5, <1>7 DEF Enqueue, Telling
<1>9. UNCHANGED pending BY DEF Enqueue
<1> HIDE DEF b, causes
<1>10. /\ writes'[a][c] + (IF q \in Reporting(a, c) THEN 1 ELSE 0) + jobs[a][c] + lost[a][c]
         = writes[a][c] + jobs'[a][c] + lost'[a][c]
             + (IF q \in Reporting(a, c)' THEN 1 ELSE 0)
       /\ resolvedEvents'[a] + (IF q \in Telling(a)' THEN 1 ELSE 0) + jobs[a]["alert_resolved"]
         <= jobs'[a]["alert_resolved"] + resolvedEvents[a]
             + (IF q \in Telling(a) THEN 1 ELSE 0)
  BY <1>2, <1>3, <1>4, <1>6, <1>8, CountsAreNat
<1>11. QED BY <1>1, <1>5, <1>9, <1>10, CallBalance

(* An event is published by a call that was to publish it. *)
LEMMA PublishBalanced ==
    ASSUME NoticesInv, IInv', NEW q \in Calls, PublishResolved(q),
           NEW a \in Alerts, NEW c \in Cause
    PROVE  Balanced(a, c)'
<1> DEFINE b == call[q].id
<1>1. TypeOK /\ TypeOK' BY DEF NoticesInv, IInv
<1>2. PICK sent \in {0, 1} : resolvedEvents' = [resolvedEvents EXCEPT ![b] = @ + sent]
  BY DEF PublishResolved
<1>3. PICK d, z \in {0, 1} : z = 0 /\ d = IF a = b THEN sent ELSE 0 OBVIOUS
<1>4. /\ writes'[a][c] = writes[a][c] + z
      /\ jobs'[a][c] = jobs[a][c] + z
      /\ jobs'[a]["alert_resolved"] = jobs[a]["alert_resolved"] + z
      /\ lost'[a][c] = lost[a][c] + z
  BY <1>1, <1>3 DEF PublishResolved, rowVars, TypeOK
<1>5. resolvedEvents'[a] = resolvedEvents[a] + d BY <1>1, <1>2, <1>3 DEF TypeOK
<1>6. /\ \A p \in Calls \ {q} : call'[p] = call[p]
      /\ call'[q].phase = "done" /\ call'[q].id = b /\ call'[q].op = call[q].op
  BY <1>1, Advanced DEF PublishResolved
<1>7. z + (IF q \in Reporting(a, c) THEN 1 ELSE 0)
        = z + z + (IF q \in Reporting(a, c)' THEN 1 ELSE 0)
  BY <1>3, <1>6 DEF PublishResolved, Reporting
<1>8. d + (IF q \in Telling(a)' THEN 1 ELSE 0) <= z + (IF q \in Telling(a) THEN 1 ELSE 0)
  BY <1>3, <1>6 DEF PublishResolved, Telling
<1>9. UNCHANGED pending BY DEF PublishResolved
<1> HIDE DEF b
<1>10. /\ writes'[a][c] + (IF q \in Reporting(a, c) THEN 1 ELSE 0) + jobs[a][c] + lost[a][c]
         = writes[a][c] + jobs'[a][c] + lost'[a][c]
             + (IF q \in Reporting(a, c)' THEN 1 ELSE 0)
       /\ resolvedEvents'[a] + (IF q \in Telling(a)' THEN 1 ELSE 0) + jobs[a]["alert_resolved"]
         <= jobs'[a]["alert_resolved"] + resolvedEvents[a]
             + (IF q \in Telling(a) THEN 1 ELSE 0)
  BY <1>3, <1>4, <1>5, <1>7, <1>8, CountsAreNat
<1>11. QED BY <1>1, <1>6, <1>9, <1>10, CallBalance

(* What a call that dies had to report is lost. *)
LEMMA DieBalanced ==
    ASSUME NoticesInv, IInv', NEW q \in Calls, Die(q), NEW a \in Alerts, NEW c \in Cause
    PROVE  Balanced(a, c)'
<1> DEFINE b == call[q].id
           causes == Causes[call[q].op]
<1>1. TypeOK /\ TypeOK' BY DEF NoticesInv, IInv
<1>2. PICK d, z \in {0, 1} :
         /\ z = 0
         /\ d = IF call[q].phase = "written" /\ a = b /\ c \in causes THEN 1 ELSE 0
  OBVIOUS
<1>3. lost'[a][c] = lost[a][c] + d
  <2>1. lost' = IF call[q].phase = "written" THEN AddTo(lost, b, causes) ELSE lost BY DEF Die
  <2>2. lost \in [Alerts -> [Cause -> Nat]] BY <1>1 DEF TypeOK
  <2>3. lost[a][c] \in Nat BY <2>2
  <2>4. QED BY <1>2, <2>1, <2>2, <2>3, AddedAt
<1>4. /\ writes'[a][c] = writes[a][c] + z
      /\ jobs'[a][c] = jobs[a][c] + z
      /\ jobs'[a]["alert_resolved"] = jobs[a]["alert_resolved"] + z
      /\ resolvedEvents'[a] = resolvedEvents[a] + z
  BY <1>1, <1>2 DEF Die, rowVars, TypeOK
<1>5. /\ \A p \in Calls \ {q} : call'[p] = call[p]
      /\ call'[q].phase = "died" /\ call'[q].id = b /\ call'[q].op = call[q].op
  BY <1>1, Advanced DEF Die
<1>6. z + (IF q \in Reporting(a, c) THEN 1 ELSE 0)
        = z + d + (IF q \in Reporting(a, c)' THEN 1 ELSE 0)
  BY <1>2, <1>5 DEF Die, Reporting
<1>7. z + (IF q \in Telling(a)' THEN 1 ELSE 0) <= z + (IF q \in Telling(a) THEN 1 ELSE 0)
  BY <1>2, <1>5 DEF Die, Telling
<1>8. UNCHANGED pending BY DEF Die
<1> HIDE DEF b, causes
<1>9. /\ writes'[a][c] + (IF q \in Reporting(a, c) THEN 1 ELSE 0) + jobs[a][c] + lost[a][c]
         = writes[a][c] + jobs'[a][c] + lost'[a][c]
             + (IF q \in Reporting(a, c)' THEN 1 ELSE 0)
       /\ resolvedEvents'[a] + (IF q \in Telling(a)' THEN 1 ELSE 0) + jobs[a]["alert_resolved"]
         <= jobs'[a]["alert_resolved"] + resolvedEvents[a]
             + (IF q \in Telling(a) THEN 1 ELSE 0)
  BY <1>2, <1>3, <1>4, <1>6, <1>7, CountsAreNat
<1>10. QED BY <1>1, <1>5, <1>8, <1>9, CallBalance

(* A step of one sweep moves that sweep's part of a balance alone. *)
LEMMA SweepBalance ==
    ASSUME NoticesInv, NEW s \in Sweepers,
           \A t \in Sweepers \ {s} : pending'[t] = pending[t],
           UNCHANGED <<call, resolvedEvents>>, NEW a \in Alerts, NEW c \in Cause,
           NEW dw \in {0, 1}, NEW dj \in {0, 1}, NEW dl \in {0, 1},
           writes'[a][c] = writes[a][c] + dw, jobs'[a][c] = jobs[a][c] + dj,
           lost'[a][c] = lost[a][c] + dl,
           jobs'[a]["alert_resolved"] = jobs[a]["alert_resolved"],
           dw + (IF c = "alert_escalated" /\ a \in pending[s] THEN 1 ELSE 0)
              = dj + dl + (IF c = "alert_escalated" /\ a \in pending'[s] THEN 1 ELSE 0)
    PROVE  Balanced(a, c)'
<1>1. PICK was, is \in {0, 1} :
         /\ was = IF s \in Sweeping(a) THEN 1 ELSE 0
         /\ is = IF s \in Sweeping(a)' THEN 1 ELSE 0
  OBVIOUS
<1>2. PICK P, P1 \in Nat : P = Cardinality(Sweeping(a)) /\ P1 = Cardinality(Sweeping(a))'
  BY SweepingChange
<1>3. P + is = P1 + was BY <1>1, <1>2, SweepingChange
<1>4. PICK R \in Nat : R = Cardinality(Reporting(a, c)) BY WaitingIs
<1>5. /\ Waiting(a, c) = R + (IF c = "alert_escalated" THEN P ELSE 0)
      /\ Waiting(a, c)' = R + (IF c = "alert_escalated" THEN P1 ELSE 0)
  <2>1. Reporting(a, c)' = Reporting(a, c) BY DEF Reporting
  <2>2. QED BY <1>2, <1>4, <2>1 DEF Waiting, Reporting, Sweeping
<1>6. /\ writes[a][c] = jobs[a][c] + Waiting(a, c) + lost[a][c]
      /\ writes[a][c] \in Nat /\ jobs[a][c] \in Nat /\ lost[a][c] \in Nat
      /\ resolvedEvents[a] + Cardinality(Telling(a)) <= jobs[a]["alert_resolved"]
  BY CountsAreNat
<1>7. PICK w, j, l \in Nat : w = writes[a][c] /\ j = jobs[a][c] /\ l = lost[a][c]
  BY <1>6
<1>8. w + dw = (j + dj) + Waiting(a, c)' + (l + dl)
  <2>1. CASE c = "alert_escalated"
    <3>1. dw + was = dj + dl + is BY <2>1, <1>1 DEF Sweeping
    <3>2. w = j + (R + P) + l BY <2>1, <1>5, <1>6, <1>7
    <3>3. Waiting(a, c)' = R + P1 BY <2>1, <1>5
    <3>4. QED BY <3>1, <3>2, <3>3, <1>3
  <2>2. CASE c # "alert_escalated"
    <3>1. dw = dj + dl BY <2>2
    <3>2. w = j + R + l BY <2>2, <1>5, <1>6, <1>7
    <3>3. Waiting(a, c)' = R BY <2>2, <1>5
    <3>4. QED BY <3>1, <3>2, <3>3
  <2>3. QED BY <2>1, <2>2
<1>9. Telling(a)' = Telling(a) BY DEF Telling
<1>10. QED BY <1>6, <1>7, <1>8, <1>9 DEF Balanced

(* A sweep has the alerts it escalated to report. *)
LEMMA SweepBalanced ==
    ASSUME NoticesInv, NEW s \in Sweepers, Sweep(s), NEW a \in Alerts, NEW c \in Cause
    PROVE  Balanced(a, c)'
<1>1. TypeOK BY DEF NoticesInv, IInv
<1>2. PICK d, z \in {0, 1} :
         z = 0 /\ d = IF a \in Stale /\ c \in {"alert_escalated"} THEN 1 ELSE 0
  OBVIOUS
<1>3. writes'[a][c] = writes[a][c] + d
  <2>1. writes' = AddToAll(writes, Stale, {"alert_escalated"}) BY DEF Sweep
  <2>2. writes \in [Alerts -> [Cause -> Nat]] BY <1>1 DEF TypeOK
  <2>3. QED BY <1>2, <2>1, <2>2, CountAt
<1>4. /\ jobs'[a][c] = jobs[a][c] + z /\ lost'[a][c] = lost[a][c] + z
      /\ jobs'[a]["alert_resolved"] = jobs[a]["alert_resolved"]
  BY <1>1, <1>2 DEF Sweep, outVars, TypeOK
<1>5. /\ \A t \in Sweepers \ {s} : pending'[t] = pending[t]
      /\ pending[s] = {} /\ pending'[s] = Stale
  BY <1>1 DEF Sweep, TypeOK
<1>6. d + (IF c = "alert_escalated" /\ a \in pending[s] THEN 1 ELSE 0)
        = z + z + (IF c = "alert_escalated" /\ a \in pending'[s] THEN 1 ELSE 0)
  BY <1>2, <1>5
<1>7. UNCHANGED <<call, resolvedEvents>> BY DEF Sweep, outVars
<1>8. QED BY <1>2, <1>3, <1>4, <1>5, <1>6, <1>7, SweepBalance

LEMMA SweepEnqueueBalanced ==
    ASSUME NoticesInv, NEW s \in Sweepers, NEW b \in Alerts, SweepEnqueue(s, b),
           NEW a \in Alerts, NEW c \in Cause
    PROVE  Balanced(a, c)'
<1>1. TypeOK BY DEF NoticesInv, IInv
<1>2. PICK d, z \in {0, 1} :
         z = 0 /\ d = IF a = b /\ c \in {"alert_escalated"} THEN 1 ELSE 0
  OBVIOUS
<1>3. jobs'[a][c] = jobs[a][c] + d
  <2>1. jobs' = AddTo(jobs, b, {"alert_escalated"}) BY DEF SweepEnqueue
  <2>2. jobs \in [Alerts -> [Cause -> Nat]] BY <1>1 DEF TypeOK
  <2>3. QED BY <1>2, <2>1, <2>2, AddedAt
<1>4. jobs'[a]["alert_resolved"] = jobs[a]["alert_resolved"]
  <2>1. PICK k \in Nat : k = jobs[a]["alert_resolved"] BY <1>1 DEF TypeOK
  <2>2. jobs'[a]["alert_resolved"]
          = k + IF a = b /\ "alert_resolved" \in {"alert_escalated"} THEN 1 ELSE 0
    <3>1. jobs' = AddTo(jobs, b, {"alert_escalated"}) BY DEF SweepEnqueue
    <3>2. jobs \in [Alerts -> [Cause -> Nat]] BY <1>1 DEF TypeOK
    <3>3. "alert_resolved" \in Cause OBVIOUS
    <3> HIDE DEF Cause
    <3>4. QED BY <2>1, <3>1, <3>2, <3>3, AddedAt
  <2>3. QED BY <2>1, <2>2
<1>5. writes'[a][c] = writes[a][c] + z /\ lost'[a][c] = lost[a][c] + z
  BY <1>1, <1>2 DEF SweepEnqueue, rowVars, TypeOK
<1>6. /\ \A t \in Sweepers \ {s} : pending'[t] = pending[t]
      /\ b \in pending[s] /\ pending'[s] = pending[s] \ {b}
  BY <1>1 DEF SweepEnqueue, TypeOK
<1>7. z + (IF c = "alert_escalated" /\ a \in pending[s] THEN 1 ELSE 0)
        = d + z + (IF c = "alert_escalated" /\ a \in pending'[s] THEN 1 ELSE 0)
  BY <1>2, <1>6
<1>8. UNCHANGED <<call, resolvedEvents>> BY DEF SweepEnqueue
<1>9. QED BY <1>2, <1>3, <1>4, <1>5, <1>6, <1>7, <1>8, SweepBalance

LEMMA SweepDiesBalanced ==
    ASSUME NoticesInv, NEW s \in Sweepers, SweepDies(s), NEW a \in Alerts, NEW c \in Cause
    PROVE  Balanced(a, c)'
<1>1. TypeOK BY DEF NoticesInv, IInv
<1>2. PICK d, z \in {0, 1} :
         z = 0 /\ d = IF a \in pending[s] /\ c \in {"alert_escalated"} THEN 1 ELSE 0
  OBVIOUS
<1>3. lost'[a][c] = lost[a][c] + d
  BY <1>1, <1>2, CountAt DEF SweepDies, TypeOK
<1>4. /\ jobs'[a][c] = jobs[a][c] + z /\ writes'[a][c] = writes[a][c] + z
      /\ jobs'[a]["alert_resolved"] = jobs[a]["alert_resolved"]
  BY <1>1, <1>2 DEF SweepDies, rowVars, TypeOK
<1>5. /\ \A t \in Sweepers \ {s} : pending'[t] = pending[t]
      /\ pending'[s] = {}
  BY <1>1 DEF SweepDies, TypeOK
<1>6. z + (IF c = "alert_escalated" /\ a \in pending[s] THEN 1 ELSE 0)
        = z + d + (IF c = "alert_escalated" /\ a \in pending'[s] THEN 1 ELSE 0)
  BY <1>2, <1>5
<1>7. UNCHANGED <<call, resolvedEvents>> BY DEF SweepDies
<1>8. QED BY <1>2, <1>3, <1>4, <1>5, <1>6, <1>7, SweepBalance

(* A step that leaves calls, sweeps and counters alone. *)
LEMMA QuietBalanced ==
    ASSUME NoticesInv, UNCHANGED <<writes, call, pending, outVars>>,
           NEW a \in Alerts, NEW c \in Cause
    PROVE  Balanced(a, c)'
<1>1. Waiting(a, c)' = Waiting(a, c) /\ Telling(a)' = Telling(a)
  BY DEF Waiting, Telling
<1>2. QED BY <1>1, CountsAreNat DEF Balanced, outVars

(* Nothing is committed, enqueued or published yet. *)
LEMMA InitNotices == Init => NoticesInv
<1> SUFFICES ASSUME Init PROVE NoticesInv OBVIOUS
<1>1. IInv BY InitIInv
<1>2. ASSUME NEW a \in Alerts, NEW c \in Cause
      PROVE  /\ Reporting(a, c) = {} /\ Sweeping(a) = {} /\ Telling(a) = {}
             /\ writes[a][c] = 0 /\ jobs[a][c] = 0 /\ lost[a][c] = 0
             /\ resolvedEvents[a] = 0 /\ jobs[a]["alert_resolved"] = 0
  BY DEF Init, NoCall, NoCount, Reporting, Sweeping, Telling
<1>3. Cardinality({}) = 0 BY FS_EmptySet
<1>4. ASSUME NEW a \in Alerts, NEW c \in Cause
      PROVE  /\ Waiting(a, c) = 0 /\ Cardinality(Telling(a)) = 0
             /\ writes[a][c] = 0 /\ jobs[a][c] = 0 /\ lost[a][c] = 0
             /\ resolvedEvents[a] = 0 /\ jobs[a]["alert_resolved"] = 0
  <2>1. /\ Reporting(a, c) = {} /\ Sweeping(a) = {} /\ Telling(a) = {} BY <1>2
  <2>2. /\ writes[a][c] = 0 /\ jobs[a][c] = 0 /\ lost[a][c] = 0
        /\ resolvedEvents[a] = 0 /\ jobs[a]["alert_resolved"] = 0
    BY <1>2
  <2>3. Waiting(a, c) = 0 BY <1>3, <2>1, WaitingIs
  <2>4. QED BY <1>3, <2>1, <2>2, <2>3
<1>5. NoticesAccounted BY <1>4 DEF NoticesAccounted
<1>6. EventsBehindJobs BY <1>4 DEF EventsBehindJobs
<1>7. QED BY <1>1, <1>5, <1>6 DEF NoticesInv

(* Every step keeps every balance. *)
LEMMA StepNotices == NoticesInv /\ [Next]_vars => NoticesInv'
<1> SUFFICES ASSUME NoticesInv, [Next]_vars PROVE NoticesInv' OBVIOUS
<1>1. IInv' BY StepPreservesIInv DEF NoticesInv
<1>2. ASSUME NEW a \in Alerts, NEW c \in Cause PROVE Balanced(a, c)'
  <2>1. ASSUME NEW q \in Calls, NEW b \in Alerts, Create(q, b) PROVE Balanced(a, c)'
    BY <1>1, <2>1, CreateBalanced
  <2>2. ASSUME NEW q \in Calls, NEW b \in Alerts,
               \/ \E op \in Transition : ServiceCall(q, op, b)
               \/ \E op \in Transition, u \in Users : RouterCall(q, op, b, u)
        PROVE Balanced(a, c)'
    BY <1>1, <2>2, FetchBalanced DEF ServiceCall, RouterCall
  <2>3. ASSUME NEW q \in Calls, Write(q) \/ Enqueue(q) \/ PublishResolved(q) \/ Die(q)
        PROVE Balanced(a, c)'
    BY <1>1, <2>3, WriteBalanced, EnqueueBalanced, PublishBalanced, DieBalanced
  <2>4. ASSUME NEW b \in Alerts, Age(b) PROVE Balanced(a, c)'
    BY <2>4, QuietBalanced DEF Age, rowVars
  <2>5. ASSUME NEW s \in Sweepers, Sweep(s) \/ SweepDies(s) PROVE Balanced(a, c)'
    BY <2>5, SweepBalanced, SweepDiesBalanced
  <2>6. ASSUME NEW s \in Sweepers, NEW b \in Alerts, SweepEnqueue(s, b)
        PROVE Balanced(a, c)'
    BY <2>6, SweepEnqueueBalanced
  <2>7. CASE UNCHANGED vars BY <2>7, QuietBalanced DEF vars, rowVars
  <2>8. QED BY <2>1, <2>2, <2>3, <2>4, <2>5, <2>6, <2>7 DEF Next
<1>3. ASSUME NEW a \in Alerts
      PROVE  /\ resolvedEvents'[a] + Cardinality(Telling(a))' <= jobs'[a]["alert_resolved"]
             /\ resolvedEvents'[a] <= jobs'[a]["alert_resolved"]
  <2>1. resolvedEvents'[a] + Cardinality(Telling(a))' <= jobs'[a]["alert_resolved"]
    BY <1>2 DEF Balanced
  <2>2. /\ resolvedEvents'[a] \in Nat /\ jobs'[a]["alert_resolved"] \in Nat
        /\ Cardinality(Telling(a))' \in Nat
    <3>1. Telling(a)' \in SUBSET Calls BY DEF Telling
    <3>2. Cardinality(Telling(a)') \in Nat
      BY <3>1, IdsAssumption, FS_Subset, FS_CardinalityType
    <3>3. QED BY <1>1, <3>2 DEF IInv, TypeOK
  <2>3. QED BY <2>1, <2>2
<1>4. QED BY <1>1, <1>2, <1>3 DEF NoticesInv, NoticesAccounted, EventsBehindJobs, Balanced

(* Every committed change that is to be notified has its job, or is about to
   get it, or lost it with its process; and alert.resolved is published for
   resolutions whose job is enqueued. *)
THEOREM NoticesKept == Spec => []NoticesAccounted
<1>1. NoticesInv => NoticesAccounted BY DEF NoticesInv
<1>2. QED BY <1>1, InitNotices, StepNotices, PTL DEF Spec
=============================================================================
