------------------------ MODULE CertificationExpiry ------------------------
(***************************************************************************)
(* Certifications and check_cert_expiry, the sweep that beat starts every  *)
(* four hours.                                                             *)
(*                                                                         *)
(* A sweep reads the date once, sends the alerts of each window as it      *)
(* finds them, and commits the expired statuses at its end: a sweep that   *)
(* dies has sent alerts and changed nothing, and is delivered again.       *)
(***************************************************************************)
EXTENDS Integers, FiniteSets

CONSTANTS
    Certificates, \* ids of certifications
    Sweeps,       \* Celery workers that can run the sweep together
    ShortNotice,  \* days of the window certification.expiring.7d
    LongNotice,   \* days of the window certification.expiring.30d
    LastDay,      \* bound: days 0..LastDay
    MaxSweeps     \* bound: sweeps in all, redeliveries included

ASSUME ExpiryAssumption ==
    /\ ShortNotice \in Nat \ {0} /\ LongNotice \in Nat /\ ShortNotice < LongNotice
    /\ LastDay \in Nat /\ MaxSweeps \in Nat

VARIABLES
    today,      \* the date
    certificate,\* certificate[c]: the committed row of c, or NoCertificate
    sweep,      \* sweep[w]: the sweep that worker w runs
    sweeps,     \* sweeps begun so far
    announced,  \* announced[c][n]: alerts sent or lost of window n for c
    repeated    \* history: certificates announced again for a known reason

expiryVars == <<today, certificate, sweep, sweeps, announced, repeated>>

Windows == <<0, ShortNotice, LongNotice>>
Window == DOMAIN Windows
NoCertificate == [expiry |-> 0, status |-> "none"]
NoSweep == [date |-> 0, window |-> 0, left |-> {}, marked |-> {}]

ExpiryTypeOK ==
    /\ today \in 0..LastDay
    /\ certificate \in [Certificates -> [expiry : 0..LastDay + LongNotice,
                                         status : {"none", "active", "expired"}]]
    /\ sweep \in [Sweeps -> [date : 0..LastDay, window : 0..4,
                             left : SUBSET Certificates, marked : SUBSET Certificates]]
    /\ sweeps \in 0..MaxSweeps
    /\ announced \in [Certificates -> [Window -> Nat]]
    /\ repeated \subseteq Certificates

ExpiryInit ==
    /\ today = 0
    /\ certificate = [c \in Certificates |-> NoCertificate]
    /\ sweep = [w \in Sweeps |-> NoSweep]
    /\ sweeps = 0
    /\ announced = [c \in Certificates |-> [n \in Window |-> 0]]
    /\ repeated = {}

-----------------------------------------------------------------------------

(* create_certification, for a supplier that get_supplier finds. *)
Certify(c, expiry) ==
    /\ certificate[c] = NoCertificate
    /\ certificate' = [certificate EXCEPT ![c] = [expiry |-> expiry, status |-> "active"]]
    /\ UNCHANGED <<today, sweep, sweeps, announced, repeated>>

Midnight ==
    /\ today < LastDay
    /\ today' = today + 1
    /\ UNCHANGED <<certificate, sweep, sweeps, announced, repeated>>

(* beat, or the broker for the task of a worker that died. *)
BeginSweep(w) ==
    LET expired == {c \in Certificates : /\ certificate[c].status = "active"
                                         /\ certificate[c].expiry <= today} IN
    /\ sweep[w] = NoSweep /\ sweeps < MaxSweeps
    /\ sweep' = [sweep EXCEPT ![w] =
          [date |-> today, window |-> 1, left |-> expired, marked |-> {}]]
    /\ sweeps' = sweeps + 1
    /\ repeated' = repeated \cup
          (expired \cap UNION {sweep[v].left \cup sweep[v].marked : v \in Sweeps})
    /\ UNCHANGED <<today, certificate, announced>>

(* The certificates of a later window: those of exactly that day. *)
Due(w, n) ==
    {c \in Certificates \ sweep[w].marked : /\ certificate[c].status = "active"
                                            /\ certificate[c].expiry = sweep[w].date + Windows[n]}

NextWindow(w) ==
    /\ sweep[w].window \in 1..2 /\ sweep[w].left = {}
    /\ sweep' = [sweep EXCEPT ![w].window = @ + 1, ![w].left = Due(w, sweep[w].window + 1)]
    /\ UNCHANGED <<today, certificate, sweeps, announced, repeated>>

(* Mutant: the status is not set when the alert goes out. *)
MarkNone(w, c) == sweep[w].marked

(* The first window also marks the certificate as expired. *)
Mark(w, c) == IF sweep[w].window = 1 THEN sweep[w].marked \cup {c} ELSE sweep[w].marked

(* _emit_cert_alert: a failure to publish is logged only. *)
Announce(w, c) ==
    /\ c \in sweep[w].left
    /\ announced' = [announced EXCEPT ![c][sweep[w].window] = @ + 1]
    /\ sweep' = [sweep EXCEPT ![w].left = @ \ {c}, ![w].marked = Mark(w, c)]
    /\ UNCHANGED <<today, certificate, sweeps, repeated>>

CommitSweep(w) ==
    /\ sweep[w].window = 3 /\ sweep[w].left = {}
    /\ certificate' = [c \in Certificates |->
          IF c \in sweep[w].marked THEN [certificate[c] EXCEPT !.status = "expired"]
          ELSE certificate[c]]
    /\ sweep' = [sweep EXCEPT ![w] = NoSweep]
    /\ UNCHANGED <<today, sweeps, announced, repeated>>

(* The worker dies or the commit fails: the statuses stay, the alerts are out. *)
LoseSweep(w) ==
    /\ sweep[w] # NoSweep
    /\ sweep' = [sweep EXCEPT ![w] = NoSweep]
    /\ repeated' = repeated \cup sweep[w].marked
    /\ UNCHANGED <<today, certificate, sweeps, announced>>

ExpiryNext ==
    \/ Midnight
    \/ \E c \in Certificates, e \in 0..LastDay + LongNotice : Certify(c, e)
    \/ \E w \in Sweeps :
          \/ BeginSweep(w) \/ NextWindow(w) \/ CommitSweep(w) \/ LoseSweep(w)
          \/ \E c \in Certificates : Announce(w, c)

-----------------------------------------------------------------------------
(* Properties. *)

(* A certificate that is expired had its alert, and not twice unless a sweep
   that had sent it was lost or two overlapped; notices sent at the two windows
   agree with the date of expiry (the alerts precede the commit of the status
   that stops them, and the date is read once per sweep). *)
ExpiryAnnouncedOnce ==
    \A c \in Certificates :
       /\ certificate[c].status = "expired" => announced[c][1] > 0
       /\ announced[c][1] > 1 => c \in repeated
       /\ \A n \in Window \ {1} : announced[c][n] > 0 =>
             certificate[c].expiry \in Windows[n]..today + Windows[n]

=============================================================================
