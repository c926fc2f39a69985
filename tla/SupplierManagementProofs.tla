----------------------- MODULE SupplierManagementProofs -----------------------
(***************************************************************************)
(* Theorems about the supplier-management service: every number of         *)
(* suppliers, contacts, documents, certificates, requests and workers, and *)
(* every bound.                                                            *)
(*                                                                         *)
(* The parts write disjoint tables and one of them takes steps, so each    *)
(* has an invariant of its own: DocumentsInv, ExpiryInv, CardsInv and      *)
(* RegistryInv.                                                            *)
(***************************************************************************)
EXTENDS SupplierManagement, FiniteSetTheorems, TLAPS

-----------------------------------------------------------------------------
(* Documents.  Whoever is at work is at work on a document. *)

DocumentsInv ==
    /\ DocumentsTypeOK
    /\ \A u \in Uploaders : confirm[u].stage # "idle" => confirm[u].of \in Documents
    /\ \A w \in Scanners :
          /\ scan[w] # NoScan => scan[w].of \in Documents
          /\ scan[w].verdict # "none" => scan[w].of \in Documents

LEMMA InitDocuments == DocumentsInit => DocumentsInv
BY DocumentAssumption DEF DocumentsInit, DocumentsInv, DocumentsTypeOK, NoConfirm, NoScan

(* A confirm request or a scan changes its own row. *)
LEMMA ConfirmMoves ==
    ASSUME DocumentsInv, NEW u \in Uploaders, NEW j,
           j \in [of : Documents \cup {NoDocument}, stage : {"idle", "read", "flushed", "enqueued"}],
           j.stage # "idle" => j.of \in Documents, confirm' = [confirm EXCEPT ![u] = j]
    PROVE  /\ confirm' \in [Uploaders -> [of : Documents \cup {NoDocument},
                                          stage : {"idle", "read", "flushed", "enqueued"}]]
           /\ \A v \in Uploaders : confirm'[v].stage # "idle" => confirm'[v].of \in Documents
BY DEF DocumentsInv, DocumentsTypeOK

LEMMA ScanMoves ==
    ASSUME DocumentsInv, NEW w \in Scanners, NEW j,
           j \in [of : Documents \cup {NoDocument}, verdict : Verdict \cup {"none"}],
           j = NoScan \/ j.of \in Documents, scan' = [scan EXCEPT ![w] = j]
    PROVE  /\ scan' \in [Scanners -> [of : Documents \cup {NoDocument},
                                      verdict : Verdict \cup {"none"}]]
           /\ \A v \in Scanners : /\ scan'[v] # NoScan => scan'[v].of \in Documents
                                  /\ scan'[v].verdict # "none" => scan'[v].of \in Documents
BY DEF DocumentsInv, DocumentsTypeOK, NoScan

LEMMA DocumentsStep == DocumentsInv /\ [DocumentsNext]_documentVars => DocumentsInv'
<1> SUFFICES ASSUME DocumentsInv, [DocumentsNext]_documentVars PROVE DocumentsInv' OBVIOUS
<1>1. CASE UNCHANGED documentVars
  BY <1>1 DEF documentVars, DocumentsInv, DocumentsTypeOK
<1>2. ASSUME NEW d \in Documents, Presign(d) \/ Upload(d) \/ DeleteDocument(d)
      PROVE  DocumentsInv'
  <2>1. /\ document' \in [Documents -> UploadStatus \cup {"none"}]
        /\ stored' \in [Documents -> BOOLEAN]
    BY <1>2 DEF Presign, Upload, DeleteDocument, DocumentsInv, DocumentsTypeOK, UploadStatus
  <2>2. QED BY <1>2, <2>1 DEF Presign, Upload, DeleteDocument, DocumentsInv, DocumentsTypeOK
<1>3. ASSUME NEW u \in Uploaders, NEW d \in Documents, Confirm(u, d) PROVE DocumentsInv'
  <2>1. PICK j : j = [of |-> d, stage |-> "read"] OBVIOUS
  <2>2. confirm' = [confirm EXCEPT ![u] = j] BY <1>3, <2>1 DEF Confirm
  <2>3. confirms' \in 0..MaxConfirms
    BY <1>3, DocumentAssumption DEF Confirm, DocumentsInv, DocumentsTypeOK
  <2>4. QED BY <1>3, <2>1, <2>2, <2>3, ConfirmMoves DEF Confirm, DocumentsInv, DocumentsTypeOK
<1>4. ASSUME NEW u \in Uploaders,
             FlushScanning(u) \/ Enqueue(u) \/ CommitConfirm(u) \/ FailConfirm(u)
      PROVE  DocumentsInv'
  <2>1. PICK r : r = confirm[u] OBVIOUS
  <2>2. r.of \in Documents /\ r \in [of : Documents \cup {NoDocument},
                                     stage : {"idle", "read", "flushed", "enqueued"}]
    BY <1>4, <2>1
       DEF FlushScanning, Enqueue, CommitConfirm, FailConfirm, DocumentsInv, DocumentsTypeOK
  <2>3. \E j \in [of : Documents \cup {NoDocument}, stage : {"idle", "read", "flushed", "enqueued"}] :
           (j.stage # "idle" => j.of \in Documents) /\ confirm' = [confirm EXCEPT ![u] = j]
    <3>1. CASE FlushScanning(u) \/ Enqueue(u)
      <4>1. PICK x \in {"flushed", "enqueued"} : confirm' = [confirm EXCEPT ![u].stage = x]
        BY <3>1 DEF FlushScanning, Enqueue
      <4>2. PICK j : j = [r EXCEPT !.stage = x] OBVIOUS
      <4>3. j \in [of : Documents \cup {NoDocument}, stage : {"idle", "read", "flushed", "enqueued"}]
            /\ j.of = r.of
        BY <2>2, <4>2
      <4>4. confirm' = [confirm EXCEPT ![u] = j] BY <2>1, <4>1, <4>2
      <4>5. QED BY <2>2, <4>3, <4>4
    <3>2. CASE CommitConfirm(u) \/ FailConfirm(u)
      <4>1. confirm' = [confirm EXCEPT ![u] = NoConfirm] BY <3>2 DEF CommitConfirm, FailConfirm
      <4>2. QED BY <4>1 DEF NoConfirm
    <3>3. QED BY <1>4, <3>1, <3>2
  <2>4. document' \in [Documents -> UploadStatus \cup {"none"}]
    BY <1>4 DEF FlushScanning, Enqueue, CommitConfirm, FailConfirm, DocumentsInv,
       DocumentsTypeOK, UploadStatus
  <2>5. queued' \in [Documents -> Nat] /\ forgotten' \subseteq Documents
    BY <1>4, <2>1, <2>2 DEF FlushScanning, Enqueue, CommitConfirm, FailConfirm, DocumentsInv,
       DocumentsTypeOK
  <2>6. UNCHANGED <<stored, confirms, scan, crashes>>
    BY <1>4 DEF FlushScanning, Enqueue, CommitConfirm, FailConfirm
  <2>7. QED BY <2>3, <2>4, <2>5, <2>6, ConfirmMoves DEF DocumentsInv, DocumentsTypeOK
<1>5. ASSUME NEW w \in Scanners, NEW d \in Documents, TakeScan(w, d) PROVE DocumentsInv'
  <2>1. PICK j : j = [of |-> d, verdict |-> "none"] OBVIOUS
  <2>2. scan' = [scan EXCEPT ![w] = j] BY <1>5, <2>1 DEF TakeScan
  <2>3. queued' \in [Documents -> Nat] BY <1>5 DEF TakeScan, DocumentsInv, DocumentsTypeOK
  <2>4. QED BY <1>5, <2>1, <2>2, <2>3, ScanMoves DEF TakeScan, DocumentsInv, DocumentsTypeOK
<1>6. ASSUME NEW w \in Scanners, Judge(w) PROVE DocumentsInv'
  <2>1. PICK r : r = scan[w] OBVIOUS
  <2>2. r.of \in Documents /\ r \in [of : Documents \cup {NoDocument}, verdict : Verdict \cup {"none"}]
    BY <1>6, <2>1 DEF Judge, DocumentsInv, DocumentsTypeOK
  <2>3. PICK v \in Verdict : scan' = [scan EXCEPT ![w].verdict = v] BY <1>6 DEF Judge, Verdict
  <2>4. PICK j : j = [r EXCEPT !.verdict = v] OBVIOUS
  <2>5. j \in [of : Documents \cup {NoDocument}, verdict : Verdict \cup {"none"}] /\ j.of = r.of
    BY <2>2, <2>4
  <2>6. scan' = [scan EXCEPT ![w] = j] BY <2>1, <2>3, <2>4
  <2>7. QED BY <1>6, <2>2, <2>5, <2>6, ScanMoves DEF Judge, DocumentsInv, DocumentsTypeOK
<1>7. ASSUME NEW w \in Scanners, WriteVerdict(w) \/ LoseVerdict(w) \/ ScannerDies(w)
      PROVE  DocumentsInv'
  <2>1. PICK r : r = scan[w] OBVIOUS
  <2>2. r.of \in Documents /\ r.verdict \in Verdict \cup {"none"}
    BY <1>7, <2>1 DEF WriteVerdict, LoseVerdict, ScannerDies, DocumentsInv, DocumentsTypeOK
  <2>3. scan' = [scan EXCEPT ![w] = NoScan]
    BY <1>7 DEF WriteVerdict, LoseVerdict, ScannerDies
  <2>4. NoScan \in [of : Documents \cup {NoDocument}, verdict : Verdict \cup {"none"}]
    BY DEF NoScan
  <2>5. document' \in [Documents -> UploadStatus \cup {"none"}]
    BY <1>7, <2>1, <2>2 DEF WriteVerdict, LoseVerdict, ScannerDies, DocumentsInv,
       DocumentsTypeOK, UploadStatus, Verdict
  <2>6. queued' \in [Documents -> Nat] /\ forgotten' \subseteq Documents
    <3>1. \/ queued' = queued
          \/ queued' = [queued EXCEPT ![r.of] = @ + 1]
      BY <1>7, <2>1 DEF WriteVerdict, LoseVerdict, ScannerDies
    <3>2. queued \in [Documents -> Nat] /\ forgotten \subseteq Documents
      BY DEF DocumentsInv, DocumentsTypeOK
    <3>3. queued' \in [Documents -> Nat] BY <3>1, <3>2
    <3>4. forgotten' \subseteq Documents
      BY <1>7, <2>1, <2>2, <3>2 DEF WriteVerdict, LoseVerdict, ScannerDies
    <3>5. QED BY <3>3, <3>4
  <2>7. crashes' \in 0..MaxCrashes
    BY <1>7, DocumentAssumption DEF WriteVerdict, LoseVerdict, ScannerDies, DocumentsInv,
       DocumentsTypeOK
  <2>8. UNCHANGED <<stored, confirm, confirms>>
    BY <1>7 DEF WriteVerdict, LoseVerdict, ScannerDies
  <2>9. /\ scan' \in [Scanners -> [of : Documents \cup {NoDocument},
                                   verdict : Verdict \cup {"none"}]]
        /\ \A v \in Scanners : /\ scan'[v] # NoScan => scan'[v].of \in Documents
                               /\ scan'[v].verdict # "none" => scan'[v].of \in Documents
    BY <2>3, <2>4, ScanMoves
  <2>10. QED BY <2>5, <2>6, <2>7, <2>8, <2>9 DEF DocumentsInv, DocumentsTypeOK
<1>8. QED
  BY <1>1, <1>2, <1>3, <1>4, <1>5, <1>6, <1>7 DEF DocumentsNext

-----------------------------------------------------------------------------
(* Certifications. *)

SweepRow == [date : 0..LastDay, window : 0..3,
             left : SUBSET Certificates, marked : SUBSET Certificates]

ExpiryTyped ==
    /\ today \in 0..LastDay
    /\ certificate \in [Certificates -> [expiry : 0..LastDay + LongNotice,
                                         status : {"none", "active", "expired"}]]
    /\ sweep \in [Sweeps -> SweepRow]
    /\ sweeps \in 0..MaxSweeps
    /\ announced \in [Certificates -> [Window -> Nat]]
    /\ repeated \subseteq Certificates

(* A sweep looks at certificates that exist, has announced those it marks, and in
   the later windows has those that expire so many days after its date. *)
SweepFits(w) ==
    /\ sweep[w].date <= today
    /\ sweep[w].left # {} => sweep[w].window \in 1..3
    /\ \A c \in sweep[w].left \cup sweep[w].marked : certificate[c].status # "none"
    /\ \A c \in sweep[w].marked : announced[c][1] > 0
    /\ sweep[w].window # 1 =>
          \A c \in sweep[w].left : certificate[c].expiry = sweep[w].date + Windows[sweep[w].window]

Begins(w, c) == sweep[w].window = 1 /\ c \in sweep[w].left

(* A certificate whose expiry was announced is expired, or marked by the sweep that
   is to commit it, or it may be announced again. *)
OnceAnnounced(c) ==
    c \notin repeated =>
       /\ announced[c][1] <= 1
       /\ announced[c][1] = 1 =>
             certificate[c].status = "expired" \/ \E w \in Sweeps : c \in sweep[w].marked
       /\ \A w \in Sweeps : Begins(w, c) =>
             announced[c][1] = 0 /\ \A v \in Sweeps : Begins(v, c) => v = w

NoticesTimely(c) ==
    /\ certificate[c].status = "expired" => announced[c][1] > 0
    /\ \A n \in Window : announced[c][n] > 0 => certificate[c].status # "none"
    /\ \A n \in Window \ {1} : announced[c][n] > 0 =>
          certificate[c].expiry \in Windows[n]..today + Windows[n]

ExpiryInv ==
    /\ ExpiryTyped
    /\ \A w \in Sweeps : SweepFits(w)
    /\ \A c \in Certificates : OnceAnnounced(c) /\ NoticesTimely(c)

LEMMA WindowDays ==
    /\ Window = 1..3
    /\ Windows[1] = 0 /\ Windows[2] = ShortNotice /\ Windows[3] = LongNotice
    /\ \A n \in Window : Windows[n] \in Nat
BY ExpiryAssumption DEF Windows, Window

LEMMA ExpiryFollows == ExpiryInv => ExpiryAnnouncedOnce
<1> SUFFICES ASSUME ExpiryInv, NEW c \in Certificates
             PROVE  /\ certificate[c].status = "expired" => announced[c][1] > 0
                    /\ announced[c][1] > 1 => c \in repeated
                    /\ \A n \in Window \ {1} : announced[c][n] > 0 =>
                          certificate[c].expiry \in Windows[n]..today + Windows[n]
  BY DEF ExpiryAnnouncedOnce
<1>1. announced[c][1] \in Nat BY WindowDays DEF ExpiryInv, ExpiryTyped
<1>2. announced[c][1] > 1 => c \in repeated BY <1>1 DEF ExpiryInv, OnceAnnounced
<1>3. QED BY <1>2 DEF ExpiryInv, NoticesTimely

LEMMA ExpiryTypes == ExpiryInv => ExpiryTypeOK
<1> SUFFICES ASSUME ExpiryInv PROVE ExpiryTypeOK OBVIOUS
<1>1. \A j \in SweepRow : j \in [date : 0..LastDay, window : 0..4,
                                left : SUBSET Certificates, marked : SUBSET Certificates]
  BY DEF SweepRow
<1>2. QED BY <1>1 DEF ExpiryInv, ExpiryTyped, ExpiryTypeOK

LEMMA InitExpiry == ExpiryInit => ExpiryInv
<1> SUFFICES ASSUME ExpiryInit PROVE ExpiryInv OBVIOUS
<1> USE DEF ExpiryInit
<1>1. ExpiryTyped
  <2>1. NoSweep \in SweepRow BY ExpiryAssumption DEF NoSweep, SweepRow
  <2>2. NoCertificate \in [expiry : 0..LastDay + LongNotice, status : {"none", "active", "expired"}]
    BY ExpiryAssumption DEF NoCertificate
  <2>3. QED BY <2>1, <2>2, ExpiryAssumption DEF ExpiryTyped
<1>2. ASSUME NEW w \in Sweeps PROVE SweepFits(w) BY DEF SweepFits, NoSweep
<1>3. ASSUME NEW c \in Certificates PROVE OnceAnnounced(c) /\ NoticesTimely(c)
  <2>1. /\ \A n \in Window : announced[c][n] = 0 /\ 1 \in Window
        /\ certificate[c].status = "none"
    BY WindowDays DEF NoCertificate
  <2>2. announced[c][1] = 0 BY <2>1, WindowDays
  <2>3. \A w \in Sweeps : ~Begins(w, c) BY DEF Begins, NoSweep
  <2>4. OnceAnnounced(c) BY <2>2, <2>3 DEF OnceAnnounced
  <2>5. NoticesTimely(c) BY <2>1 DEF NoticesTimely
  <2>6. QED BY <2>4, <2>5
<1>4. QED BY <1>1, <1>2, <1>3 DEF ExpiryInv

(* Nothing but the date and new certificates: no sweep has them. *)
LEMMA CertifyKeeps ==
    ASSUME ExpiryInv, NEW c \in Certificates, NEW e \in 0..LastDay + LongNotice, Certify(c, e)
    PROVE  ExpiryInv'
<1>a. ExpiryTyped BY DEF ExpiryInv
<1>1. /\ certificate[c].status = "none"
      /\ UNCHANGED <<today, sweep, sweeps, announced, repeated>>
  BY DEF Certify, NoCertificate
<1>2. PICK row : row = [expiry |-> e, status |-> "active"] OBVIOUS
<1>3. certificate' = [certificate EXCEPT ![c] = row] BY <1>2 DEF Certify
<1>4. ExpiryTyped'
  <2>1. row \in [expiry : 0..LastDay + LongNotice, status : {"none", "active", "expired"}]
    BY <1>2
  <2>2. QED BY <2>1, <1>1, <1>3, <1>a DEF ExpiryTyped
<1>5. certificate'[c] = row /\ \A d \in Certificates : d # c => certificate'[d] = certificate[d]
  BY <1>3, <1>a DEF ExpiryTyped
<1>6. ASSUME NEW w \in Sweeps PROVE SweepFits(w)'
  <2>1. SweepFits(w) BY DEF ExpiryInv
  <2>2. c \notin sweep[w].left \cup sweep[w].marked BY <2>1, <1>1 DEF SweepFits
  <2>3. sweep[w].left \cup sweep[w].marked \subseteq Certificates BY <1>a DEF ExpiryTyped, SweepRow
  <2>4. QED BY <2>1, <2>2, <2>3, <1>1, <1>5 DEF SweepFits
<1>7. ASSUME NEW d \in Certificates PROVE OnceAnnounced(d)' /\ NoticesTimely(d)'
  <2>1. OnceAnnounced(d) /\ NoticesTimely(d) BY DEF ExpiryInv
  <2>2. CASE d # c BY <2>1, <2>2, <1>1, <1>5 DEF OnceAnnounced, NoticesTimely, Begins
  <2>3. CASE d = c
    <3>1. \A n \in Window : ~(announced[c][n] > 0) BY <2>1, <2>3, <1>1 DEF NoticesTimely
    <3>2. announced[c][1] = 0
      <4>1. announced[c][1] \in Nat /\ 1 \in Window BY <1>a, WindowDays DEF ExpiryTyped
      <4>2. QED BY <3>1, <4>1
    <3>3. NoticesTimely(c)' BY <3>1, <1>1, <1>2, <1>5 DEF NoticesTimely
    <3>4. OnceAnnounced(c)' BY <2>1, <2>3, <3>2, <1>1 DEF OnceAnnounced, Begins
    <3>5. QED BY <2>3, <3>3, <3>4
  <2>4. QED BY <2>2, <2>3
<1>8. QED BY <1>4, <1>6, <1>7 DEF ExpiryInv

LEMMA MidnightKeeps == ExpiryInv /\ Midnight => ExpiryInv'
<1> SUFFICES ASSUME ExpiryInv, Midnight PROVE ExpiryInv' OBVIOUS
<1>a. ExpiryTyped BY DEF ExpiryInv
<1>1. /\ today \in Nat /\ today' = today + 1 /\ today' \in 0..LastDay
      /\ UNCHANGED <<certificate, sweep, sweeps, announced, repeated>>
  BY <1>a, ExpiryAssumption DEF Midnight, ExpiryTyped
<1>2. ExpiryTyped' BY <1>1, <1>a DEF ExpiryTyped
<1>3. ASSUME NEW w \in Sweeps PROVE SweepFits(w)'
  <2>1. SweepFits(w) BY DEF ExpiryInv
  <2>2. sweep[w].date \in Int BY <1>a DEF ExpiryTyped, SweepRow
  <2>3. QED BY <2>1, <2>2, <1>1 DEF SweepFits
<1>4. ASSUME NEW c \in Certificates PROVE OnceAnnounced(c)' /\ NoticesTimely(c)'
  <2>1. OnceAnnounced(c)' BY <1>1 DEF ExpiryInv, OnceAnnounced, Begins
  <2>2. ASSUME NEW n \in Window \ {1}, announced[c][n] > 0
        PROVE  certificate[c].expiry \in Windows[n]..(today + 1) + Windows[n]
    <3>1. certificate[c].expiry \in Windows[n]..today + Windows[n]
      BY <2>2 DEF ExpiryInv, NoticesTimely
    <3>2. Windows[n] \in Nat BY WindowDays
    <3>3. QED BY <3>1, <3>2, <1>1
  <2>3. NoticesTimely(c)' BY <2>2, <1>1 DEF ExpiryInv, NoticesTimely
  <2>4. QED BY <2>1, <2>3
<1>5. QED BY <1>2, <1>3, <1>4 DEF ExpiryInv

(* A sweep's row changes. *)
LEMMA SweepMoves ==
    ASSUME ExpiryInv, NEW w \in Sweeps, NEW j \in SweepRow, sweep' = [sweep EXCEPT ![w] = j]
    PROVE  /\ sweep' \in [Sweeps -> SweepRow] /\ sweep'[w] = j
           /\ \A v \in Sweeps : v # w => sweep'[v] = sweep[v]
BY DEF ExpiryInv, ExpiryTyped

(* A sweep begins: what it finds that another one has in hand may be repeated. *)
LEMMA BeginSweepKeeps ==
    ASSUME ExpiryInv, NEW w \in Sweeps, BeginSweep(w)
    PROVE  ExpiryInv'
<1>a. ExpiryTyped BY DEF ExpiryInv
<1>1. PICK E : E = {c \in Certificates : /\ certificate[c].status = "active"
                                         /\ certificate[c].expiry <= today}
  OBVIOUS
<1>2. PICK j : j = [date |-> today, window |-> 1, left |-> E, marked |-> {}] OBVIOUS
<1>3. /\ sweep[w] = NoSweep /\ sweep' = [sweep EXCEPT ![w] = j]
      /\ sweeps' = sweeps + 1 /\ sweeps < MaxSweeps
      /\ repeated' = repeated \cup (E \cap UNION {sweep[v].left \cup sweep[v].marked : v \in Sweeps})
      /\ UNCHANGED <<today, certificate, announced>>
  <2>1. sweep' = [sweep EXCEPT ![w] = j] BY <1>1, <1>2 DEF BeginSweep
  <2>2. repeated' = repeated \cup (E \cap UNION {sweep[v].left \cup sweep[v].marked : v \in Sweeps})
    BY <1>1 DEF BeginSweep
  <2>3. QED BY <2>1, <2>2 DEF BeginSweep
<1>4. j \in SweepRow BY <1>1, <1>2, <1>a DEF SweepRow, ExpiryTyped
<1>5. /\ sweep' \in [Sweeps -> SweepRow] /\ sweep'[w] = j
      /\ \A v \in Sweeps : v # w => sweep'[v] = sweep[v]
  BY <1>3, <1>4, SweepMoves
<1>6. ExpiryTyped'
  <2>1. sweeps' \in 0..MaxSweeps BY <1>3, <1>a, ExpiryAssumption DEF ExpiryTyped
  <2>2. repeated' \subseteq Certificates BY <1>1, <1>3, <1>a DEF ExpiryTyped
  <2>3. QED BY <2>1, <2>2, <1>3, <1>5, <1>a DEF ExpiryTyped
<1>7. ASSUME NEW v \in Sweeps PROVE SweepFits(v)'
  <2>1. CASE v # w BY <2>1, <1>3, <1>5 DEF ExpiryInv, SweepFits
  <2>2. CASE v = w
    <3>1. today \in Int BY <1>a, ExpiryAssumption DEF ExpiryTyped
    <3>2. QED BY <2>2, <3>1, <1>1, <1>2, <1>3, <1>5 DEF SweepFits
  <2>3. QED BY <2>1, <2>2
<1>8. ASSUME NEW c \in Certificates PROVE NoticesTimely(c)'
  BY <1>3 DEF ExpiryInv, NoticesTimely
<1>9. ASSUME NEW c \in Certificates PROVE OnceAnnounced(c)'
  <2>1. SUFFICES ASSUME c \notin repeated' PROVE
                 /\ announced[c][1] <= 1
                 /\ announced[c][1] = 1 =>
                       certificate[c].status = "expired" \/ \E v \in Sweeps : c \in sweep'[v].marked
                 /\ \A v \in Sweeps : Begins(v, c)' =>
                       announced[c][1] = 0 /\ \A u \in Sweeps : Begins(u, c)' => u = v
    BY <1>3 DEF OnceAnnounced
  <2>2. c \notin repeated BY <2>1, <1>3
  <2>3. /\ announced[c][1] <= 1
        /\ announced[c][1] = 1 =>
              certificate[c].status = "expired" \/ \E v \in Sweeps : c \in sweep[v].marked
        /\ \A v \in Sweeps : Begins(v, c) =>
              announced[c][1] = 0 /\ \A u \in Sweeps : Begins(u, c) => u = v
    BY <2>2 DEF ExpiryInv, OnceAnnounced
  <2>4. announced[c][1] = 1 =>
              certificate[c].status = "expired" \/ \E v \in Sweeps : c \in sweep'[v].marked
    <3>1. \A v \in Sweeps : c \in sweep[v].marked => v # w BY <1>3 DEF NoSweep
    <3>2. QED BY <2>3, <3>1, <1>5
  <2>5. c \in E => \A v \in Sweeps : c \notin sweep[v].left /\ c \notin sweep[v].marked
    BY <2>1, <1>3
  <2>6. announced[c][1] \in Nat BY <1>a, WindowDays DEF ExpiryTyped
  <2>7. c \in E => announced[c][1] = 0 BY <2>3, <2>5, <2>6, <1>1
  <2>8. \A v \in Sweeps : v # w => (Begins(v, c)' <=> Begins(v, c)) BY <1>5 DEF Begins
  <2>9. Begins(w, c)' <=> c \in E BY <1>2, <1>5 DEF Begins
  <2>10. \A v \in Sweeps : Begins(v, c)' =>
            announced[c][1] = 0 /\ \A u \in Sweeps : Begins(u, c)' => u = v
    <3>1. CASE c \in E
      <4>1. \A v \in Sweeps : ~Begins(v, c) BY <3>1, <2>5 DEF Begins
      <4>2. QED BY <3>1, <4>1, <2>7, <2>8
    <3>2. CASE c \notin E BY <3>2, <2>3, <2>8, <2>9
    <3>3. QED BY <3>1, <3>2
  <2>11. QED BY <2>3, <2>4, <2>10
<1>10. QED BY <1>6, <1>7, <1>8, <1>9 DEF ExpiryInv

LEMMA NextWindowKeeps ==
    ASSUME ExpiryInv, NEW w \in Sweeps, NextWindow(w)
    PROVE  ExpiryInv'
<1>a. ExpiryTyped BY DEF ExpiryInv
<1>1. PICK r \in SweepRow : r = sweep[w] BY <1>a DEF ExpiryTyped
<1>2. PICK n \in 2..3 : n = r.window + 1 BY <1>1 DEF NextWindow
<1>3. PICK D : D = Due(w, n) OBVIOUS
<1>4. PICK j : j = [r EXCEPT !.window = n, !.left = D] OBVIOUS
<1>5. D \in SUBSET Certificates BY <1>3 DEF Due
<1>6. j \in SweepRow /\ j.window = n /\ j.left = D /\ j.marked = r.marked /\ j.date = r.date
  <2>1. PICK k : k = [r EXCEPT !.window = n] OBVIOUS
  <2>2. k \in SweepRow /\ k.window = n /\ k.marked = r.marked /\ k.date = r.date
    BY <1>2, <2>1 DEF SweepRow
  <2>3. j = [k EXCEPT !.left = D] BY <1>4, <2>1 DEF SweepRow
  <2>4. QED BY <1>5, <2>2, <2>3 DEF SweepRow
<1>7. /\ sweep' = [sweep EXCEPT ![w] = j] /\ r.window \in 1..2 /\ r.left = {}
      /\ UNCHANGED <<today, certificate, sweeps, announced, repeated>>
  BY <1>1, <1>2, <1>3, <1>4, <1>a DEF NextWindow, ExpiryTyped
<1>8. /\ sweep' \in [Sweeps -> SweepRow] /\ sweep'[w] = j
      /\ \A v \in Sweeps : v # w => sweep'[v] = sweep[v]
  BY <1>6, <1>7, SweepMoves
<1>9. ExpiryTyped' BY <1>7, <1>8, <1>a DEF ExpiryTyped
<1>10. \A c \in D : certificate[c].status = "active" /\ certificate[c].expiry = r.date + Windows[n]
  BY <1>1, <1>3 DEF Due
<1>11. ASSUME NEW v \in Sweeps PROVE SweepFits(v)'
  <2>1. SweepFits(v) BY DEF ExpiryInv
  <2>2. CASE v # w BY <2>1, <2>2, <1>7, <1>8 DEF SweepFits
  <2>3. CASE v = w
    <3>1. n \in 1..3 /\ n # 1 BY <1>2
    <3>2. QED BY <2>1, <2>3, <3>1, <1>1, <1>6, <1>7, <1>8, <1>10 DEF SweepFits
  <2>4. QED BY <2>2, <2>3
<1>12. ASSUME NEW c \in Certificates PROVE OnceAnnounced(c)' /\ NoticesTimely(c)'
  <2>1. NoticesTimely(c)' BY <1>7 DEF ExpiryInv, NoticesTimely
  <2>2. OnceAnnounced(c) BY DEF ExpiryInv
  <2>3. \A v \in Sweeps : sweep'[v].marked = sweep[v].marked BY <1>1, <1>6, <1>8
  <2>4. \A v \in Sweeps : Begins(v, c)' => Begins(v, c)
    <3>1. n # 1 BY <1>2
    <3>2. QED BY <3>1, <1>6, <1>8 DEF Begins
  <2>5. OnceAnnounced(c)' BY <2>2, <2>3, <2>4, <1>7 DEF OnceAnnounced
  <2>6. QED BY <2>1, <2>5
<1>13. QED BY <1>9, <1>11, <1>12 DEF ExpiryInv

(* An alert of window n goes out for c. *)
LEMMA AnnounceKeeps ==
    ASSUME ExpiryInv, NEW w \in Sweeps, NEW c \in Certificates, Announce(w, c)
    PROVE  ExpiryInv'
<1>a. ExpiryTyped BY DEF ExpiryInv
<1>1. PICK r \in SweepRow : r = sweep[w] BY <1>a DEF ExpiryTyped
<1>f. SweepFits(w) /\ OnceAnnounced(c) /\ NoticesTimely(c) BY DEF ExpiryInv
<1>2. c \in r.left /\ r.window \in 1..3 BY <1>1, <1>f DEF Announce, SweepFits
<1>3. PICK n \in 1..3 : n = r.window BY <1>2
<1>4. PICK M \in SUBSET Certificates : M = IF n = 1 THEN r.marked \cup {c} ELSE r.marked
  BY <1>1 DEF SweepRow
<1>5. PICK L \in SUBSET Certificates : L = r.left \ {c} BY <1>1 DEF SweepRow
<1>6. PICK j : j = [r EXCEPT !.left = L, !.marked = M] OBVIOUS
<1>7. j \in SweepRow /\ j.window = n /\ j.left = L /\ j.marked = M /\ j.date = r.date
  <2>1. PICK k : k = [r EXCEPT !.left = L] OBVIOUS
  <2>2. k \in SweepRow /\ k.window = n /\ k.left = L /\ k.date = r.date
    BY <1>3, <1>5, <2>1 DEF SweepRow
  <2>3. j = [k EXCEPT !.marked = M] BY <1>6, <2>1 DEF SweepRow
  <2>4. QED BY <1>4, <2>2, <2>3 DEF SweepRow
<1>8. /\ sweep' = [sweep EXCEPT ![w] = j]
      /\ announced' = [announced EXCEPT ![c][n] = @ + 1]
      /\ UNCHANGED <<today, certificate, sweeps, repeated>>
  BY <1>1, <1>3, <1>4, <1>5, <1>6, <1>a DEF Announce, Mark, ExpiryTyped
<1>9. /\ sweep' \in [Sweeps -> SweepRow] /\ sweep'[w] = j
      /\ \A v \in Sweeps : v # w => sweep'[v] = sweep[v]
  BY <1>7, <1>8, SweepMoves
<1>10. PICK said : said = announced[c] OBVIOUS
<1>11. said \in [Window -> Nat] /\ n \in Window /\ 1 \in Window
  BY <1>10, <1>a, WindowDays DEF ExpiryTyped
<1>12. PICK more : more = [said EXCEPT ![n] = @ + 1] OBVIOUS
<1>13. more \in [Window -> Nat] /\ more[n] = said[n] + 1 /\ \A m \in Window : m # n => more[m] = said[m]
  BY <1>11, <1>12
<1>14. announced' = [announced EXCEPT ![c] = more] BY <1>8, <1>10, <1>12
<1>15. /\ announced' \in [Certificates -> [Window -> Nat]] /\ announced'[c] = more
       /\ \A d \in Certificates : d # c => announced'[d] = announced[d]
  BY <1>13, <1>14, <1>a DEF ExpiryTyped
<1>16. ExpiryTyped' BY <1>8, <1>9, <1>15, <1>a DEF ExpiryTyped
<1>n. certificate[c].status # "none" BY <1>1, <1>2, <1>f DEF SweepFits
<1>17. \A d \in Certificates : announced[d][1] > 0 => announced'[d][1] > 0
  <2>1. said[1] > 0 => more[1] > 0 BY <1>11, <1>13
  <2>2. QED BY <2>1, <1>10, <1>15
<1>18. ASSUME NEW v \in Sweeps PROVE SweepFits(v)'
  <2>1. SweepFits(v) BY DEF ExpiryInv
  <2>m. sweep[v].marked \subseteq Certificates BY <1>a DEF ExpiryTyped, SweepRow
  <2>2. CASE v # w
    <3>1. \A d \in sweep[v].marked : announced'[d][1] > 0 BY <2>1, <2>m, <1>17 DEF SweepFits
    <3>2. QED BY <2>1, <2>2, <3>1, <1>8, <1>9 DEF SweepFits
  <2>3. CASE v = w
    <3>1. \A d \in M : announced'[d][1] > 0
      <4>1. \A d \in r.marked : announced'[d][1] > 0
        BY <2>1, <2>3, <2>m, <1>1, <1>17 DEF SweepFits
      <4>2. n = 1 => announced'[c][1] > 0 BY <1>11, <1>13, <1>15
      <4>3. QED BY <4>1, <4>2, <1>4
    <3>2. \A d \in L \cup M : certificate[d].status # "none"
      BY <2>1, <2>3, <1>1, <1>4, <1>5, <1>n DEF SweepFits
    <3>3. n # 1 => \A d \in L : certificate[d].expiry = r.date + Windows[n]
      BY <2>1, <2>3, <1>1, <1>3, <1>5 DEF SweepFits
    <3>4. r.date <= today BY <2>1, <2>3, <1>1 DEF SweepFits
    <3>5. QED BY <2>3, <3>1, <3>2, <3>3, <3>4, <1>3, <1>7, <1>8, <1>9 DEF SweepFits
  <2>4. QED BY <2>2, <2>3
<1>19. ASSUME NEW d \in Certificates, d # c PROVE OnceAnnounced(d)' /\ NoticesTimely(d)'
  <2>1. OnceAnnounced(d) /\ NoticesTimely(d) BY DEF ExpiryInv
  <2>2. NoticesTimely(d)' BY <2>1, <1>8, <1>15, <1>19 DEF NoticesTimely
  <2>3. \A v \in Sweeps : d \in sweep'[v].marked <=> d \in sweep[v].marked
    BY <1>1, <1>4, <1>7, <1>9, <1>19
  <2>4. \A v \in Sweeps : Begins(v, d)' <=> Begins(v, d)
    BY <1>1, <1>3, <1>5, <1>7, <1>9, <1>19 DEF Begins
  <2>5. OnceAnnounced(d)' BY <2>1, <2>3, <2>4, <1>8, <1>15, <1>19 DEF OnceAnnounced
  <2>6. QED BY <2>2, <2>5
<1>20. NoticesTimely(c)'
  <2>1. certificate[c].status = "expired" => announced'[c][1] > 0
    BY <1>17, <1>f DEF NoticesTimely
  <2>2. ASSUME NEW m \in Window \ {1}, more[m] > 0
        PROVE  certificate[c].expiry \in Windows[m]..today + Windows[m]
    <3>1. CASE m = n
      <4>1. certificate[c].expiry = r.date + Windows[m]
        BY <2>2, <3>1, <1>1, <1>2, <1>3, <1>f DEF SweepFits
      <4>2. r.date \in Nat /\ today \in Nat /\ r.date <= today /\ Windows[m] \in Nat
        BY <1>1, <1>a, <1>f, WindowDays DEF SweepRow, ExpiryTyped, SweepFits
      <4>3. QED BY <4>1, <4>2
    <3>2. CASE m # n BY <2>2, <3>2, <1>10, <1>13, <1>f DEF NoticesTimely
    <3>3. QED BY <3>1, <3>2
  <2>3. QED BY <2>1, <2>2, <1>8, <1>15, <1>n DEF NoticesTimely
<1>21. OnceAnnounced(c)'
  <2>1. SUFFICES ASSUME c \notin repeated
                 PROVE  /\ more[1] <= 1
                        /\ more[1] = 1 => \/ certificate[c].status = "expired"
                                          \/ \E v \in Sweeps : c \in sweep'[v].marked
                        /\ \A v \in Sweeps : Begins(v, c)' =>
                              more[1] = 0 /\ \A u \in Sweeps : Begins(u, c)' => u = v
    BY <1>8, <1>15 DEF OnceAnnounced
  <2>2. /\ said[1] <= 1
        /\ said[1] = 1 =>
              certificate[c].status = "expired" \/ \E v \in Sweeps : c \in sweep[v].marked
        /\ \A v \in Sweeps : Begins(v, c) =>
              said[1] = 0 /\ \A u \in Sweeps : Begins(u, c) => u = v
    BY <2>1, <1>10, <1>f DEF OnceAnnounced
  <2>3. \A v \in Sweeps : Begins(v, c)' => v # w /\ Begins(v, c)
    BY <1>5, <1>7, <1>9 DEF Begins
  <2>4. CASE n = 1
    <3>1. Begins(w, c) BY <2>4, <1>1, <1>2, <1>3 DEF Begins
    <3>2. said[1] = 0 /\ more[1] = 1 BY <2>2, <2>4, <3>1, <1>11, <1>13
    <3>3. \A v \in Sweeps : ~Begins(v, c)' BY <2>2, <2>3, <3>1
    <3>4. c \in sweep'[w].marked BY <2>4, <1>4, <1>7, <1>9
    <3>5. QED BY <3>2, <3>3, <3>4
  <2>5. CASE n # 1
    <3>1. more[1] = said[1] BY <2>5, <1>11, <1>13
    <3>2. \A v \in Sweeps : sweep'[v].marked = sweep[v].marked
      BY <2>5, <1>1, <1>4, <1>7, <1>9
    <3>3. QED BY <2>2, <2>3, <3>1, <3>2
  <2>6. QED BY <2>4, <2>5
<1>22. QED BY <1>16, <1>18, <1>19, <1>20, <1>21 DEF ExpiryInv

(* A sweep ends, having committed what it marked or left it to be announced again. *)
LEMMA SweepEndKeeps ==
    ASSUME ExpiryInv, NEW w \in Sweeps, CommitSweep(w) \/ LoseSweep(w)
    PROVE  ExpiryInv'
<1>a. ExpiryTyped BY DEF ExpiryInv
<1>1. PICK j : j = NoSweep OBVIOUS
<1>2. j \in SweepRow /\ j.left = {} /\ j.marked = {} /\ j.window = 0 /\ j.date = 0
  BY <1>1, ExpiryAssumption DEF NoSweep, SweepRow
<1>3. sweep' = [sweep EXCEPT ![w] = j] /\ UNCHANGED <<today, sweeps, announced>>
  BY <1>1 DEF CommitSweep, LoseSweep
<1>4. /\ sweep' \in [Sweeps -> SweepRow] /\ sweep'[w] = j
      /\ \A v \in Sweeps : v # w => sweep'[v] = sweep[v]
  BY <1>2, <1>3, SweepMoves
<1>5. PICK M \in SUBSET Certificates : M = sweep[w].marked BY <1>a DEF ExpiryTyped, SweepRow
<1>m. \A c \in M : announced[c][1] > 0 /\ certificate[c].status # "none"
  BY <1>5 DEF ExpiryInv, SweepFits
<1>6. ASSUME NEW c \in Certificates
      PROVE  /\ certificate'[c] \in [expiry : 0..LastDay + LongNotice,
                                     status : {"none", "active", "expired"}]
             /\ certificate'[c].expiry = certificate[c].expiry
             /\ \/ certificate'[c].status = certificate[c].status
                \/ c \in M /\ certificate'[c].status = "expired"
             /\ c \in M => certificate'[c].status = "expired" \/ c \in repeated'
  <2>1. PICK row : row = certificate[c] OBVIOUS
  <2>2. row \in [expiry : 0..LastDay + LongNotice, status : {"none", "active", "expired"}]
    BY <2>1, <1>a DEF ExpiryTyped
  <2>3. CASE LoseSweep(w) BY <2>1, <2>2, <2>3, <1>5 DEF LoseSweep
  <2>4. CASE CommitSweep(w)
    <3>1. certificate'[c] = IF c \in M THEN [row EXCEPT !.status = "expired"] ELSE row
      BY <2>1, <2>4, <1>5 DEF CommitSweep
    <3>2. QED BY <2>1, <2>2, <3>1
  <2>5. QED BY <2>3, <2>4
<1>7. repeated \subseteq repeated' /\ repeated' \subseteq Certificates
  BY <1>5, <1>a DEF CommitSweep, LoseSweep, ExpiryTyped
<1>8. ExpiryTyped'
  <2>1. certificate' = [c \in Certificates |-> certificate'[c]]
    BY <1>a DEF CommitSweep, LoseSweep, ExpiryTyped
  <2>2. certificate' \in [Certificates -> [expiry : 0..LastDay + LongNotice,
                                           status : {"none", "active", "expired"}]]
    BY <2>1, <1>6
  <2>3. QED BY <2>2, <1>3, <1>4, <1>7, <1>a DEF ExpiryTyped
<1>9. ASSUME NEW v \in Sweeps PROVE SweepFits(v)'
  <2>1. CASE v # w
    <3>1. SweepFits(v) BY DEF ExpiryInv
    <3>2. sweep[v].left \subseteq Certificates /\ sweep[v].marked \subseteq Certificates
      BY <1>a DEF ExpiryTyped, SweepRow
    <3>3. \A c \in sweep[v].left \cup sweep[v].marked : certificate'[c].status # "none"
      BY <3>1, <3>2, <1>6 DEF SweepFits
    <3>4. sweep[v].window # 1 => \A c \in sweep[v].left :
             certificate'[c].expiry = sweep[v].date + Windows[sweep[v].window]
      BY <3>1, <3>2, <1>6 DEF SweepFits
    <3>5. QED BY <2>1, <3>1, <3>3, <3>4, <1>3, <1>4 DEF SweepFits
  <2>2. CASE v = w
    <3>1. 0 <= today BY <1>a DEF ExpiryTyped
    <3>2. QED BY <2>2, <3>1, <1>2, <1>3, <1>4 DEF SweepFits
  <2>3. QED BY <2>1, <2>2
<1>10. ASSUME NEW c \in Certificates PROVE OnceAnnounced(c)' /\ NoticesTimely(c)'
  <2>1. OnceAnnounced(c) /\ NoticesTimely(c) BY DEF ExpiryInv
  <2>2. NoticesTimely(c)'
    <3>1. certificate'[c].status = "expired" => announced[c][1] > 0
      BY <2>1, <1>6, <1>m DEF NoticesTimely
    <3>2. \A n \in Window : announced[c][n] > 0 => certificate'[c].status # "none"
      BY <2>1, <1>6 DEF NoticesTimely
    <3>3. QED BY <2>1, <3>1, <3>2, <1>3, <1>6 DEF NoticesTimely
  <2>3. \A v \in Sweeps : Begins(v, c)' => Begins(v, c)
    BY <1>2, <1>4 DEF Begins
  <2>4. ASSUME c \notin repeated', announced[c][1] = 1
        PROVE  certificate'[c].status = "expired" \/ \E v \in Sweeps : c \in sweep'[v].marked
    <3>1. certificate[c].status = "expired" \/ \E v \in Sweeps : c \in sweep[v].marked
      BY <2>1, <2>4, <1>7 DEF OnceAnnounced
    <3>2. CASE c \in M BY <3>2, <2>4, <1>6
    <3>3. CASE c \notin M
      <4>1. certificate[c].status = "expired" => certificate'[c].status = "expired"
        BY <3>3, <1>6
      <4>2. \A v \in Sweeps : c \in sweep[v].marked => c \in sweep'[v].marked
        BY <3>3, <1>4, <1>5
      <4>3. QED BY <3>1, <4>1, <4>2
    <3>4. QED BY <3>2, <3>3
  <2>5. OnceAnnounced(c)' BY <2>1, <2>3, <2>4, <1>3, <1>7 DEF OnceAnnounced
  <2>6. QED BY <2>2, <2>5
<1>11. QED BY <1>8, <1>9, <1>10 DEF ExpiryInv

LEMMA ExpiryStep == ExpiryInv /\ [ExpiryNext]_expiryVars => ExpiryInv'
<1> SUFFICES ASSUME ExpiryInv, [ExpiryNext]_expiryVars PROVE ExpiryInv' OBVIOUS
<1>1. CASE UNCHANGED expiryVars
  <2>1. ExpiryTyped' BY <1>1 DEF expiryVars, ExpiryInv, ExpiryTyped
  <2>2. \A w \in Sweeps : SweepFits(w)' BY <1>1 DEF expiryVars, ExpiryInv, SweepFits
  <2>3. \A c \in Certificates : OnceAnnounced(c)' /\ NoticesTimely(c)'
    BY <1>1 DEF expiryVars, ExpiryInv, OnceAnnounced, NoticesTimely, Begins
  <2>4. QED BY <2>1, <2>2, <2>3 DEF ExpiryInv
<1>2. ASSUME NEW c \in Certificates, NEW e \in 0..LastDay + LongNotice, Certify(c, e)
      PROVE  ExpiryInv'
  BY <1>2, CertifyKeeps
<1>3. QED
  BY <1>1, <1>2, MidnightKeeps, BeginSweepKeeps, NextWindowKeeps, AnnounceKeeps, SweepEndKeeps
     DEF ExpiryNext

-----------------------------------------------------------------------------
(* Scorecards.  Every row is one that a path computes from measures, and the rows
   of the worker, with the one it is still to insert, were each delivered. *)

IsCard(r) ==
    \/ \E m \in Measures : r = ServiceCard(m)
    \/ \E d \in Deliveries, n \in Quantities : n[1] = 0 /\ r = WorkerCard(d, n)

CardRow == [by : {"service", "worker"},
            measures : [deliveries : Nat \X Nat, quantities : Int \X Int \X Int,
                        invoices : Int \X Int],
            overall : Scores, grade : {"A", "B", "C", "D"}]

OfWorker == {i \in DOMAIN card : card[i].by = "worker"}

Pending == IF job.stage \in {"queued", "computed"} THEN 1 ELSE 0

CardsInv ==
    /\ card \in Seq(CardRow) /\ Len(card) <= MaxCards
    /\ \A i \in DOMAIN card : IsCard(card[i])
    /\ \/ job.stage = "computed" /\ \E r \in CardRow : /\ r.by = "worker" /\ IsCard(r)
                                                       /\ job.row = <<r>>
       \/ job.stage \in {"none", "queued", "committed", "done"}
    /\ redelivered \in 0..MaxRedeliveries
    /\ Cardinality(OfWorker) + Pending <= 1 + redelivered

LEMMA RateNumber == ASSUME NEW n \in Int, NEW d \in Int PROVE SafeRate(n, d) \in Int
<1>1. ASSUME NEW m \in Int, NEW e \in Int, e > 0 PROVE Rounded(m, e) \in Int
  <2>1. 2 * 10000 * m + e \in Int /\ 2 * e \in Nat \ {0} BY <1>1
  <2>2. QED BY <2>1 DEF Rounded
<1>2. CASE d = 0 BY <1>2 DEF SafeRate
<1>3. CASE d > 0 BY <1>1, <1>3 DEF SafeRate
<1>4. CASE d < 0
  <2>1. -n \in Int /\ -d \in Int /\ -d > 0 /\ ~(d > 0) /\ d # 0 BY <1>4
  <2>2. QED BY <1>1, <2>1 DEF SafeRate
<1>5. QED BY <1>2, <1>3, <1>4

(* The weights: what is no worse in any rate has no lower score. *)
LEMMA OverallOrdered ==
    ASSUME NEW o \in Int, NEW f \in Int, NEW d \in Int, NEW a \in Int,
           NEW p \in Int, NEW g \in Int, NEW e \in Int, NEW b \in Int,
           o >= p, f >= g, d <= e, a >= b
    PROVE  Overall(o, f, d, a) >= Overall(p, g, e, b)
<1>1. PICK x \in Int : x = 35 * o + 25 * f + 25 * (10000 - d) + 15 * a + 50 OBVIOUS
<1>2. PICK y \in Int : y = 35 * p + 25 * g + 25 * (10000 - e) + 15 * b + 50 OBVIOUS
<1>3. x >= y BY <1>1, <1>2
<1>4. x \div 100 \in Int /\ y \div 100 \in Int /\ x \div 100 >= y \div 100 BY <1>3
<1>5. Overall(o, f, d, a) = Bound(x \div 100) /\ Overall(p, g, e, b) = Bound(y \div 100)
  BY <1>1, <1>2 DEF Overall
<1>6. QED BY <1>4, <1>5 DEF Bound

LEMMA OverallBounded ==
    ASSUME NEW o \in Int, NEW f \in Int, NEW d \in Int, NEW a \in Int
    PROVE  Overall(o, f, d, a) \in Scores
<1>1. PICK x \in Int : x = 35 * o + 25 * f + 25 * (10000 - d) + 15 * a + 50 OBVIOUS
<1>2. x \div 100 \in Int BY <1>1
<1>3. Overall(o, f, d, a) = Bound(x \div 100) BY <1>1 DEF Overall
<1>4. QED BY <1>2, <1>3 DEF Bound, Scores

LEMMA RatesNumbers ==
    ASSUME NEW m \in [deliveries : Nat \X Nat, quantities : Int \X Int \X Int,
                      invoices : Int \X Int]
    PROVE  OnTime(m) \in Int /\ Filled(m) \in Int /\ Defects(m) \in Int /\ Accuracy(m) \in Int
<1>1. /\ m.deliveries[1] \in Int /\ m.deliveries[2] \in Int
      /\ m.quantities[1] \in Int /\ m.quantities[2] \in Int /\ m.quantities[3] \in Int
      /\ m.invoices[1] \in Int /\ m.invoices[2] \in Int
  OBVIOUS
<1>2. QED BY <1>1, RateNumber DEF OnTime, Filled, Defects, Accuracy

LEMMA RatedInRange ==
    ASSUME NEW m \in [deliveries : Nat \X Nat, quantities : Int \X Int \X Int,
                      invoices : Int \X Int],
           NEW a \in Int
    PROVE  Overall(OnTime(m), Filled(m), Defects(m), a) \in Scores
<1>1. PICK o \in Int : o = OnTime(m) BY RatesNumbers
<1>2. PICK f \in Int : f = Filled(m) BY RatesNumbers
<1>3. PICK d \in Int : d = Defects(m) BY RatesNumbers
<1>4. Overall(o, f, d, a) \in Scores BY OverallBounded
<1>5. QED BY <1>1, <1>2, <1>3, <1>4

LEMMA CardsTyped ==
    ASSUME NEW m \in [deliveries : Nat \X Nat, quantities : Int \X Int \X Int,
                      invoices : Int \X Int],
           NEW by \in {"service", "worker"}, NEW a \in Int
    PROVE  Card(by, m, a) \in CardRow
<1>1. PICK o \in Scores : o = Overall(OnTime(m), Filled(m), Defects(m), a)
  BY RatedInRange
<1>2. Card(by, m, a) = [by |-> by, measures |-> m, overall |-> o, grade |-> Grade(o)]
  BY <1>1 DEF Card
<1>3. Grade(o) \in {"A", "B", "C", "D"} BY DEF Grade
<1>4. QED BY <1>2, <1>3 DEF CardRow

LEMMA ServiceTyped == ASSUME NEW m \in Measures PROVE ServiceCard(m) \in CardRow
<1>1. m \in [deliveries : Nat \X Nat, quantities : Int \X Int \X Int, invoices : Int \X Int]
  BY ScorecardAssumption DEF Measures
<1>2. QED BY <1>1, CardsTyped, RatesNumbers DEF ServiceCard

LEMMA WorkerTyped ==
    ASSUME NEW d \in Deliveries, NEW n \in Quantities
    PROVE  WorkerCard(d, n) \in CardRow /\ WorkerCard(d, n).by = "worker"
<1>1. PICK m : m = [deliveries |-> d, quantities |-> n, invoices |-> <<0, 0>>] OBVIOUS
<1>2. m \in [deliveries : Nat \X Nat, quantities : Int \X Int \X Int, invoices : Int \X Int]
  BY <1>1, ScorecardAssumption
<1>3. WorkerCard(d, n) = Card("worker", m, 10000) BY <1>1 DEF WorkerCard
<1>4. QED BY <1>2, <1>3, CardsTyped DEF Card

(* Both paths score by the same weights; only the accuracy differs. *)
LEMMA CardScored ==
    ASSUME NEW r \in CardRow, IsCard(r)
    PROVE  \E a \in Int :
              /\ a = IF r.by = "service" THEN Accuracy(r.measures) ELSE 10000
              /\ r.overall = Overall(OnTime(r.measures), Filled(r.measures), Defects(r.measures), a)
              /\ r.grade = Grade(r.overall)
<1>1. Accuracy(r.measures) \in Int BY RatesNumbers DEF CardRow
<1>2. CASE \E m \in Measures : r = ServiceCard(m)
  <2>1. PICK m \in Measures : r = ServiceCard(m) BY <1>2
  <2>2. /\ r.by = "service" /\ r.measures = m /\ r.grade = Grade(r.overall)
        /\ r.overall = Overall(OnTime(m), Filled(m), Defects(m), Accuracy(m))
    BY <2>1 DEF ServiceCard, Card
  <2>3. QED BY <1>1, <2>2
<1>3. CASE \E d \in Deliveries, n \in Quantities : r = WorkerCard(d, n)
  <2>1. PICK d \in Deliveries, n \in Quantities : r = WorkerCard(d, n) BY <1>3
  <2>2. PICK m : m = [deliveries |-> d, quantities |-> n, invoices |-> <<0, 0>>] OBVIOUS
  <2>3. /\ r.by = "worker" /\ r.measures = m /\ r.grade = Grade(r.overall)
        /\ r.overall = Overall(OnTime(m), Filled(m), Defects(m), 10000)
    BY <2>1, <2>2 DEF WorkerCard, Card
  <2>4. QED BY <2>3
<1>4. QED BY <1>2, <1>3 DEF IsCard

LEMMA CardsFair == CardsInv => ScorecardsFair
<1> SUFFICES ASSUME CardsInv PROVE ScorecardsFair OBVIOUS
<1>1. ASSUME NEW i \in DOMAIN card, NEW j \in DOMAIN card, card[i].by = card[j].by,
             AtLeast(card[i].measures, card[j].measures)
      PROVE  /\ card[i].overall >= card[j].overall
             /\ card[i].grade = "D" => card[j].grade = "D"
             /\ card[j].grade = "A" => card[i].grade = "A"
  <2>1. PICK r \in CardRow : r = card[i] /\ IsCard(r) BY DEF CardsInv
  <2>2. PICK s \in CardRow : s = card[j] /\ IsCard(s) BY DEF CardsInv
  <2>3. PICK m \in [deliveries : Nat \X Nat, quantities : Int \X Int \X Int,
                    invoices : Int \X Int] : m = r.measures
    BY DEF CardRow
  <2>4. PICK n \in [deliveries : Nat \X Nat, quantities : Int \X Int \X Int,
                    invoices : Int \X Int] : n = s.measures
    BY DEF CardRow
  <2>5. PICK a \in Int :
              /\ a = IF r.by = "service" THEN Accuracy(m) ELSE 10000
              /\ r.overall = Overall(OnTime(m), Filled(m), Defects(m), a)
              /\ r.grade = Grade(r.overall)
    BY <2>1, <2>3, CardScored
  <2>6. PICK b \in Int :
              /\ b = IF s.by = "service" THEN Accuracy(n) ELSE 10000
              /\ s.overall = Overall(OnTime(n), Filled(n), Defects(n), b)
              /\ s.grade = Grade(s.overall)
    BY <2>2, <2>4, CardScored
  <2>7. /\ OnTime(m) \in Int /\ Filled(m) \in Int /\ Defects(m) \in Int /\ Accuracy(m) \in Int
    BY RatesNumbers
  <2>8. /\ OnTime(n) \in Int /\ Filled(n) \in Int /\ Defects(n) \in Int /\ Accuracy(n) \in Int
    BY RatesNumbers
  <2>9. /\ OnTime(m) >= OnTime(n) /\ Filled(m) >= Filled(n)
        /\ Defects(m) <= Defects(n) /\ Accuracy(m) >= Accuracy(n)
    BY <1>1, <2>1, <2>2, <2>3, <2>4 DEF AtLeast
  <2>10. a >= b BY <1>1, <2>1, <2>2, <2>5, <2>6, <2>7, <2>8, <2>9
  <2>11. r.overall >= s.overall
    <3>1. ASSUME NEW o \in Int, NEW f \in Int, NEW d \in Int,
                 NEW p \in Int, NEW g \in Int, NEW e \in Int,
                 o = OnTime(m), f = Filled(m), d = Defects(m),
                 p = OnTime(n), g = Filled(n), e = Defects(n)
          PROVE  r.overall >= s.overall
      <4>1. o >= p /\ f >= g /\ d <= e BY <3>1, <2>9
      <4>2. Overall(o, f, d, a) >= Overall(p, g, e, b) BY <4>1, <2>10, OverallOrdered
      <4>3. QED BY <4>2, <3>1, <2>5, <2>6
    <3>2. QED BY <3>1, <2>7, <2>8
  <2>12. r.overall \in Scores /\ s.overall \in Scores BY DEF CardRow
  <2>a. \A z \in Scores : z \in Int BY DEF Scores
  <2>13. PICK x \in Int : x = r.overall BY <2>12, <2>a
  <2>14. PICK y \in Int : y = s.overall BY <2>12, <2>a
  <2>15. r.grade = Grade(x) /\ s.grade = Grade(y) /\ x >= y
    BY <2>5, <2>6, <2>11, <2>13, <2>14
  <2>16. (Grade(x) = "D" => Grade(y) = "D") /\ (Grade(y) = "A" => Grade(x) = "A")
    BY <2>15 DEF Grade
  <2>17. QED BY <2>1, <2>2, <2>11, <2>15, <2>16
<1>2. Cardinality(OfWorker) <= 1 + redelivered
  <2>1. IsFiniteSet(OfWorker)
    <3>1. DOMAIN card = 1..Len(card) /\ Len(card) \in Nat BY DEF CardsInv
    <3>2. IsFiniteSet(DOMAIN card) BY <3>1, FS_Interval
    <3>3. QED BY <3>2, FS_Subset DEF OfWorker
  <2>2. Cardinality(OfWorker) \in Nat BY <2>1, FS_CardinalityType
  <2>3. redelivered \in Nat BY ScorecardAssumption DEF CardsInv
  <2>4. QED BY <2>2, <2>3 DEF CardsInv, Pending
<1>3. QED BY <1>1, <1>2 DEF ScorecardsFair, OfWorker

LEMMA CardsTypes == CardsInv => ScorecardsTypeOK
<1> SUFFICES ASSUME CardsInv PROVE ScorecardsTypeOK OBVIOUS
<1>1. ASSUME NEW i \in DOMAIN card
      PROVE  /\ card[i].by \in {"service", "worker"}
             /\ card[i].overall \in Scores /\ card[i].grade \in {"A", "B", "C", "D"}
  <2>1. card[i] \in CardRow BY DEF CardsInv
  <2>2. QED BY <2>1 DEF CardRow
<1>2. QED BY <1>1 DEF CardsInv, ScorecardsTypeOK

LEMMA InitCards == ScorecardsInit => CardsInv
<1> SUFFICES ASSUME ScorecardsInit PROVE CardsInv OBVIOUS
<1>1. card = <<>> /\ redelivered = 0 /\ job.stage = "queued" BY DEF ScorecardsInit, NoJob
<1>2. OfWorker = {} BY <1>1 DEF OfWorker
<1>3. Cardinality(OfWorker) = 0 BY <1>2, FS_EmptySet
<1>4. QED BY <1>1, <1>3, ScorecardAssumption DEF CardsInv, Pending

(* A row is appended: it counts if it is the worker's. *)
LEMMA CardAppended ==
    ASSUME CardsInv, NEW r \in CardRow, IsCard(r), card' = Append(card, r),
           Len(card) < MaxCards
    PROVE  /\ card' \in Seq(CardRow) /\ Len(card') <= MaxCards
           /\ \A i \in DOMAIN card' : IsCard(card'[i])
           /\ Cardinality(OfWorker) \in Nat /\ Cardinality(OfWorker') \in Nat
           /\ Cardinality(OfWorker') =
                 IF r.by = "worker" THEN Cardinality(OfWorker) + 1 ELSE Cardinality(OfWorker)
<1>1. PICK l \in Nat : l = Len(card) /\ DOMAIN card = 1..l BY DEF CardsInv
<1>a. card \in Seq(CardRow) BY DEF CardsInv
<1>2. /\ card' \in Seq(CardRow) /\ Len(card') = l + 1 /\ DOMAIN card' = 1..(l + 1)
      /\ card'[l + 1] = r /\ \A i \in 1..l : card'[i] = card[i]
  <2>1. card' \in Seq(CardRow) BY <1>a
  <2>2. Len(card') = l + 1 BY <1>a, <1>1
  <2>3. card'[l + 1] = r /\ \A i \in 1..l : card'[i] = card[i] BY <1>a, <1>1
  <2>4. QED BY <2>1, <2>2, <2>3
<1>3. \A i \in DOMAIN card' : i = l + 1 \/ i \in 1..l BY <1>1, <1>2
<1>4. \A i \in DOMAIN card' : IsCard(card'[i]) BY <1>1, <1>2, <1>3 DEF CardsInv
<1>5. PICK S : S = OfWorker OBVIOUS
<1>6. IsFiniteSet(S) /\ l + 1 \notin S
  <2>1. S \subseteq 1..l /\ IsFiniteSet(1..l) BY <1>1, <1>5, FS_Interval DEF OfWorker
  <2>2. l + 1 \notin 1..l BY <1>1
  <2>3. QED BY <2>1, <2>2, FS_Subset
<1>7. OfWorker' = IF r.by = "worker" THEN S \cup {l + 1} ELSE S
  <2>1. \A i : i \in OfWorker' <=> (i = l + 1 /\ r.by = "worker") \/ i \in S
    BY <1>1, <1>2, <1>3, <1>5 DEF OfWorker
  <2>2. QED BY <2>1
<1>8. Cardinality(S \cup {l + 1}) = Cardinality(S) + 1 /\ IsFiniteSet(S \cup {l + 1})
  BY <1>6, FS_AddElement
<1>9. Cardinality(S) \in Nat /\ Cardinality(S \cup {l + 1}) \in Nat
  BY <1>6, <1>8, FS_CardinalityType
<1>10. Len(card') <= MaxCards
  <2>1. MaxCards \in Nat BY ScorecardAssumption
  <2>2. QED BY <2>1, <1>1, <1>2
<1>11. PICK W : W = OfWorker' OBVIOUS
<1>12. /\ Cardinality(S) \in Nat /\ Cardinality(W) \in Nat
       /\ Cardinality(W) = IF r.by = "worker" THEN Cardinality(S) + 1 ELSE Cardinality(S)
  BY <1>7, <1>8, <1>9, <1>11
<1>13. QED BY <1>2, <1>4, <1>5, <1>10, <1>11, <1>12

LEMMA CardsStep == CardsInv /\ [ScorecardsNext]_cardVars => CardsInv'
<1> SUFFICES ASSUME CardsInv, [ScorecardsNext]_cardVars PROVE CardsInv' OBVIOUS
<1>a. redelivered \in Nat /\ MaxRedeliveries \in Nat /\ redelivered \in 0..MaxRedeliveries
  BY ScorecardAssumption DEF CardsInv
<1>b. IsFiniteSet(OfWorker) /\ Cardinality(OfWorker) \in Nat
  <2>1. DOMAIN card = 1..Len(card) /\ Len(card) \in Nat BY DEF CardsInv
  <2>2. IsFiniteSet(DOMAIN card) BY <2>1, FS_Interval
  <2>3. QED BY <2>2, FS_Subset, FS_CardinalityType DEF OfWorker
<1>c. UNCHANGED card => OfWorker' = OfWorker BY DEF OfWorker
<1>1. CASE UNCHANGED cardVars BY <1>1, <1>c DEF cardVars, CardsInv, Pending
<1>2. ASSUME NEW m \in Measures, CreateScorecard(m) PROVE CardsInv'
  <2>1. PICK r \in CardRow : r = ServiceCard(m) BY ServiceTyped
  <2>2. IsCard(r) /\ r.by = "service" BY <2>1 DEF IsCard, ServiceCard, Card
  <2>3. card' = Append(card, r) /\ Len(card) < MaxCards /\ UNCHANGED <<job, redelivered>>
    BY <1>2, <2>1 DEF CreateScorecard
  <2>4. /\ card' \in Seq(CardRow) /\ Len(card') <= MaxCards
        /\ \A i \in DOMAIN card' : IsCard(card'[i])
        /\ Cardinality(OfWorker') = Cardinality(OfWorker)
    BY <2>2, <2>3, CardAppended
  <2>5. QED BY <2>3, <2>4 DEF CardsInv, Pending
<1>3. ASSUME NEW d \in Deliveries, NEW n \in Quantities, Compute(d, n) PROVE CardsInv'
  <2>1. PICK r \in CardRow : r = WorkerCard(d, n) BY WorkerTyped
  <2>2. IsCard(r) /\ r.by = "worker" BY <1>3, <2>1, WorkerTyped DEF IsCard, Compute
  <2>3. \/ job'.stage = "done"
        \/ job'.stage = "computed" /\ job'.row = <<r>>
    BY <1>3, <2>1 DEF Compute, NoJob
  <2>4. UNCHANGED <<card, redelivered>> /\ job.stage = "queued" BY <1>3 DEF Compute
  <2>5. Pending = 1 /\ Pending' <= 1 /\ Pending' \in Nat BY <2>4 DEF Pending
  <2>6. Cardinality(OfWorker') + Pending' <= 1 + redelivered'
    BY <2>4, <2>5, <1>a, <1>b, <1>c DEF CardsInv
  <2>7. QED BY <2>2, <2>3, <2>4, <2>6 DEF CardsInv
<1>4. CASE InsertCard
  <2>1. PICK r \in CardRow : r.by = "worker" /\ IsCard(r) /\ job.row = <<r>>
    BY <1>4 DEF InsertCard, CardsInv
  <2>2. card' = Append(card, r)
    <3>1. card \in Seq(CardRow) BY DEF CardsInv
    <3>2. card \o <<r>> = Append(card, r) BY <3>1
    <3>3. QED BY <1>4, <2>1, <3>2 DEF InsertCard
  <2>3. /\ Len(card) < MaxCards /\ UNCHANGED redelivered
        /\ job.stage = "computed" /\ job'.stage = "committed"
    BY <1>4 DEF InsertCard, NoJob
  <2>4. /\ card' \in Seq(CardRow) /\ Len(card') <= MaxCards
        /\ \A i \in DOMAIN card' : IsCard(card'[i])
        /\ Cardinality(OfWorker') = Cardinality(OfWorker) + 1
    BY <2>1, <2>2, <2>3, CardAppended
  <2>5. Pending = 1 /\ Pending' = 0 BY <2>3 DEF Pending
  <2>6. Cardinality(OfWorker') + Pending' <= 1 + redelivered'
    BY <2>3, <2>4, <2>5, <1>a, <1>b DEF CardsInv
  <2>7. QED BY <2>3, <2>4, <2>6 DEF CardsInv
<1>5. CASE AcknowledgeJob \/ FailJob
  <2>1. UNCHANGED <<card, redelivered>> /\ job'.stage = "done"
    BY <1>5 DEF AcknowledgeJob, FailJob, NoJob
  <2>2. Pending \in Nat /\ Pending' = 0 BY <2>1 DEF Pending
  <2>3. Cardinality(OfWorker') + Pending' <= 1 + redelivered'
    BY <2>1, <2>2, <1>a, <1>b, <1>c DEF CardsInv
  <2>4. QED BY <2>1, <2>3 DEF CardsInv
<1>6. CASE WorkerDies
  <2>1. /\ UNCHANGED card /\ job'.stage = "queued" /\ redelivered' = redelivered + 1
        /\ redelivered' \in 0..MaxRedeliveries
    BY <1>6, <1>a DEF WorkerDies, NoJob
  <2>2. Pending \in Nat /\ Pending' = 1 BY <2>1 DEF Pending
  <2>3. Cardinality(OfWorker') + Pending' <= 1 + redelivered'
    BY <2>1, <2>2, <1>a, <1>b, <1>c DEF CardsInv
  <2>4. QED BY <2>1, <2>3 DEF CardsInv
<1>7. QED BY <1>1, <1>2, <1>3, <1>4, <1>5, <1>6 DEF ScorecardsNext

-----------------------------------------------------------------------------
(* The registry.  Each part of the invariant is stated of one request r, of two
   requests, or of one supplier, with the tables as parameters, so that a step is
   judged by what it does to the tables and to the one request that takes it. *)

AnyRow == SupplierRow \cup ContactRow \cup {NoRow, Gone}
AnyArg == {"none"} \cup Suppliers \cup Statuses \cup SUBSET Contacts

CallRow == [op : Op \cup {"none"}, id : Suppliers \cup Contacts \cup {"none"},
            arg : AnyArg, row : AnyRow, read : AnyRow,
            want : SUBSET Contacts,
            held : SUBSET (Suppliers \cup Contacts), stage : Stage]

(* What an open request has read and will write. *)
Shape(r) ==
    /\ r \in CallRow
    /\ r.op = "none" <=> r.stage = "idle"
    /\ r.stage = "flush" => r.want = {}
    /\ r.op = "none" => r.held = {}
    /\ r.op \in {"update", "delete", "transition"} =>
          /\ r.id \in Suppliers /\ r.row \in SupplierRow /\ r.read \in SupplierRow
          /\ r.read.deleted = FALSE /\ r.held = {} /\ r.want = {}
          /\ IF r.op = "transition" THEN r.row.onboarding \in NextOf(r.read.onboarding)
             ELSE r.row.onboarding = r.read.onboarding
    /\ r.op = "create" =>
          /\ r.id \in Suppliers /\ r.row \in SupplierRow /\ r.arg \in SUBSET Contacts
          /\ r.held = {} /\ r.want = {}
    /\ r.op = "bulk" =>
          /\ r.id = "none" /\ r.arg \in Statuses /\ r.held \in SUBSET Suppliers /\ r.want = {}
    /\ r.op \in ContactOp =>
          /\ r.id \in Contacts /\ r.held \in SUBSET (Contacts \ {r.id})
          /\ r.want \in SUBSET (Contacts \ {r.id})
    /\ r.op = "addContact" => r.row \in ContactRow /\ r.read = NoRow
    /\ r.op = "updateContact" =>
          r.row \in ContactRow /\ r.read \in ContactRow /\ r.row.of = r.read.of
    /\ r.op = "deleteContact" => r.row = Gone /\ r.read \in ContactRow

(* How it stands to the suppliers: what it writes is there, what it inserts is
   not, and no row that it locked is deleted. *)
SupplierFits(r, sup) ==
    /\ r.op \in {"update", "delete", "transition"} => sup[r.id] \in SupplierRow
    /\ r.op = "create" => sup[r.id] \notin SupplierRow
    /\ r.op = "bulk" => \A s \in r.held : sup[s] \in SupplierRow /\ sup[s].deleted = FALSE
    /\ r.op = "addContact" => sup[r.row.of] \in SupplierRow

(* How it stands to the contacts. *)
ContactFits(r, con) ==
    /\ r.op = "create" => \A c \in r.arg : con[c] = NoRow
    /\ r.op = "addContact" => con[r.id] = NoRow
    /\ r.op \in {"updateContact", "deleteContact"} => con[r.id] # NoRow
    /\ (r.op = "updateContact" /\ con[r.id] \in ContactRow) => con[r.id].of = r.row.of
    /\ r.op \in ContactOp => \A d \in r.held : con[d] \in ContactRow

Inserts(r) == IF r.op = "create" THEN {r.id} \cup r.arg
              ELSE IF r.op = "addContact" THEN {r.id} ELSE {}

Apart(r, t) == Inserts(r) \cap Inserts(t) = {} /\ r.held \cap t.held = {}

(* The overlap of two requests is on record. *)
Met(r, t, pairs) == \A x \in Claims(r), y \in Claims(t) : {x, y} \in pairs

(* A supplier of the country a creation is for was inserted or moved there since
   the check. *)
CreateSees(r, sup, pairs, gone) ==
    r.op = "create" =>
       \A t \in Suppliers : (sup[t] \in SupplierRow /\ sup[t].country = r.row.country) =>
          {r.id, t} \in pairs \/ t \in gone

IsPrimary(row, s) == row \in ContactRow /\ row.of = s /\ row.primary = TRUE

(* A primary contact in the way of a new one is still to be demoted, locked, or
   the work of a request that overlaps. *)
PrimarySees(r, con, pairs) ==
    (r.op \in {"addContact", "updateContact"} /\ r.row.primary = TRUE) =>
       \A d \in Contacts \ {r.id} : IsPrimary(con[d], r.row.of) =>
          d \in r.want \/ d \in r.held \/ {r.id, d} \in pairs

Transits(r, s) == r.op = "transition" /\ r.id = s
Tells(r, s) == r.op \in Telling /\ r.id = s

RowsInv ==
    /\ supplier \in [Suppliers -> SupplierRow \cup {NoRow}]
    /\ contact \in [Contacts -> ContactRow \cup {NoRow, Gone}]
    /\ begun \in 0..MaxCalls
    /\ topic \in [Suppliers -> Onboarding \cup {"none"}]
    /\ excused \in SUBSET Suppliers /\ moved \in SUBSET Suppliers
    /\ raced \in SUBSET SUBSET (Suppliers \cup Contacts)
    /\ outbox \in SUBSET OutboxRow
    /\ \A m \in outbox : m.at <= begun /\ supplier[m.of] \in SupplierRow
    /\ \A c \in Contacts : contact[c] \in ContactRow => supplier[contact[c].of] \in SupplierRow

CallsInv ==
    /\ call \in [Calls -> CallRow]
    /\ \A q \in Calls : Shape(call[q])
    /\ \A q \in Calls : SupplierFits(call[q], supplier)
    /\ \A q \in Calls : ContactFits(call[q], contact)
    /\ \A p, q \in Calls : p # q => Apart(call[p], call[q])

SecondsInv ==
    /\ SecondsExcused
    /\ \A p, q \in Calls : Met(call[p], call[q], raced)
    /\ \A q \in Calls : CreateSees(call[q], supplier, raced, moved)
    /\ \A q \in Calls : PrimarySees(call[q], contact, raced)

(* Of an unexcused supplier at most one transition is in flight, and it will
   write a newer event than those that wait; the newest of these tells the
   status, and when none waits, the topic does. *)
TopicAt(s) ==
    /\ \A q \in Calls : Transits(call[q], s) =>
          /\ call[q].read.onboarding = supplier[s].onboarding
          /\ \A m \in Waiting(s) : m.at < begun
    /\ \A p, q \in Calls : (Transits(call[p], s) /\ Transits(call[q], s)) => p = q
    /\ \A m \in Waiting(s) : (\A n \in Waiting(s) : n.at <= m.at) =>
          m.tells = supplier[s].onboarding
    /\ (/\ supplier[s] \in SupplierRow /\ Waiting(s) = {}
        /\ \A q \in Calls : Tells(call[q], s) => call[q].stage # "flush")
          => topic[s] = supplier[s].onboarding

TopicInv == \A s \in Suppliers \ excused : TopicAt(s)

RegistryInv == RowsInv /\ CallsInv /\ SecondsInv /\ TopicInv

LEMMA RowsApart ==
    /\ NoRow # Gone /\ NoRow.exists = FALSE /\ Gone.exists = FALSE
    /\ \A r \in SupplierRow : r.exists = TRUE /\ r # NoRow
    /\ \A r \in ContactRow : r.exists = TRUE /\ r # NoRow /\ r # Gone
<1>1. NoRow.exists = FALSE /\ Gone.exists = FALSE BY DEF NoRow, Gone
<1>2. DOMAIN NoRow # DOMAIN Gone BY DEF NoRow, Gone
<1>3. \A r \in SupplierRow : r.exists = TRUE BY DEF SupplierRow
<1>4. \A r \in ContactRow : r.exists = TRUE BY DEF ContactRow
<1>5. QED BY <1>1, <1>2, <1>3, <1>4

LEMMA SupplierMerged ==
    ASSUME NEW now \in SupplierRow, NEW read \in SupplierRow, NEW row \in SupplierRow
    PROVE  /\ Merge(now, read, row) \in SupplierRow
           /\ Merge(now, read, row).onboarding =
                 IF row.onboarding # read.onboarding THEN row.onboarding ELSE now.onboarding
<1>1. DOMAIN now = {"exists", "country", "onboarding", "status", "deleted"} BY DEF SupplierRow
<1>2. PICK m : m = Merge(now, read, row) OBVIOUS
<1>3. m = [f \in {"exists", "country", "onboarding", "status", "deleted"} |->
             IF row[f] # read[f] THEN row[f] ELSE now[f]]
  BY <1>1, <1>2 DEF Merge
<1>4. m = [exists |-> m.exists, country |-> m.country, onboarding |-> m.onboarding,
           status |-> m.status, deleted |-> m.deleted]
  BY <1>3
<1>5. /\ m.exists = IF row.exists # read.exists THEN row.exists ELSE now.exists
      /\ m.country = IF row.country # read.country THEN row.country ELSE now.country
      /\ m.onboarding = IF row.onboarding # read.onboarding THEN row.onboarding ELSE now.onboarding
      /\ m.status = IF row.status # read.status THEN row.status ELSE now.status
      /\ m.deleted = IF row.deleted # read.deleted THEN row.deleted ELSE now.deleted
  BY <1>3
<1>6. m.exists \in {TRUE} /\ m.country \in Countries /\ m.onboarding \in Onboarding
      /\ m.status \in Status /\ m.deleted \in BOOLEAN
  BY <1>5 DEF SupplierRow
<1>7. m \in SupplierRow BY <1>4, <1>6 DEF SupplierRow
<1>8. QED BY <1>2, <1>5, <1>7

(* The update of a contact writes only whether it is primary. *)
LEMMA ContactMerged ==
    ASSUME NEW now \in ContactRow, NEW read \in ContactRow, NEW row \in ContactRow,
           row.of = read.of
    PROVE  /\ Merge(now, read, row) \in ContactRow /\ Merge(now, read, row).of = now.of
           /\ (row = read \/ row.primary = FALSE) =>
                 Merge(now, read, row) = now \/ Merge(now, read, row).primary = FALSE
           /\ row = read => Merge(now, read, row) = now
<1>1. DOMAIN now = {"exists", "of", "primary"} BY DEF ContactRow
<1>2. PICK m : m = Merge(now, read, row) OBVIOUS
<1>3. m = [f \in {"exists", "of", "primary"} |-> IF row[f] # read[f] THEN row[f] ELSE now[f]]
  BY <1>1, <1>2 DEF Merge
<1>4. m = [exists |-> m.exists, of |-> m.of, primary |-> m.primary] BY <1>3
<1>5. /\ m.exists = IF row.exists # read.exists THEN row.exists ELSE now.exists
      /\ m.of = IF row.of # read.of THEN row.of ELSE now.of
      /\ m.primary = IF row.primary # read.primary THEN row.primary ELSE now.primary
  BY <1>3
<1>6. m.exists \in {TRUE} /\ m.of \in Suppliers /\ m.primary \in BOOLEAN
  BY <1>5 DEF ContactRow
<1>7. m \in ContactRow BY <1>4, <1>6 DEF ContactRow
<1>8. now = [exists |-> now.exists, of |-> now.of, primary |-> now.primary]
      /\ row.exists = read.exists
  BY DEF ContactRow
<1>9. row.primary = read.primary => m = now BY <1>4, <1>5, <1>8
<1>10. row.primary # read.primary => m.primary = row.primary BY <1>5
<1>11. m.of = now.of BY <1>5
<1>12. QED BY <1>2, <1>7, <1>9, <1>10, <1>11

(* A request stays fit when rows move as they do: none that is there goes, none
   that it inserts or has locked changes, and what is gone stays gone. *)
LEMMA FitsKept ==
    ASSUME NEW r, Shape(r), NEW sup, NEW sup2, NEW con, NEW con2,
           SupplierFits(r, sup), ContactFits(r, con),
           \A s \in Suppliers : sup[s] \in SupplierRow => sup2[s] \in SupplierRow,
           \A s \in Suppliers : s \in Inserts(r) \cup r.held => sup2[s] = sup[s],
           \A c \in Contacts : con[c] # NoRow => con2[c] # NoRow,
           \A c \in Contacts : (con[c] # NoRow /\ con2[c] \in ContactRow) =>
              con[c] \in ContactRow /\ con2[c].of = con[c].of,
           \A c \in Contacts : c \in Inserts(r) => con2[c] = con[c],
           \A c \in Contacts : c \in r.held => con2[c] \in ContactRow
    PROVE  SupplierFits(r, sup2) /\ ContactFits(r, con2)
<1>1. SupplierFits(r, sup2)
  <2>1. r.op \in {"update", "delete", "transition"} => sup2[r.id] \in SupplierRow
    BY DEF Shape, SupplierFits
  <2>2. r.op = "create" => sup2[r.id] \notin SupplierRow
    BY DEF Shape, SupplierFits, Inserts
  <2>3. r.op = "bulk" => \A s \in r.held : sup2[s] \in SupplierRow /\ sup2[s].deleted = FALSE
    BY DEF Shape, SupplierFits
  <2>4. r.op = "addContact" => sup2[r.row.of] \in SupplierRow
    <3>1. r.op = "addContact" => r.row.of \in Suppliers BY DEF Shape, ContactRow
    <3>2. QED BY <3>1 DEF SupplierFits
  <2>5. QED BY <2>1, <2>2, <2>3, <2>4 DEF SupplierFits
<1>2. ContactFits(r, con2)
  <2>1. r.op = "create" => \A c \in r.arg : con2[c] = NoRow
    BY DEF Shape, ContactFits, Inserts
  <2>2. r.op = "addContact" => con2[r.id] = NoRow
    BY DEF Shape, ContactFits, Inserts, ContactOp
  <2>3. r.op \in {"updateContact", "deleteContact"} => con2[r.id] # NoRow
    BY DEF Shape, ContactFits, ContactOp
  <2>4. r.op \in ContactOp => \A d \in r.held : con2[d] \in ContactRow
    BY DEF Shape
  <2>5. (r.op = "updateContact" /\ con2[r.id] \in ContactRow) => con2[r.id].of = r.row.of
    BY DEF Shape, ContactFits, ContactOp
  <2>6. QED BY <2>1, <2>2, <2>3, <2>4, <2>5 DEF ContactFits
<1>3. QED BY <1>1, <1>2


LEMMA IdleFits ==
    /\ Idle \in CallRow /\ Shape(Idle) /\ Inserts(Idle) = {} /\ Idle.held = {}
    /\ Idle.op = "none" /\ Idle.stage = "idle"
    /\ \A sup, con : SupplierFits(Idle, sup) /\ ContactFits(Idle, con)
    /\ \A s : ~Transits(Idle, s) /\ ~Tells(Idle, s)
    /\ Claims(Idle) = {}
    /\ \A sup, con, pairs, gone : CreateSees(Idle, sup, pairs, gone) /\ PrimarySees(Idle, con, pairs)
<1>1. /\ Idle.op = "none" /\ Idle.stage = "idle" /\ Idle.held = {} /\ Idle.want = {}
      /\ Idle.id = "none" /\ Inserts(Idle) = {}
  BY DEF Idle, Call, Inserts
<1>2. Idle \in CallRow
  BY DEF Idle, Call, CallRow, AnyArg, AnyRow, Stage
<1>3. Shape(Idle) BY <1>1, <1>2 DEF Shape, ContactOp
<1>4. \A sup, con : SupplierFits(Idle, sup) /\ ContactFits(Idle, con)
  BY <1>1 DEF SupplierFits, ContactFits, ContactOp
<1>5. \A s : ~Transits(Idle, s) /\ ~Tells(Idle, s) BY <1>1 DEF Transits, Tells, Telling
<1>6. Claims(Idle) = {} BY <1>1 DEF Claims, ContactOp
<1>7. \A sup, con, pairs, gone : CreateSees(Idle, sup, pairs, gone) /\ PrimarySees(Idle, con, pairs)
  BY <1>1 DEF CreateSees, PrimarySees
<1>8. QED BY <1>1, <1>2, <1>3, <1>4, <1>5, <1>6, <1>7

(* One request changes; the others fit the tables as they become. *)
LEMMA CallsKept ==
    ASSUME CallsInv, NEW q \in Calls, NEW j, call' = [call EXCEPT ![q] = j], Shape(j),
           SupplierFits(j, supplier'), ContactFits(j, contact'),
           \A p \in Calls \ {q} : SupplierFits(call[p], supplier') /\ ContactFits(call[p], contact'),
           \A p \in Calls \ {q} : Apart(call[p], j)
    PROVE  CallsInv'
<1>1. call' \in [Calls -> CallRow] /\ call'[q] = j /\ \A p \in Calls \ {q} : call'[p] = call[p]
  BY DEF CallsInv, Shape
<1>2. \A p \in Calls : Shape(call'[p]) BY <1>1 DEF CallsInv
<1>3. \A p \in Calls : SupplierFits(call'[p], supplier') /\ ContactFits(call'[p], contact')
  BY <1>1
<1>4. ASSUME NEW p \in Calls, NEW t \in Calls, p # t PROVE Apart(call'[p], call'[t])
  <2>1. CASE p # q /\ t # q BY <1>1, <1>4, <2>1 DEF CallsInv
  <2>2. CASE p # q /\ t = q BY <1>1, <1>4, <2>2
  <2>3. CASE p = q /\ t # q
    <3>1. Apart(call[t], j) BY <2>3
    <3>2. Apart(j, call[t]) BY <3>1 DEF Apart
    <3>3. QED BY <1>1, <2>3, <3>2
  <2>4. QED BY <1>4, <2>1, <2>2, <2>3
<1>5. QED BY <1>1, <1>2, <1>3, <1>4 DEF CallsInv

(* What the requests in flight are to insert is promised. *)
LEMMA PromisedInserts ==
    ASSUME CallsInv, NEW p \in Calls
    PROVE  Inserts(call[p]) \subseteq Promised
<1>1. call[p].id \in Promised BY DEF Promised
<1>2. call[p].op = "create" => call[p].arg \subseteq Promised BY DEF Promised
<1>3. QED BY <1>1, <1>2 DEF Inserts

(* The same of the overlaps. *)
LEMMA SecondsKept ==
    ASSUME CallsInv, SecondsInv, NEW q \in Calls, NEW j, call' = [call EXCEPT ![q] = j],
           raced \subseteq raced', SecondsExcused',
           Met(j, j, raced'), \A p \in Calls \ {q} : Met(j, call[p], raced'),
           CreateSees(j, supplier', raced', moved'), PrimarySees(j, contact', raced'),
           \A p \in Calls \ {q} : CreateSees(call[p], supplier', raced', moved'),
           \A p \in Calls \ {q} : PrimarySees(call[p], contact', raced')
    PROVE  SecondsInv'
<1>1. call'[q] = j /\ \A p \in Calls \ {q} : call'[p] = call[p] BY DEF CallsInv
<1>2. \A p \in Calls : CreateSees(call'[p], supplier', raced', moved')
                       /\ PrimarySees(call'[p], contact', raced')
  BY <1>1
<1>3. ASSUME NEW p \in Calls, NEW t \in Calls PROVE Met(call'[p], call'[t], raced')
  <2>1. CASE p # q /\ t # q BY <1>1, <2>1 DEF SecondsInv, Met
  <2>2. CASE p = q /\ t = q BY <1>1, <2>2
  <2>3. CASE p = q /\ t # q BY <1>1, <2>3
  <2>4. CASE p # q /\ t = q
    <3>1. Met(j, call[p], raced') BY <2>4
    <3>2. \A x, y : {x, y} = {y, x} OBVIOUS
    <3>3. Met(call[p], j, raced') BY <3>1, <3>2 DEF Met
    <3>4. QED BY <1>1, <2>4, <3>3
  <2>5. QED BY <2>1, <2>2, <2>3, <2>4
<1>4. QED BY <1>2, <1>3 DEF SecondsInv

(* The rows stay, and with them what the other requests see. *)
LEMMA SecondsAside ==
    ASSUME CallsInv, SecondsInv, NEW q \in Calls, NEW j, call' = [call EXCEPT ![q] = j],
           UNCHANGED <<supplier, contact, moved>>, raced \subseteq raced',
           Met(j, j, raced'), \A p \in Calls \ {q} : Met(j, call[p], raced'),
           CreateSees(j, supplier, raced', moved), PrimarySees(j, contact, raced')
    PROVE  SecondsInv'
<1>1. SecondsExcused' BY DEF SecondsInv, SecondsExcused
<1>2. \A p \in Calls \ {q} : CreateSees(call[p], supplier', raced', moved')
  BY DEF SecondsInv, CreateSees
<1>3. \A p \in Calls \ {q} : PrimarySees(call[p], contact', raced')
  BY DEF SecondsInv, PrimarySees
<1>4. CreateSees(j, supplier', raced', moved') /\ PrimarySees(j, contact', raced') OBVIOUS
<1>5. QED BY <1>1, <1>2, <1>3, <1>4, SecondsKept

LEMMA ClaimsTyped ==
    ASSUME NEW r, Shape(r)
    PROVE  Claims(r) \subseteq Suppliers \cup Contacts
BY DEF Claims, Shape

(* A request is opened: the tables stay and the topic too. *)
LEMMA Opened ==
    ASSUME RegistryInv, NEW q \in Calls, NEW j, Open(q, j), Shape(j), j.stage = "work",
           SupplierFits(j, supplier), ContactFits(j, contact),
           \A p \in Calls \ {q} : Apart(call[p], j),
           CreateSees(j, supplier, {}, {}), PrimarySees(j, contact, {}),
           excused \subseteq excused', excused' \in SUBSET Suppliers,
           \A s \in Suppliers \ excused' : Transits(j, s) =>
              /\ j.read.onboarding = supplier[s].onboarding
              /\ \A p \in Calls : ~Transits(call[p], s)
    PROVE  RegistryInv'
<1> DEFINE others == UNION {Claims(call[p]) : p \in Calls}
<1>1. /\ call[q].stage = "idle" /\ begun < MaxCalls /\ begun' = begun + 1
      /\ call' = [call EXCEPT ![q] = j] /\ UNCHANGED <<supplier, contact, moved, outbox, topic>>
      /\ raced' = raced \cup Pairs(Claims(j), Claims(j) \cup others)
  BY DEF Open, tableVars
<1>2. RowsInv'
  <2>1. begun' \in 0..MaxCalls /\ begun \in Nat
    BY <1>1, RegistryAssumption DEF RegistryInv, RowsInv
  <2>2. Claims(j) \subseteq Suppliers \cup Contacts BY ClaimsTyped
  <2>3. others \subseteq Suppliers \cup Contacts
    <3>1. \A p \in Calls : Claims(call[p]) \subseteq Suppliers \cup Contacts
      BY ClaimsTyped DEF RegistryInv, CallsInv
    <3>2. QED BY <3>1
  <2> HIDE DEF others
  <2>4. raced' \in SUBSET SUBSET (Suppliers \cup Contacts)
    BY <1>1, <2>2, <2>3 DEF Pairs, RegistryInv, RowsInv
  <2>5. \A m \in outbox : m.at \in Nat
    BY DEF RegistryInv, RowsInv, OutboxRow
  <2>6. \A m \in outbox' : m.at <= begun' /\ supplier'[m.of] \in SupplierRow
    BY <1>1, <2>1, <2>5 DEF RegistryInv, RowsInv
  <2>7. QED BY <1>1, <2>1, <2>4, <2>6 DEF RegistryInv, RowsInv
<1>3. CallsInv'
  <2>1. \A p \in Calls \ {q} : SupplierFits(call[p], supplier') /\ ContactFits(call[p], contact')
    BY <1>1 DEF RegistryInv, CallsInv
  <2>2. SupplierFits(j, supplier') /\ ContactFits(j, contact') BY <1>1
  <2>3. CallsInv BY DEF RegistryInv
  <2>4. QED BY <1>1, <2>1, <2>2, <2>3, CallsKept
<1>4. SecondsInv'
  <2>1. \A x \in Claims(j), y \in Claims(j) \cup others : {x, y} \in raced'
    BY <1>1 DEF Pairs
  <2>2. Met(j, j, raced') BY <2>1 DEF Met
  <2>3. ASSUME NEW p \in Calls \ {q} PROVE Met(j, call[p], raced')
    <3>1. Claims(call[p]) \subseteq others OBVIOUS
    <3> HIDE DEF others
    <3>2. QED BY <2>1, <3>1 DEF Met
  <2>4. CreateSees(j, supplier, raced', moved) /\ PrimarySees(j, contact, raced')
    BY DEF CreateSees, PrimarySees
  <2>5. raced \subseteq raced' BY <1>1
  <2> HIDE DEF others
  <2>6. QED BY <1>1, <2>2, <2>3, <2>4, <2>5, SecondsAside DEF RegistryInv
<1>5. TopicInv'
  <2>1. call'[q] = j /\ \A p \in Calls \ {q} : call'[p] = call[p]
    BY <1>1 DEF RegistryInv, CallsInv
  <2>2. \A s : ~Transits(call[q], s) /\ ~Tells(call[q], s)
    BY <1>1 DEF RegistryInv, CallsInv, Shape, Transits, Tells, Telling
  <2>3. ASSUME NEW s \in Suppliers \ excused' PROVE TopicAt(s)'
    <3>1. s \in Suppliers \ excused /\ TopicAt(s) BY DEF RegistryInv, TopicInv
    <3>2. Waiting(s)' = Waiting(s) BY <1>1 DEF Waiting
    <3>3. \A m \in Waiting(s) : m.at < begun'
      BY <1>1 DEF Waiting, RegistryInv, RowsInv, OutboxRow
    <3>4. \A p \in Calls : Transits(call'[p], s) =>
             call'[p].read.onboarding = supplier'[s].onboarding
      BY <1>1, <2>1, <3>1 DEF TopicAt
    <3>5. \A p, t \in Calls : (Transits(call'[p], s) /\ Transits(call'[t], s)) => p = t
      BY <2>1, <3>1 DEF TopicAt
    <3>6. ASSUME supplier'[s] \in SupplierRow, Waiting(s) = {},
                 \A p \in Calls : Tells(call'[p], s) => call'[p].stage # "flush"
          PROVE  topic'[s] = supplier'[s].onboarding
      <4>1. \A p \in Calls : Tells(call[p], s) => call[p].stage # "flush"
        BY <2>1, <2>2, <3>6
      <4>2. QED BY <1>1, <3>1, <3>6, <4>1 DEF TopicAt
    <3>7. \A m \in Waiting(s) : (\A n \in Waiting(s) : n.at <= m.at) =>
             m.tells = supplier'[s].onboarding
      BY <1>1, <3>1 DEF TopicAt
    <3>8. QED BY <3>2, <3>3, <3>4, <3>5, <3>6, <3>7 DEF TopicAt
  <2>4. QED BY <2>3 DEF TopicInv
<1>6. QED BY <1>2, <1>3, <1>4, <1>5 DEF RegistryInv

(* What the rules of reading and checking give of each request. *)
LEMMA CreateKept ==
    ASSUME RegistryInv, NEW q \in Calls, NEW s \in Suppliers, NEW k \in Countries,
           NEW new \in SUBSET Contacts, \A c \in new : contact[c] = NoRow,
           Create(q, s, k, new)
    PROVE  RegistryInv'
<1> DEFINE row == [exists |-> TRUE, country |-> k, onboarding |-> "draft",
                   status |-> "pending", deleted |-> FALSE]
           jj == Call("create", s, new, row, NoRow, {}, {}, "work")
<1>1. row \in SupplierRow BY DEF SupplierRow, Onboarding, Status
<1>2. PICK R \in SupplierRow : R = row BY <1>1
<1>3. PICK j : j = jj OBVIOUS
<1>4. /\ Of(k) = {} /\ ({s} \cup new) \cap Promised = {} /\ Open(q, j) /\ UNCHANGED excused
      /\ ~supplier[s].exists
  BY <1>3 DEF Create
<1> HIDE DEF row
<1>5. j = [op |-> "create", id |-> s, arg |-> new, row |-> R, read |-> NoRow,
           want |-> {}, held |-> {}, stage |-> "work"]
  BY <1>2, <1>3, <1>4 DEF Call
<1> HIDE DEF jj
<1>6. j \in CallRow
  BY <1>5 DEF CallRow, AnyArg, AnyRow, Op, RowOp, Stage
<1>7. Shape(j) BY <1>5, <1>6 DEF Shape, ContactOp
<1>8. supplier[s] \notin SupplierRow BY <1>4, RowsApart
<1>9. SupplierFits(j, supplier) /\ ContactFits(j, contact)
  BY <1>5, <1>8 DEF SupplierFits, ContactFits, ContactOp
<1>a. PrimarySees(j, contact, {}) BY <1>5 DEF PrimarySees
<1>b. CreateSees(j, supplier, {}, {})
  <2>1. \A t \in Suppliers : supplier[t] \in SupplierRow => supplier[t].country # k
    BY <1>4, RowsApart DEF Of
  <2>2. R.country = k BY <1>2 DEF row
  <2>3. QED BY <1>5, <2>1, <2>2 DEF CreateSees
<1>10. ASSUME NEW p \in Calls \ {q} PROVE Apart(call[p], j)
  <2>1. Inserts(call[p]) \subseteq Promised BY PromisedInserts DEF RegistryInv
  <2>2. Inserts(j) = {s} \cup new /\ j.held = {} BY <1>5 DEF Inserts
  <2>3. QED BY <1>4, <2>1, <2>2 DEF Apart
<1>11. \A t : ~Transits(j, t) BY <1>5 DEF Transits
<1>12. j.stage = "work" /\ excused' \in SUBSET Suppliers
  BY <1>4, <1>5 DEF RegistryInv, RowsInv
<1>13. QED BY <1>4, <1>7, <1>9, <1>a, <1>b, <1>10, <1>11, <1>12, Opened

(* A request for one row that is found: update, deletion, transition. *)
LEMMA RowCallOpened ==
    ASSUME RegistryInv, NEW q \in Calls, NEW s \in Suppliers, NEW row \in SupplierRow,
           NEW op \in {"update", "delete", "transition"}, Found(s),
           IF op = "transition" THEN row.onboarding \in NextOf(supplier[s].onboarding)
           ELSE row.onboarding = supplier[s].onboarding,
           Open(q, RowCall(op, s, row, supplier[s])),
           excused \subseteq excused', excused' \in SUBSET Suppliers,
           (op = "transition" /\ s \notin excused') =>
               \A p \in Calls : ~Transits(call[p], s)
    PROVE  RegistryInv'
<1>1. PICK j : j = RowCall(op, s, row, supplier[s]) OBVIOUS
<1>2. supplier[s] \in SupplierRow /\ supplier[s].deleted = FALSE
  <2>1. supplier[s] \in SupplierRow \cup {NoRow} BY DEF RegistryInv, RowsInv
  <2>2. supplier[s] \in SupplierRow BY <2>1, RowsApart DEF Found
  <2>3. supplier[s].deleted \in BOOLEAN BY <2>2 DEF SupplierRow
  <2>4. QED BY <2>2, <2>3 DEF Found
<1>3. PICK R \in SupplierRow : R = supplier[s] BY <1>2
<1>4. j = [op |-> op, id |-> s, arg |-> "none", row |-> row, read |-> R,
           want |-> {}, held |-> {}, stage |-> "work"]
  BY <1>1, <1>3 DEF RowCall, Call
<1>5. j \in CallRow
  BY <1>4 DEF CallRow, AnyArg, AnyRow, Op, RowOp, Stage
<1>6. Shape(j) BY <1>2, <1>3, <1>4, <1>5 DEF Shape, ContactOp
<1>7. SupplierFits(j, supplier) /\ ContactFits(j, contact)
  BY <1>2, <1>4 DEF SupplierFits, ContactFits, ContactOp
<1>8. \A p \in Calls \ {q} : Apart(call[p], j)
  BY <1>4 DEF Apart, Inserts
<1>9. \A t \in Suppliers \ excused' : Transits(j, t) =>
         /\ j.read.onboarding = supplier[t].onboarding
         /\ \A p \in Calls : ~Transits(call[p], t)
  BY <1>3, <1>4 DEF Transits
<1>10. Open(q, j) /\ j.stage = "work" BY <1>1, <1>4
<1>11. CreateSees(j, supplier, {}, {}) /\ PrimarySees(j, contact, {})
  BY <1>4 DEF CreateSees, PrimarySees
<1>12. QED BY <1>6, <1>7, <1>8, <1>9, <1>10, <1>11, Opened

LEMMA RowFound ==
    ASSUME RegistryInv, NEW s \in Suppliers, Found(s)
    PROVE  supplier[s] \in SupplierRow
<1>1. supplier[s] \in SupplierRow \cup {NoRow} BY DEF RegistryInv, RowsInv
<1>2. QED BY <1>1, RowsApart DEF Found

LEMMA UpdateKept ==
    ASSUME RegistryInv, NEW q \in Calls, NEW s \in Suppliers, NEW k \in Countries, Update(q, s, k)
    PROVE  RegistryInv'
<1>1. Found(s) /\ UNCHANGED excused /\ supplier[s] \in SupplierRow BY RowFound DEF Update
<1>2. PICK row : row = [supplier[s] EXCEPT !.country = k] OBVIOUS
<1>3. row \in SupplierRow /\ row.onboarding = supplier[s].onboarding
  BY <1>1, <1>2 DEF SupplierRow
<1>4. Open(q, RowCall("update", s, row, supplier[s])) BY <1>2 DEF Update
<1>5. excused \subseteq excused' /\ excused' \in SUBSET Suppliers
  BY <1>1 DEF RegistryInv, RowsInv
<1>6. QED BY <1>1, <1>3, <1>4, <1>5, RowCallOpened

LEMMA DeleteKept ==
    ASSUME RegistryInv, NEW q \in Calls, NEW s \in Suppliers, Delete(q, s)
    PROVE  RegistryInv'
<1>1. Found(s) /\ UNCHANGED excused /\ supplier[s] \in SupplierRow BY RowFound DEF Delete
<1>2. PICK row : row = [supplier[s] EXCEPT !.deleted = TRUE, !.status = "inactive"] OBVIOUS
<1>3. row \in SupplierRow /\ row.onboarding = supplier[s].onboarding
  BY <1>1, <1>2 DEF SupplierRow, Status, VALID_STATUSES
<1>4. Open(q, RowCall("delete", s, row, supplier[s])) BY <1>2 DEF Delete
<1>5. excused \subseteq excused' /\ excused' \in SUBSET Suppliers
  BY <1>1 DEF RegistryInv, RowsInv
<1>6. QED BY <1>1, <1>3, <1>4, <1>5, RowCallOpened

(* A second transition of a supplier excuses it. *)
LEMMA TransitionKept ==
    ASSUME RegistryInv, NEW q \in Calls, NEW s \in Suppliers, NEW to \in Onboarding,
           Transition(q, s, to)
    PROVE  RegistryInv'
<1>1. Found(s) /\ to \in NextOf(supplier[s].onboarding) /\ supplier[s] \in SupplierRow
  BY RowFound DEF Transition
<1>2. PICK st : st = IF to = "active" THEN "active"
                     ELSE IF to \in {"rejected", "inactive"} THEN "inactive"
                     ELSE supplier[s].status
  OBVIOUS
<1>3. PICK row : row = [supplier[s] EXCEPT !.onboarding = to, !.status = st] OBVIOUS
<1>4. st \in Status BY <1>1, <1>2 DEF SupplierRow, Status, VALID_STATUSES
<1>5. row \in SupplierRow /\ row.onboarding = to
  BY <1>1, <1>3, <1>4 DEF SupplierRow
<1>6. Open(q, RowCall("transition", s, row, supplier[s]))
  <2>1. [supplier[s] EXCEPT !.onboarding = to,
             !.status = IF to = "active" THEN "active"
                        ELSE IF to \in {"rejected", "inactive"} THEN "inactive"
                        ELSE @] = row
    BY <1>1, <1>2, <1>3 DEF SupplierRow
  <2>2. QED BY <2>1 DEF Transition
<1>7. /\ excused \subseteq excused' /\ excused' \in SUBSET Suppliers
      /\ s \notin excused' => \A p \in Calls : ~Transits(call[p], s)
  BY DEF Transition, RegistryInv, RowsInv, Transits
<1>8. QED BY <1>1, <1>5, <1>6, <1>7, RowCallOpened

LEMMA BulkKept ==
    ASSUME RegistryInv, NEW q \in Calls, NEW ids \in SUBSET Suppliers,
           NEW status \in Statuses, Bulk(q, ids, status)
    PROVE  RegistryInv'
<1>1. PICK rows : rows = {s \in ids : Found(s)} OBVIOUS
<1>2. PICK j : j = Call("bulk", "none", status, NoRow, NoRow, {}, rows, "work") OBVIOUS
<1>3. Free(rows, q) /\ Open(q, j) /\ UNCHANGED excused BY <1>1, <1>2 DEF Bulk
<1>4. j = [op |-> "bulk", id |-> "none", arg |-> status, row |-> NoRow, read |-> NoRow,
           want |-> {}, held |-> rows, stage |-> "work"]
  BY <1>2 DEF Call
<1>5. rows \in SUBSET Suppliers BY <1>1
<1>6. j \in CallRow
  BY <1>4, <1>5 DEF CallRow, AnyArg, AnyRow, Op, RowOp, Stage
<1>7. Shape(j) BY <1>4, <1>5, <1>6 DEF Shape, ContactOp
<1>8. ASSUME NEW s \in rows PROVE supplier[s] \in SupplierRow /\ supplier[s].deleted = FALSE
  <2>1. Found(s) /\ s \in Suppliers BY <1>1
  <2>2. supplier[s] \in SupplierRow BY <2>1, RowFound
  <2>3. supplier[s].deleted \in BOOLEAN BY <2>2 DEF SupplierRow
  <2>4. QED BY <2>1, <2>2, <2>3 DEF Found
<1>9. SupplierFits(j, supplier) /\ ContactFits(j, contact)
  BY <1>4, <1>8 DEF SupplierFits, ContactFits, ContactOp
<1>10. \A p \in Calls \ {q} : Apart(call[p], j)
  BY <1>3, <1>4 DEF Apart, Inserts, Free
<1>11. \A t : ~Transits(j, t) BY <1>4 DEF Transits
<1>12. j.stage = "work" /\ excused' \in SUBSET Suppliers
  BY <1>3, <1>4 DEF RegistryInv, RowsInv
<1>13. CreateSees(j, supplier, {}, {}) /\ PrimarySees(j, contact, {})
  BY <1>4 DEF CreateSees, PrimarySees
<1>14. QED BY <1>3, <1>7, <1>9, <1>10, <1>11, <1>12, <1>13, Opened

LEMMA PrimariesThere ==
    ASSUME RegistryInv, NEW s, NEW d \in Primaries(s)
    PROVE  d \in Contacts /\ contact[d] \in ContactRow /\ contact[d] # NoRow
<1>1. d \in Contacts /\ contact[d].exists /\ contact[d].of = s BY DEF Primaries
<1>2. contact[d] \in ContactRow \cup {NoRow, Gone} BY <1>1 DEF RegistryInv, RowsInv
<1>3. QED BY <1>1, <1>2, RowsApart

LEMMA AddContactKept ==
    ASSUME RegistryInv, NEW q \in Calls, NEW s \in Suppliers, NEW c \in Contacts,
           NEW b \in BOOLEAN, AddContact(q, s, c, b)
    PROVE  RegistryInv'
<1>1. PICK row : row = [exists |-> TRUE, of |-> s, primary |-> b] OBVIOUS
<1>2. PICK P : P = Primaries(s) OBVIOUS
<1>3. PICK W : W = IF b THEN P ELSE {} OBVIOUS
<1>4. PICK j : j = Call("addContact", c, s, row, NoRow, W, {}, "work") OBVIOUS
<1>5. /\ contact[c] = NoRow /\ c \notin Promised /\ Open(q, j) /\ UNCHANGED excused
      /\ Found(s)
  BY <1>1, <1>2, <1>3, <1>4 DEF AddContact
<1>6. j = [op |-> "addContact", id |-> c, arg |-> s, row |-> row, read |-> NoRow,
           want |-> W, held |-> {}, stage |-> "work"]
  BY <1>4 DEF Call
<1>7. row \in ContactRow /\ row.primary = b /\ row.of = s BY <1>1 DEF ContactRow
<1>8. \A d \in P : d \in Contacts /\ d # c /\ contact[d] # NoRow
  BY <1>2, <1>5, PrimariesThere
<1>9. W \in SUBSET (Contacts \ {c}) BY <1>3, <1>8
<1>10. j \in CallRow
  BY <1>6, <1>7, <1>8, <1>9 DEF CallRow, AnyArg, AnyRow, Op, ContactOp, Stage
<1>11. Shape(j) BY <1>6, <1>7, <1>9, <1>10 DEF Shape, ContactOp
<1>12. SupplierFits(j, supplier) BY <1>5, <1>6, <1>7, RowFound DEF SupplierFits
<1>13. ContactFits(j, contact)
  BY <1>5, <1>6 DEF ContactFits
<1>a. PrimarySees(j, contact, {})
  <2>1. \A d \in Contacts : IsPrimary(contact[d], s) => d \in P
    BY <1>2, RowsApart DEF IsPrimary, Primaries
  <2>2. QED BY <1>3, <1>6, <1>7, <2>1 DEF PrimarySees
<1>b. CreateSees(j, supplier, {}, {}) BY <1>6 DEF CreateSees
<1>14. ASSUME NEW p \in Calls \ {q} PROVE Apart(call[p], j)
  <2>1. Inserts(call[p]) \subseteq Promised BY PromisedInserts DEF RegistryInv
  <2>2. Inserts(j) = {c} /\ j.held = {} BY <1>6 DEF Inserts
  <2>3. QED BY <1>5, <2>1, <2>2 DEF Apart
<1>15. \A t : ~Transits(j, t) BY <1>6 DEF Transits
<1>16. j.stage = "work" /\ excused' \in SUBSET Suppliers
  BY <1>5, <1>6 DEF RegistryInv, RowsInv
<1>17. QED BY <1>5, <1>11, <1>12, <1>13, <1>a, <1>b, <1>14, <1>15, <1>16, Opened

LEMMA ContactThere ==
    ASSUME RegistryInv, NEW c \in Contacts, contact[c].exists
    PROVE  contact[c] \in ContactRow /\ contact[c] # NoRow
<1>1. contact[c] \in ContactRow \cup {NoRow, Gone} BY DEF RegistryInv, RowsInv
<1>2. QED BY <1>1, RowsApart

LEMMA UpdateContactKept ==
    ASSUME RegistryInv, NEW q \in Calls, NEW c \in Contacts,
           NEW b \in BOOLEAN, UpdateContact(q, c, b)
    PROVE  RegistryInv'
<1>1. contact[c].exists BY DEF UpdateContact
<1>2. PICK read \in ContactRow : read = contact[c] /\ read # NoRow BY <1>1, ContactThere
<1>3. PICK row : row = [read EXCEPT !.primary = b] OBVIOUS
<1>5. PICK W : W = {d \in Contacts \ {c} : b /\ contact[d].exists /\ contact[d].of = read.of}
  OBVIOUS
<1>6. PICK j : j = Call("updateContact", c, read.of, row, read, W, {}, "work") OBVIOUS
<1>7. Open(q, j) /\ UNCHANGED excused
  BY <1>2, <1>3, <1>5, <1>6 DEF UpdateContact
<1>8. j = [op |-> "updateContact", id |-> c, arg |-> read.of, row |-> row, read |-> read,
           want |-> W, held |-> {}, stage |-> "work"]
  BY <1>6 DEF Call
<1>9. row \in ContactRow /\ row.primary = b /\ row.of = read.of /\ read.of \in Suppliers
  BY <1>3 DEF ContactRow
<1>10. \A d \in Contacts \ {c} : (b = TRUE /\ IsPrimary(contact[d], read.of)) => d \in W
  BY <1>5, RowsApart DEF IsPrimary
<1>11. W \in SUBSET (Contacts \ {c}) BY <1>5
<1>12. j \in CallRow
  BY <1>8, <1>9, <1>11 DEF CallRow, AnyArg, AnyRow, Op, ContactOp, Stage
<1>13. Shape(j) BY <1>8, <1>9, <1>11, <1>12 DEF Shape, ContactOp
<1>14. SupplierFits(j, supplier) BY <1>8 DEF SupplierFits
<1>15. ContactFits(j, contact)
  BY <1>2, <1>8, <1>9 DEF ContactFits
<1>16. \A p \in Calls \ {q} : Apart(call[p], j) BY <1>8 DEF Apart, Inserts
<1>17. \A t : ~Transits(j, t) BY <1>8 DEF Transits
<1>18. j.stage = "work" /\ excused' \in SUBSET Suppliers
  BY <1>7, <1>8 DEF RegistryInv, RowsInv
<1>19. PrimarySees(j, contact, {}) BY <1>8, <1>9, <1>10 DEF PrimarySees
<1>20. CreateSees(j, supplier, {}, {}) BY <1>8 DEF CreateSees
<1>21. QED BY <1>7, <1>13, <1>14, <1>15, <1>16, <1>17, <1>18, <1>19, <1>20, Opened

LEMMA DeleteContactKept ==
    ASSUME RegistryInv, NEW q \in Calls, NEW c \in Contacts, DeleteContact(q, c)
    PROVE  RegistryInv'
<1>1. contact[c].exists BY DEF DeleteContact
<1>2. PICK read \in ContactRow : read = contact[c] /\ read # NoRow BY <1>1, ContactThere
<1>3. PICK j : j = Call("deleteContact", c, read.of, Gone, read, {}, {}, "work") OBVIOUS
<1>4. Open(q, j) /\ UNCHANGED excused BY <1>2, <1>3 DEF DeleteContact
<1>5. j = [op |-> "deleteContact", id |-> c, arg |-> read.of, row |-> Gone, read |-> read,
           want |-> {}, held |-> {}, stage |-> "work"]
  BY <1>3 DEF Call
<1>6. read.of \in Suppliers BY DEF ContactRow
<1>7. j \in CallRow
  BY <1>5, <1>6 DEF CallRow, AnyArg, AnyRow, Op, ContactOp, Stage
<1>8. Shape(j) BY <1>5, <1>7 DEF Shape, ContactOp
<1>9. SupplierFits(j, supplier) /\ ContactFits(j, contact)
  BY <1>2, <1>5 DEF SupplierFits, ContactFits, ContactOp
<1>10. \A p \in Calls \ {q} : Apart(call[p], j) BY <1>5 DEF Apart, Inserts
<1>11. \A t : ~Transits(j, t) BY <1>5 DEF Transits
<1>12. j.stage = "work" /\ excused' \in SUBSET Suppliers
  BY <1>4, <1>5 DEF RegistryInv, RowsInv
<1>13. CreateSees(j, supplier, {}, {}) /\ PrimarySees(j, contact, {})
  BY <1>5 DEF CreateSees, PrimarySees
<1>14. QED BY <1>4, <1>8, <1>9, <1>10, <1>11, <1>12, <1>13, Opened

-----------------------------------------------------------------------------
(* The steps from the statements to the commit. *)

(* The topic of a supplier stays right when the request that changes says nothing
   of it, or says what it will write, and the rows keep its onboarding. *)
LEMMA TopicAside ==
    ASSUME CallsInv, NEW s \in Suppliers, TopicAt(s), NEW q \in Calls, NEW j,
           call' = [call EXCEPT ![q] = j],
           Transits(j, s) => Transits(call[q], s) /\ j.read = call[q].read,
           (Tells(call[q], s) /\ call[q].stage = "flush") => Tells(j, s) /\ j.stage = "flush",
           topic'[s] = topic[s] \/ (Tells(j, s) /\ j.stage = "flush"),
           begun' = begun, Waiting(s)' = Waiting(s),
           supplier'[s] \in SupplierRow => supplier[s] \in SupplierRow,
           supplier'[s].onboarding = supplier[s].onboarding
    PROVE  TopicAt(s)'
<1>1. call'[q] = j /\ \A p \in Calls \ {q} : call'[p] = call[p] BY DEF CallsInv
<1>2. \A p \in Calls : Transits(call'[p], s) => Transits(call[p], s) /\ call'[p].read = call[p].read
  BY <1>1
<1>3. \A p \in Calls : Transits(call'[p], s) =>
         /\ call'[p].read.onboarding = supplier'[s].onboarding
         /\ \A m \in Waiting(s) : m.at < begun
  BY <1>2 DEF TopicAt
<1>4. \A p, t \in Calls : (Transits(call'[p], s) /\ Transits(call'[t], s)) => p = t
  BY <1>2 DEF TopicAt
<1>5. ASSUME supplier'[s] \in SupplierRow, Waiting(s) = {},
             \A p \in Calls : Tells(call'[p], s) => call'[p].stage # "flush"
      PROVE  topic'[s] = supplier'[s].onboarding
  <2>1. \A p \in Calls : Tells(call[p], s) => call[p].stage # "flush"
    BY <1>1, <1>5
  <2>2. topic'[s] = topic[s] BY <1>1, <1>5
  <2>3. QED BY <1>5, <2>1, <2>2 DEF TopicAt
<1>6. \A m \in Waiting(s) : (\A n \in Waiting(s) : n.at <= m.at) =>
         m.tells = supplier'[s].onboarding
  BY DEF TopicAt
<1>7. QED BY <1>3, <1>4, <1>5, <1>6 DEF TopicAt

LEMMA DemoteKept ==
    ASSUME RegistryInv, NEW q \in Calls, NEW d \in Contacts, Demote(q, d)
    PROVE  RegistryInv'
<1>1. PICK r \in CallRow : r = call[q] BY DEF RegistryInv, CallsInv
<1>2. /\ Shape(r) /\ SupplierFits(r, supplier) /\ ContactFits(r, contact)
  BY <1>1 DEF RegistryInv, CallsInv
<1>3. PICK H : H = IF contact[d].exists THEN r.held \cup {d} ELSE r.held OBVIOUS
<1>4. PICK j : j = [[r EXCEPT !.want = r.want \ {d}] EXCEPT !.held = H] OBVIOUS
<1>5. /\ r.stage = "work" /\ d \in r.want /\ Free({d}, q)
      /\ call' = [call EXCEPT ![q] = j]
      /\ UNCHANGED <<supplier, contact, moved, begun, outbox, topic, excused, raced>>
  <2>1. [call EXCEPT ![q].want = @ \ {d},
                   ![q].held = IF contact[d].exists THEN @ \cup {d} ELSE @]
        = [call EXCEPT ![q] = j]
    BY <1>1, <1>3, <1>4 DEF RegistryInv, CallsInv, CallRow
  <2>2. QED BY <1>1, <2>1 DEF Demote, tableVars, eventVars
<1>6. /\ j.op = r.op /\ j.id = r.id /\ j.arg = r.arg /\ j.row = r.row /\ j.read = r.read
      /\ j.stage = r.stage /\ j.want = r.want \ {d} /\ j.held = H
  BY <1>4 DEF CallRow
<1>7. r.op \in ContactOp
  BY <1>2, <1>5 DEF Shape, CallRow, Op, RowOp
<1>8. H \subseteq r.held \cup {d} /\ H \in SUBSET (Contacts \ {r.id})
  BY <1>2, <1>3, <1>5, <1>7 DEF Shape
<1>9. Shape(j)
  <2>1. j \in CallRow BY <1>4, <1>8 DEF CallRow
  <2>2. QED BY <1>2, <1>5, <1>6, <1>7, <1>8, <2>1 DEF Shape, ContactOp
<1>10. SupplierFits(j, supplier) BY <1>2, <1>6, <1>7 DEF SupplierFits, ContactOp
<1>11. ContactFits(j, contact)
  <2>1. contact[d] \in ContactRow \cup {NoRow, Gone} BY DEF RegistryInv, RowsInv
  <2>2. contact[d].exists => contact[d] \in ContactRow BY <2>1, RowsApart
  <2>4. \A e \in H : contact[e] \in ContactRow BY <1>2, <1>3, <1>7, <2>2 DEF ContactFits
  <2>5. QED BY <1>2, <1>6, <1>7, <2>4 DEF ContactFits, ContactOp
<1>12. ASSUME NEW p \in Calls \ {q} PROVE Apart(call[p], j)
  <2>1. Apart(call[p], r) BY <1>1 DEF RegistryInv, CallsInv
  <2>2. d \notin call[p].held BY <1>5 DEF Free
  <2>3. Inserts(j) = Inserts(r) BY <1>6 DEF Inserts
  <2>4. QED BY <1>6, <1>8, <2>1, <2>2, <2>3 DEF Apart
<1>13. CallsInv'
  <2>1. \A p \in Calls \ {q} : SupplierFits(call[p], supplier') /\ ContactFits(call[p], contact')
    BY <1>5 DEF RegistryInv, CallsInv
  <2>2. SupplierFits(j, supplier') /\ ContactFits(j, contact') BY <1>5, <1>10, <1>11
  <2>3. QED BY <1>5, <1>9, <1>12, <2>1, <2>2, CallsKept DEF RegistryInv
<1>14. RowsInv' BY <1>5 DEF RegistryInv, RowsInv
<1>15. TopicInv'
  <2>1. ASSUME NEW s \in Suppliers \ excused' PROVE TopicAt(s)'
    <3>1. TopicAt(s) BY <1>5 DEF RegistryInv, TopicInv
    <3>2. ~Transits(j, s) /\ ~Tells(r, s)
      BY <1>6, <1>7 DEF Transits, Tells, Telling, ContactOp
    <3>3. Waiting(s)' = Waiting(s) BY <1>5 DEF Waiting
    <3>4. QED BY <1>1, <1>5, <3>1, <3>2, <3>3, TopicAside DEF RegistryInv
  <2>2. QED BY <2>1 DEF TopicInv
<1>16. SecondsInv'
  <2>1. Claims(j) = Claims(r) BY <1>6 DEF Claims
  <2>2. /\ Met(r, r, raced) /\ \A p \in Calls \ {q} : Met(r, call[p], raced)
        /\ PrimarySees(r, contact, raced)
    BY <1>1 DEF RegistryInv, SecondsInv
  <2>3. Met(j, j, raced') /\ \A p \in Calls \ {q} : Met(j, call[p], raced')
    BY <1>5, <2>1, <2>2 DEF Met
  <2>4. CreateSees(j, supplier, raced', moved) BY <1>6, <1>7 DEF CreateSees, ContactOp
  <2>5. PrimarySees(j, contact, raced')
    <3>1. contact[d] \notin ContactRow \/ d \in H BY <1>3, RowsApart
    <3>2. \A e \in r.want : e = d \/ e \in j.want BY <1>6
    <3>3. \A e \in r.held : e \in j.held BY <1>3, <1>6
    <3>4. \A s, e : (e = d /\ IsPrimary(contact[e], s)) => e \in j.held
      BY <1>6, <3>1 DEF IsPrimary
    <3>5. QED BY <1>5, <1>6, <2>2, <3>2, <3>3, <3>4 DEF PrimarySees
  <2>6. QED BY <1>5, <2>3, <2>4, <2>5, SecondsAside DEF RegistryInv
<1>17. QED BY <1>13, <1>14, <1>15, <1>16 DEF RegistryInv

(* The direct event, of the status the commit will write, or none. *)
LEMMA PublishKept ==
    ASSUME RegistryInv, NEW q \in Calls, Publish(q)
    PROVE  RegistryInv'
<1>1. PICK r \in CallRow : r = call[q] BY DEF RegistryInv, CallsInv
<1>2. /\ Shape(r) /\ SupplierFits(r, supplier) /\ ContactFits(r, contact)
  BY <1>1 DEF RegistryInv, CallsInv
<1>3. PICK j : j = [r EXCEPT !.stage = "flush"] OBVIOUS
<1>4. /\ r.stage = "work" /\ r.want = {} /\ call' = [call EXCEPT ![q] = j]
      /\ UNCHANGED <<supplier, contact, moved, begun, outbox, excused, raced>>
      /\ topic' = topic \/ (r.op \in Telling /\ topic' = [topic EXCEPT ![r.id] = r.row.onboarding])
  BY <1>1, <1>3 DEF Publish, tableVars
<1>5. /\ j.op = r.op /\ j.id = r.id /\ j.arg = r.arg /\ j.row = r.row /\ j.read = r.read
      /\ j.stage = "flush" /\ j.want = r.want /\ j.held = r.held
  BY <1>3 DEF CallRow
<1>6. r.op # "none" BY <1>2, <1>4 DEF Shape
<1>7. Shape(j)
  <2>1. j \in CallRow BY <1>3 DEF CallRow, Stage
  <2>2. QED BY <1>2, <1>4, <1>5, <1>6, <2>1 DEF Shape
<1>8. SupplierFits(j, supplier) BY <1>2, <1>5 DEF SupplierFits
<1>9. ContactFits(j, contact) BY <1>2, <1>5 DEF ContactFits
<1>10. ASSUME NEW p \in Calls \ {q} PROVE Apart(call[p], j)
  <2>1. Apart(call[p], r) BY <1>1 DEF RegistryInv, CallsInv
  <2>2. Inserts(j) = Inserts(r) BY <1>5 DEF Inserts
  <2>3. QED BY <1>5, <2>1, <2>2 DEF Apart
<1>11. CallsInv'
  <2>1. \A p \in Calls \ {q} : SupplierFits(call[p], supplier') /\ ContactFits(call[p], contact')
    BY <1>4 DEF RegistryInv, CallsInv
  <2>2. SupplierFits(j, supplier') /\ ContactFits(j, contact') BY <1>4, <1>8, <1>9
  <2>3. QED BY <1>4, <1>7, <1>10, <2>1, <2>2, CallsKept DEF RegistryInv
<1>12. SecondsInv'
  <2>1. Claims(j) = Claims(r) BY <1>5 DEF Claims
  <2>2. /\ Met(r, r, raced) /\ \A p \in Calls \ {q} : Met(r, call[p], raced)
        /\ PrimarySees(r, contact, raced) /\ CreateSees(r, supplier, raced, moved)
    BY <1>1 DEF RegistryInv, SecondsInv
  <2>3. Met(j, j, raced') /\ \A p \in Calls \ {q} : Met(j, call[p], raced')
    BY <1>4, <2>1, <2>2 DEF Met
  <2>4. CreateSees(j, supplier, raced', moved) BY <1>4, <1>5, <2>2 DEF CreateSees
  <2>5. PrimarySees(j, contact, raced') BY <1>4, <1>5, <2>2 DEF PrimarySees
  <2>6. QED BY <1>4, <2>3, <2>4, <2>5, SecondsAside DEF RegistryInv
<1>13. RowsInv'
  <2>1. r.op \in Telling => r.id \in Suppliers /\ r.row.onboarding \in Onboarding
    BY <1>2 DEF Shape, SupplierRow, Telling
  <2>2. topic' \in [Suppliers -> Onboarding \cup {"none"}]
    BY <1>4, <2>1 DEF RegistryInv, RowsInv
  <2>3. QED BY <1>4, <2>2 DEF RegistryInv, RowsInv
<1>14. ASSUME NEW s \in Suppliers \ excused' PROVE TopicAt(s)'
  <2>1. TopicAt(s) BY <1>4 DEF RegistryInv, TopicInv
  <2>2. topic'[s] = topic[s] \/ (Tells(j, s) /\ j.stage = "flush")
    BY <1>4, <1>5 DEF Tells, RegistryInv, RowsInv
  <2>3. Transits(j, s) => Transits(r, s) /\ j.read = r.read BY <1>5 DEF Transits
  <2>4. Tells(r, s) => Tells(j, s) /\ j.stage = "flush" BY <1>5 DEF Tells
  <2>5. Waiting(s)' = Waiting(s) BY <1>4 DEF Waiting
  <2>6. QED BY <1>1, <1>4, <2>1, <2>2, <2>3, <2>4, <2>5, TopicAside DEF RegistryInv
<1>15. QED BY <1>11, <1>12, <1>13, <1>14 DEF RegistryInv, TopicInv

LEMMA FailKept ==
    ASSUME RegistryInv, NEW q \in Calls, Fail(q)
    PROVE  RegistryInv'
<1>1. /\ call' = [call EXCEPT ![q] = Idle]
      /\ UNCHANGED <<supplier, contact, moved, begun, outbox, topic, raced>>
      /\ (call[q].stage = "flush" /\ call[q].op \in Telling) => excused' = excused \cup {call[q].id}
      /\ ~(call[q].stage = "flush" /\ call[q].op \in Telling) => excused' = excused
  BY DEF Fail, tableVars
<1>2. excused \subseteq excused' /\ excused' \in SUBSET Suppliers
  <2>1. call[q].op \in Telling => call[q].id \in Suppliers
    BY DEF RegistryInv, CallsInv, Shape, Telling
  <2>2. QED BY <1>1, <2>1 DEF RegistryInv, RowsInv
<1>3. RowsInv' BY <1>1, <1>2 DEF RegistryInv, RowsInv
<1>4. CallsInv'
  <2>1. \A p \in Calls \ {q} : SupplierFits(call[p], supplier') /\ ContactFits(call[p], contact')
    BY <1>1 DEF RegistryInv, CallsInv
  <2>2. Shape(Idle) /\ SupplierFits(Idle, supplier') /\ ContactFits(Idle, contact')
    BY IdleFits
  <2>3. \A p \in Calls \ {q} : Apart(call[p], Idle) BY IdleFits DEF Apart
  <2>4. QED BY <1>1, <2>1, <2>2, <2>3, CallsKept DEF RegistryInv
<1>5. SecondsInv'
  <2>1. Met(Idle, Idle, raced') /\ \A p \in Calls \ {q} : Met(Idle, call[p], raced')
    BY IdleFits DEF Met
  <2>2. CreateSees(Idle, supplier, raced', moved) /\ PrimarySees(Idle, contact, raced')
    BY IdleFits
  <2>3. QED BY <1>1, <2>1, <2>2, SecondsAside DEF RegistryInv
<1>6. ASSUME NEW s \in Suppliers \ excused' PROVE TopicAt(s)'
  <2>1. TopicAt(s) BY <1>2 DEF RegistryInv, TopicInv
  <2>2. ~Transits(Idle, s) BY IdleFits
  <2>3. ~(Tells(call[q], s) /\ call[q].stage = "flush") BY <1>1 DEF Tells
  <2>4. Waiting(s)' = Waiting(s) BY <1>1 DEF Waiting
  <2>5. QED BY <1>1, <2>1, <2>2, <2>3, <2>4, TopicAside DEF RegistryInv
<1>7. QED BY <1>3, <1>4, <1>5, <1>6 DEF RegistryInv, TopicInv

-----------------------------------------------------------------------------
(* The relay. *)

(* It publishes the oldest event of an unexcused supplier; the last of them tells
   the status. *)
LEMMA RelayKept ==
    ASSUME RegistryInv, NEW m \in outbox, Relay(m)
    PROVE  RegistryInv'
<1>1. /\ UNCHANGED <<supplier, contact, moved, call, begun, raced>>
      /\ topic' = [topic EXCEPT ![m.of] = m.tells]
      /\ outbox' = outbox \/ outbox' = outbox \ {m}
      /\ excused' = excused \/ excused' = excused \cup {m.of}
      /\ (\E older \in Waiting(m.of) : older.at < m.at) => m.of \in excused'
  BY DEF Relay, tableVars
<1>2. m.of \in Suppliers /\ m.tells \in Onboarding /\ m.at \in Nat
  BY DEF RegistryInv, RowsInv, OutboxRow
<1>3. RowsInv'
  <2>1. topic' \in [Suppliers -> Onboarding \cup {"none"}]
    BY <1>1, <1>2 DEF RegistryInv, RowsInv
  <2>2. outbox' \in SUBSET OutboxRow /\ \A n \in outbox' : n \in outbox
    BY <1>1 DEF RegistryInv, RowsInv
  <2>3. excused' \in SUBSET Suppliers BY <1>1, <1>2 DEF RegistryInv, RowsInv
  <2>4. QED BY <1>1, <2>1, <2>2, <2>3 DEF RegistryInv, RowsInv
<1>4. CallsInv' BY <1>1 DEF RegistryInv, CallsInv
<1>5. SecondsInv' BY <1>1 DEF RegistryInv, SecondsInv, SecondsExcused
<1>6. ASSUME NEW s \in Suppliers \ excused' PROVE TopicAt(s)'
  <2>1. TopicAt(s) BY <1>1, <1>6 DEF RegistryInv, TopicInv
  <2>2. CASE s # m.of
    <3>1. Waiting(s)' = Waiting(s) BY <1>1, <2>2 DEF Waiting
    <3>2. topic'[s] = topic[s] BY <1>1, <2>2 DEF RegistryInv, RowsInv
    <3>3. QED BY <1>1, <2>1, <3>1, <3>2 DEF TopicAt
  <2>3. CASE s = m.of
    <3>1. \A n \in Waiting(s) : n \in outbox /\ n.at \in Nat
      BY DEF Waiting, RegistryInv, RowsInv, OutboxRow
    <3>2. \A n \in Waiting(s) : m.at <= n.at BY <1>1, <1>2, <1>6, <2>3, <3>1
    <3>3. m \in Waiting(s) BY <2>3 DEF Waiting
    <3>4. Waiting(s)' = Waiting(s) \/ Waiting(s)' = Waiting(s) \ {m}
      BY <1>1 DEF Waiting
    <3>5. topic'[s] = m.tells BY <1>1, <1>2, <2>3 DEF RegistryInv, RowsInv
    <3>6. ASSUME Waiting(s)' = {} PROVE topic'[s] = supplier[s].onboarding
      <4>1. \A n \in Waiting(s) : n = m BY <3>3, <3>4, <3>6
      <4>2. \A n \in Waiting(s) : n.at <= m.at BY <1>2, <4>1
      <4>3. m.tells = supplier[s].onboarding BY <2>1, <3>3, <4>2 DEF TopicAt
      <4>4. QED BY <3>5, <4>3
    <3>7. ASSUME NEW n \in Waiting(s)', \A o \in Waiting(s)' : o.at <= n.at
          PROVE  n.tells = supplier[s].onboarding
      <4>1. n \in Waiting(s) /\ m.at <= n.at BY <3>2, <3>4, <3>7
      <4>2. \A o \in Waiting(s) : o.at <= n.at BY <3>4, <3>7, <4>1
      <4>3. QED BY <2>1, <4>1, <4>2 DEF TopicAt
    <3>8. \A n \in Waiting(s)' : n \in Waiting(s) BY <3>4
    <3>9. QED BY <1>1, <2>1, <3>6, <3>7, <3>8 DEF TopicAt
  <2>4. QED BY <2>2, <2>3
<1>7. QED BY <1>3, <1>4, <1>5, <1>6 DEF RegistryInv, TopicInv

LEMMA GiveUpKept ==
    ASSUME RegistryInv, NEW m \in outbox, GiveUp(m)
    PROVE  RegistryInv'
<1>1. /\ UNCHANGED <<supplier, contact, moved, call, begun, topic, raced>>
      /\ outbox' = outbox \ {m} /\ excused' = excused \cup {m.of} /\ m.of \in Suppliers
  BY DEF GiveUp, tableVars, RegistryInv, RowsInv, OutboxRow
<1>2. RowsInv' BY <1>1 DEF RegistryInv, RowsInv
<1>3. CallsInv' BY <1>1 DEF RegistryInv, CallsInv
<1>4. SecondsInv' BY <1>1 DEF RegistryInv, SecondsInv, SecondsExcused
<1>5. ASSUME NEW s \in Suppliers \ excused' PROVE TopicAt(s)'
  <2>1. TopicAt(s) /\ s # m.of BY <1>1, <1>5 DEF RegistryInv, TopicInv
  <2>2. Waiting(s)' = Waiting(s) BY <1>1, <2>1 DEF Waiting
  <2>3. QED BY <1>1, <2>1, <2>2 DEF TopicAt
<1>6. QED BY <1>2, <1>3, <1>4, <1>5 DEF RegistryInv, TopicInv

-----------------------------------------------------------------------------
(* The commits. *)

Ruled == MovesLegal /\ DeletedStays

LEMMA StillRuled == UNCHANGED supplier => Ruled
<1> SUFFICES ASSUME UNCHANGED supplier PROVE Ruled OBVIOUS
<1>1. MovesLegal BY DEF MovesLegal
<1>2. DeletedStays BY DEF DeletedStays
<1>3. QED BY <1>1, <1>2 DEF Ruled

(* A supplier that was there keeps its country. *)
Same(now, was) == was \in SupplierRow /\ now.country = was.country

(* A commit inserts what it claimed, moves what it says, and leaves the rest. *)
LEMMA SecondsCommitted ==
    ASSUME RegistryInv, RowsInv', NEW q \in Calls, call' = [call EXCEPT ![q] = Idle],
           raced' = raced, moved \subseteq moved',
           \A t \in Suppliers : supplier'[t] \in SupplierRow =>
              Same(supplier'[t], supplier[t]) \/ t \in moved' \/ t \in Claims(call[q]),
           \A t \in Suppliers : t \in Claims(call[q]) =>
              /\ call[q].op = "create" /\ t = call[q].id
              /\ supplier'[t].country = call[q].row.country,
           \A d \in Contacts, s \in Suppliers : IsPrimary(contact'[d], s) =>
              IsPrimary(contact[d], s) \/ d \in Claims(call[q]),
           \A c, d \in Contacts, s \in Suppliers :
              (/\ c # d /\ IsPrimary(contact'[c], s) /\ ~IsPrimary(contact[c], s)
               /\ IsPrimary(contact'[d], s) /\ c \in Claims(call[q]))
                 => {c, d} \in raced
    PROVE  SecondsInv'
<1>1. /\ SecondsExcused /\ \A p, t \in Calls : Met(call[p], call[t], raced)
      /\ \A p \in Calls : CreateSees(call[p], supplier, raced, moved)
      /\ \A p \in Calls : PrimarySees(call[p], contact, raced)
  BY DEF RegistryInv, SecondsInv
<1>2. \A x, y : {x, y} = {y, x} OBVIOUS
<1>3. ASSUME NEW s \in Suppliers, NEW t \in Suppliers, s # t,
             supplier'[s].exists, supplier'[t].exists,
             supplier'[s].country = supplier'[t].country
      PROVE  {s, t} \in raced \/ s \in moved' \/ t \in moved'
  <2>1. supplier'[s] \in SupplierRow /\ supplier'[t] \in SupplierRow
    BY <1>3, RowsApart DEF RowsInv
  <2>2. ASSUME NEW x \in Suppliers, NEW y \in Suppliers, x # y, x \in Claims(call[q]),
               Same(supplier'[y], supplier[y]), supplier'[x].country = supplier'[y].country
        PROVE  {x, y} \in raced \/ y \in moved'
    BY <1>1, <2>2 DEF CreateSees, Same
  <2>3. CASE s \in moved' \/ t \in moved' BY <2>3
  <2>4. CASE s \in Claims(call[q]) /\ t \in Claims(call[q]) BY <1>1, <2>4 DEF Met
  <2>5. CASE s \in Claims(call[q]) /\ Same(supplier'[t], supplier[t]) BY <1>3, <2>2, <2>5
  <2>6. CASE t \in Claims(call[q]) /\ Same(supplier'[s], supplier[s])
    <3>1. {t, s} \in raced \/ s \in moved' BY <1>3, <2>2, <2>6
    <3>2. QED BY <1>2, <3>1
  <2>7. CASE Same(supplier'[s], supplier[s]) /\ Same(supplier'[t], supplier[t])
    BY <1>1, <1>3, <2>7, RowsApart DEF SecondsExcused, Same
  <2>8. QED BY <2>1, <2>3, <2>4, <2>5, <2>6, <2>7
<1>4. ASSUME NEW c \in Contacts, NEW d \in Contacts, c # d,
             contact'[c].exists, contact'[d].exists, contact'[c].of = contact'[d].of,
             contact'[c].primary, contact'[d].primary
      PROVE  {c, d} \in raced
  <2>1. contact'[c] \in ContactRow /\ contact'[d] \in ContactRow
    BY <1>4, RowsApart DEF RowsInv
  <2>2. PICK s \in Suppliers : s = contact'[c].of BY <2>1 DEF ContactRow
  <2>3. IsPrimary(contact'[c], s) /\ IsPrimary(contact'[d], s)
    BY <1>4, <2>1, <2>2 DEF IsPrimary, ContactRow
  <2>4. CASE IsPrimary(contact[c], s) /\ IsPrimary(contact[d], s)
    BY <1>1, <1>4, <2>4, RowsApart DEF SecondsExcused, IsPrimary
  <2>5. CASE ~IsPrimary(contact[c], s) BY <1>4, <2>3, <2>5
  <2>6. CASE ~IsPrimary(contact[d], s)
    <3>1. {d, c} \in raced BY <1>4, <2>3, <2>6
    <3>2. QED BY <1>2, <3>1
  <2>7. QED BY <2>4, <2>5, <2>6
<1>5. SecondsExcused' BY <1>3, <1>4 DEF SecondsExcused
<1>6. Met(Idle, Idle, raced') /\ \A p \in Calls \ {q} : Met(Idle, call[p], raced')
  BY IdleFits DEF Met
<1>7. CreateSees(Idle, supplier', raced', moved') /\ PrimarySees(Idle, contact', raced')
  BY IdleFits
<1>8. ASSUME NEW p \in Calls \ {q} PROVE CreateSees(call[p], supplier', raced', moved')
  <2>1. SUFFICES ASSUME call[p].op = "create", NEW t \in Suppliers,
                        supplier'[t] \in SupplierRow, supplier'[t].country = call[p].row.country
                 PROVE  {call[p].id, t} \in raced \/ t \in moved'
    BY DEF CreateSees
  <2>2. CASE Same(supplier'[t], supplier[t]) BY <1>1, <2>1, <2>2 DEF CreateSees, Same
  <2>3. CASE t \in Claims(call[q])
    <3>1. call[p].id \in Claims(call[p]) BY <2>1 DEF Claims
    <3>2. QED BY <1>1, <2>3, <3>1 DEF Met
  <2>4. QED BY <2>1, <2>2, <2>3
<1>9. ASSUME NEW p \in Calls \ {q} PROVE PrimarySees(call[p], contact', raced')
  <2>1. SUFFICES ASSUME call[p].op \in {"addContact", "updateContact"}, call[p].row.primary = TRUE,
                        NEW d \in Contacts \ {call[p].id}, IsPrimary(contact'[d], call[p].row.of)
                 PROVE  d \in call[p].want \/ d \in call[p].held \/ {call[p].id, d} \in raced
    BY DEF PrimarySees
  <2>2. call[p].row.of \in Suppliers
    BY <2>1 DEF IsPrimary, ContactRow
  <2>3. CASE IsPrimary(contact[d], call[p].row.of) BY <1>1, <2>1, <2>3 DEF PrimarySees
  <2>4. CASE d \in Claims(call[q])
    <3>1. call[p].id \in Claims(call[p]) BY <2>1 DEF Claims, ContactOp
    <3>2. QED BY <1>1, <2>4, <3>1 DEF Met
  <2>5. QED BY <2>1, <2>2, <2>3, <2>4
<1>10. CallsInv /\ SecondsInv BY DEF RegistryInv
<1>11. QED BY <1>5, <1>6, <1>7, <1>8, <1>9, <1>10, SecondsKept

(* The commit of a creation or a transition writes the newest event. *)
LEMMA TellingCommitted ==
    ASSUME RegistryInv, NEW q \in Calls, Commit(q), NEW s \in Suppliers, TopicAt(s),
           Tells(call[q], s), supplier'[s].onboarding = call[q].row.onboarding,
           \A m \in Waiting(s) : m.at < begun,
           \A p \in Calls \ {q} : ~Transits(call[p], s)
    PROVE  TopicAt(s)'
<1>1. PICK new : new = [of |-> s, tells |-> call[q].row.onboarding, at |-> begun] OBVIOUS
<1>2. /\ call' = [call EXCEPT ![q] = Idle] /\ begun' = begun /\ outbox' = outbox \cup {new}
  BY <1>1 DEF Commit, Tells
<1>3. new.of = s /\ new.tells = call[q].row.onboarding /\ new.at = begun /\ begun \in Nat
  BY <1>1, RegistryAssumption DEF RegistryInv, RowsInv
<1>4. Waiting(s)' = Waiting(s) \cup {new} BY <1>2, <1>3 DEF Waiting
<1>5. \A m \in Waiting(s) : m.at \in Nat
  BY DEF Waiting, RegistryInv, RowsInv, OutboxRow
<1>6. call'[q] = Idle /\ \A p \in Calls \ {q} : call'[p] = call[p]
  BY <1>2 DEF RegistryInv, CallsInv
<1>7. \A p \in Calls : ~Transits(call'[p], s) BY <1>6, IdleFits
<1>8. ASSUME NEW m \in Waiting(s)', \A n \in Waiting(s)' : n.at <= m.at
      PROVE  m.tells = supplier'[s].onboarding
  <2>1. begun <= m.at BY <1>3, <1>4, <1>8
  <2>2. m \notin Waiting(s) BY <1>3, <1>5, <2>1
  <2>3. m = new BY <1>4, <1>8, <2>2
  <2>4. QED BY <1>3, <2>3
<1>9. Waiting(s)' # {} BY <1>4
<1>10. QED BY <1>7, <1>8, <1>9 DEF TopicAt

(* Of the other suppliers a commit tells nothing. *)
LEMMA OtherTopic ==
    ASSUME RegistryInv, NEW q \in Calls, Commit(q), NEW t \in Suppliers, TopicAt(t),
           ~Tells(call[q], t), supplier'[t] \in SupplierRow => supplier[t] \in SupplierRow,
           supplier'[t].onboarding = supplier[t].onboarding
    PROVE  TopicAt(t)'
<1>1. /\ call' = [call EXCEPT ![q] = Idle] /\ begun' = begun /\ topic' = topic
  BY DEF Commit
<1>2. Waiting(t)' = Waiting(t)
  <2>1. outbox' = IF call[q].op \in Telling
                  THEN outbox \cup {[of |-> call[q].id, tells |-> call[q].row.onboarding,
                                     at |-> begun]}
                  ELSE outbox
    BY DEF Commit
  <2>2. CASE call[q].op \notin Telling BY <2>1, <2>2 DEF Waiting
  <2>3. CASE call[q].op \in Telling
    <3>1. PICK new : new = [of |-> call[q].id, tells |-> call[q].row.onboarding, at |-> begun]
      OBVIOUS
    <3>2. new.of # t BY <2>3, <3>1 DEF Tells
    <3>3. outbox' = outbox \cup {new} BY <2>1, <2>3, <3>1
    <3>4. QED BY <3>2, <3>3 DEF Waiting
  <2>4. QED BY <2>2, <2>3
<1>3. ~Transits(Idle, t) BY IdleFits
<1>4. QED BY <1>1, <1>2, <1>3, TopicAside DEF RegistryInv

(* The outbox row of a commit is typed and about a supplier that is there. *)
LEMMA OutboxKept ==
    ASSUME RegistryInv, NEW q \in Calls, Commit(q),
           \A s \in Suppliers : supplier[s] \in SupplierRow => supplier'[s] \in SupplierRow,
           call[q].op \in Telling => supplier'[call[q].id] \in SupplierRow
    PROVE  /\ outbox' \in SUBSET OutboxRow /\ begun' = begun
           /\ \A m \in outbox' : m.at <= begun' /\ supplier'[m.of] \in SupplierRow
<1>1. begun' = begun /\ begun \in 0..MaxCalls BY DEF Commit, RegistryInv, RowsInv
<1>2. \A m \in outbox : m \in OutboxRow /\ m.of \in Suppliers /\ m.at <= begun
                        /\ supplier'[m.of] \in SupplierRow
  BY DEF RegistryInv, RowsInv, OutboxRow
<1>3. CASE call[q].op \notin Telling
  <2>1. outbox' = outbox BY <1>3 DEF Commit
  <2>2. QED BY <1>1, <1>2, <2>1
<1>4. CASE call[q].op \in Telling
  <2>1. PICK new : new = [of |-> call[q].id, tells |-> call[q].row.onboarding, at |-> begun]
    OBVIOUS
  <2>2. outbox' = outbox \cup {new} BY <1>4, <2>1 DEF Commit
  <2>3. call[q].id \in Suppliers /\ call[q].row.onboarding \in Onboarding
    BY <1>4 DEF Telling, RegistryInv, CallsInv, Shape, SupplierRow
  <2>4. new \in OutboxRow /\ new.at = begun /\ new.of = call[q].id
    BY <1>1, <2>1, <2>3 DEF OutboxRow
  <2>5. new.at <= begun BY <1>1, <2>4, RegistryAssumption
  <2>6. QED BY <1>1, <1>2, <1>4, <2>2, <2>4, <2>5
<1>5. QED BY <1>3, <1>4

LEMMA HeldThere ==
    ASSUME RegistryInv, NEW p \in Calls
    PROVE  /\ \A c \in Contacts : c \in call[p].held => contact[c] \in ContactRow
           /\ \A s \in Suppliers : s \in call[p].held =>
                 /\ supplier[s] \in SupplierRow /\ supplier[s].deleted = FALSE
                 /\ call[p].op = "bulk"
           /\ \A c \in Contacts : c \in Inserts(call[p]) => contact[c] = NoRow
           /\ \A s \in Suppliers : s \in Inserts(call[p]) => supplier[s] \notin SupplierRow
<1>1. PICK r \in CallRow : /\ r = call[p] /\ Shape(r) /\ SupplierFits(r, supplier)
                          /\ ContactFits(r, contact)
  BY DEF RegistryInv, CallsInv
<1>2. r.op \in {"none", "update", "delete", "transition", "create", "bulk"} \cup ContactOp
  BY DEF CallRow, Op, RowOp
<1>3. \A c \in Contacts : c \notin Suppliers BY RegistryAssumption
<1>4. \A c \in Contacts : c \in r.held => r.op \in ContactOp
  BY <1>1, <1>2, <1>3 DEF Shape
<1>5. \A s \in Suppliers : s \in r.held => r.op = "bulk"
  BY <1>1, <1>2, <1>3 DEF Shape
<1>6. \A c \in Contacts : c \in Inserts(r) => contact[c] = NoRow
  BY <1>1, <1>3 DEF Shape, ContactFits, Inserts
<1>7. \A s \in Suppliers : s \in Inserts(r) => supplier[s] \notin SupplierRow
  BY <1>1, <1>3 DEF Shape, SupplierFits, Inserts, ContactOp
<1>8. QED BY <1>1, <1>4, <1>5, <1>6, <1>7 DEF ContactFits, SupplierFits

(* The request that commits is done; what is left is how the tables move. *)
LEMMA CallsCommitted ==
    ASSUME RegistryInv, NEW q \in Calls, call' = [call EXCEPT ![q] = Idle],
           \A s \in Suppliers : supplier[s] \in SupplierRow => supplier'[s] \in SupplierRow,
           \A c \in Contacts : contact[c] # NoRow => contact'[c] # NoRow,
           \A c \in Contacts : (contact[c] # NoRow /\ contact'[c] \in ContactRow) =>
              contact[c] \in ContactRow /\ contact'[c].of = contact[c].of,
           \A p \in Calls \ {q} :
              /\ \A s \in Suppliers :
                    s \in Inserts(call[p]) \cup call[p].held => supplier'[s] = supplier[s]
              /\ \A c \in Contacts : c \in Inserts(call[p]) => contact'[c] = contact[c]
              /\ \A c \in Contacts : c \in call[p].held => contact'[c] \in ContactRow
    PROVE  CallsInv'
<1>1. ASSUME NEW p \in Calls \ {q}
      PROVE  SupplierFits(call[p], supplier') /\ ContactFits(call[p], contact')
  <2>1. Shape(call[p]) /\ SupplierFits(call[p], supplier) /\ ContactFits(call[p], contact)
    BY DEF RegistryInv, CallsInv
  <2>2. PICK r, sup, sup2, con, con2 : r = call[p] /\ sup = supplier /\ sup2 = supplier'
                                    /\ con = contact /\ con2 = contact'
    OBVIOUS
  <2>3. Shape(r) /\ SupplierFits(r, sup) /\ ContactFits(r, con) BY <2>1, <2>2
  <2>4. /\ \A s \in Suppliers : sup[s] \in SupplierRow => sup2[s] \in SupplierRow
        /\ \A s \in Suppliers : s \in Inserts(r) \cup r.held => sup2[s] = sup[s]
    BY <2>2
  <2>5. /\ \A c \in Contacts : con[c] # NoRow => con2[c] # NoRow
        /\ \A c \in Contacts : (con[c] # NoRow /\ con2[c] \in ContactRow) =>
              con[c] \in ContactRow /\ con2[c].of = con[c].of
        /\ \A c \in Contacts : c \in Inserts(r) => con2[c] = con[c]
        /\ \A c \in Contacts : c \in r.held => con2[c] \in ContactRow
    BY <2>2
  <2>6. SupplierFits(r, sup2) /\ ContactFits(r, con2) BY <2>3, <2>4, <2>5, FitsKept
  <2>7. QED BY <2>2, <2>6
<1>2. Shape(Idle) /\ SupplierFits(Idle, supplier') /\ ContactFits(Idle, contact')
  BY IdleFits
<1>3. \A p \in Calls \ {q} : Apart(call[p], Idle) BY IdleFits DEF Apart
<1>4. QED BY <1>1, <1>2, <1>3, CallsKept DEF RegistryInv

LEMMA CommitSupplierKept ==
    ASSUME RegistryInv, NEW q \in Calls, Commit(q), CommitSupplier(q)
    PROVE  RegistryInv' /\ Ruled
<1>1. PICK r \in CallRow : r = call[q] BY DEF RegistryInv, CallsInv
<1>2. Shape(r) /\ SupplierFits(r, supplier) BY <1>1 DEF RegistryInv, CallsInv
<1>3. PICK s : s = r.id OBVIOUS
<1>4. /\ r.op \in {"update", "delete", "transition"} /\ Free({s}, q) /\ r.stage = "flush"
      /\ supplier' = [supplier EXCEPT ![s] = Merge(supplier[s], r.read, r.row)]
      /\ UNCHANGED <<contact, topic, excused, raced>> /\ call' = [call EXCEPT ![q] = Idle]
      /\ moved' = IF supplier'[s].country # supplier[s].country THEN moved \cup {s} ELSE moved
  BY <1>1, <1>3 DEF Commit, CommitSupplier, RowOp
<1>5. /\ s \in Suppliers /\ r.row \in SupplierRow /\ r.read \in SupplierRow
      /\ r.read.deleted = FALSE /\ supplier[s] \in SupplierRow
      /\ IF r.op = "transition" THEN r.row.onboarding \in NextOf(r.read.onboarding)
         ELSE r.row.onboarding = r.read.onboarding
  BY <1>2, <1>3, <1>4 DEF Shape, SupplierFits
<1>6. PICK m \in SupplierRow :
         /\ m = Merge(supplier[s], r.read, r.row)
         /\ m.onboarding = IF r.row.onboarding # r.read.onboarding THEN r.row.onboarding
                           ELSE supplier[s].onboarding
  BY <1>5, SupplierMerged
<1>7. supplier'[s] = m /\ \A t \in Suppliers \ {s} : supplier'[t] = supplier[t]
  BY <1>4, <1>5, <1>6 DEF RegistryInv, RowsInv
<1>8. RowsInv'
  <2>1. supplier' \in [Suppliers -> SupplierRow \cup {NoRow}]
    BY <1>4, <1>6 DEF RegistryInv, RowsInv
  <2>2. r.op \in Telling => supplier'[r.id] \in SupplierRow BY <1>3, <1>6, <1>7
  <2>3. \A t \in Suppliers : supplier[t] \in SupplierRow => supplier'[t] \in SupplierRow
    BY <1>6, <1>7
  <2>4. /\ outbox' \in SUBSET OutboxRow /\ begun' = begun
        /\ \A n \in outbox' : n.at <= begun' /\ supplier'[n.of] \in SupplierRow
    BY <1>1, <2>2, <2>3, OutboxKept
  <2>5. \A c \in Contacts : contact'[c] \in ContactRow => supplier'[contact'[c].of] \in SupplierRow
    BY <1>4, <2>3 DEF RegistryInv, RowsInv, ContactRow
  <2>6. moved' \in SUBSET Suppliers BY <1>4, <1>5 DEF RegistryInv, RowsInv
  <2>7. QED BY <1>4, <2>1, <2>4, <2>5, <2>6 DEF RegistryInv, RowsInv
<1>9. CallsInv'
  <2>1. ASSUME NEW p \in Calls \ {q}
        PROVE  /\ \A t \in Suppliers :
                    t \in Inserts(call[p]) \cup call[p].held => supplier'[t] = supplier[t]
               /\ \A c \in Contacts : c \in Inserts(call[p]) => contact'[c] = contact[c]
               /\ \A c \in Contacts : c \in call[p].held => contact'[c] \in ContactRow
    <3>1. s \notin call[p].held BY <1>4 DEF Free
    <3>2. s \notin Inserts(call[p]) BY <1>5, HeldThere
    <3>3. QED BY <1>4, <1>7, <3>1, <3>2, HeldThere
  <2>2. \A t \in Suppliers : supplier[t] \in SupplierRow => supplier'[t] \in SupplierRow
    BY <1>7
  <2>3. QED BY <1>4, <2>1, <2>2, CallsCommitted
<1>10. ASSUME NEW t \in Suppliers \ excused' PROVE TopicAt(t)'
  <2>1. TopicAt(t) BY <1>4 DEF RegistryInv, TopicInv
  <2>2. supplier'[t] \in SupplierRow => supplier[t] \in SupplierRow BY <1>5, <1>7
  <2>3. CASE ~Transits(r, t)
    <3>1. supplier'[t].onboarding = supplier[t].onboarding
      BY <1>3, <1>4, <1>5, <1>6, <1>7, <2>3 DEF Transits
    <3>2. ~Tells(r, t) BY <1>4, <2>3 DEF Tells, Transits, Telling
    <3>3. QED BY <1>1, <2>1, <2>2, <3>1, <3>2, OtherTopic
  <2>4. CASE Transits(r, t)
    <3>1. t = s /\ Tells(r, t) BY <1>3, <2>4 DEF Transits, Tells, Telling
    <3>2. r.read.onboarding = supplier[s].onboarding /\ \A n \in Waiting(t) : n.at < begun
      BY <1>1, <2>1, <2>4, <3>1 DEF TopicAt
    <3>3. supplier'[t].onboarding = r.row.onboarding BY <1>6, <1>7, <3>1, <3>2
    <3>4. \A p \in Calls \ {q} : ~Transits(call[p], t) BY <1>1, <2>1, <2>4 DEF TopicAt
    <3>5. QED BY <1>1, <2>1, <3>1, <3>2, <3>3, <3>4, TellingCommitted
  <2>5. QED BY <2>3, <2>4
<1>11. Ruled
  <2>1. Committing(q)
    BY <1>1, <1>4, IdleFits DEF Committing, RegistryInv, CallsInv
  <2>2. MovesLegal
    <3>1. ASSUME NEW t \in Suppliers, supplier[t].exists
          PROVE  \/ supplier'[t].onboarding \in NextOf(supplier[t].onboarding) \cup {supplier[t].onboarding}
                 \/ \E p \in Calls : /\ Committing(p) /\ call[p].op = "transition" /\ call[p].id = t
                                     /\ call[p].read.onboarding # supplier[t].onboarding
      <4>1. CASE t # s BY <1>7, <4>1
      <4>2. CASE t = s /\ r.op # "transition" BY <1>5, <1>6, <1>7, <4>2
      <4>3. CASE t = s /\ r.op = "transition"
        BY <1>1, <1>3, <1>5, <1>6, <1>7, <2>1, <4>3
      <4>4. QED BY <4>1, <4>2, <4>3
    <3>2. QED BY <3>1 DEF MovesLegal
  <2>3. DeletedStays BY <1>1, <1>3, <1>5, <1>7, <2>1 DEF DeletedStays
  <2>4. QED BY <2>2, <2>3 DEF Ruled
<1>12. SecondsInv'
  <2>1. Claims(r) = {} BY <1>4 DEF Claims, ContactOp
  <2>2. \A t \in Suppliers : supplier'[t] \in SupplierRow =>
           Same(supplier'[t], supplier[t]) \/ t \in moved'
    BY <1>4, <1>5, <1>7 DEF Same
  <2>3. moved \subseteq moved' BY <1>4
  <2>4. QED BY <1>1, <1>4, <1>8, <2>1, <2>2, <2>3, SecondsCommitted
<1>13. QED BY <1>8, <1>9, <1>10, <1>11, <1>12 DEF RegistryInv, TopicInv

LEMMA CommitBulkKept ==
    ASSUME RegistryInv, NEW q \in Calls, Commit(q), CommitBulk(q)
    PROVE  RegistryInv' /\ Ruled
<1>1. PICK r \in CallRow : r = call[q] BY DEF RegistryInv, CallsInv
<1>2. Shape(r) BY <1>1 DEF RegistryInv, CallsInv
<1>3. /\ r.op = "bulk" /\ r.stage = "flush" /\ call' = [call EXCEPT ![q] = Idle]
      /\ supplier' = [s \in Suppliers |->
            IF s \in r.held THEN [supplier[s] EXCEPT !.status = r.arg] ELSE supplier[s]]
      /\ UNCHANGED <<contact, moved, topic, excused, raced>>
  BY <1>1 DEF Commit, CommitBulk
<1>4. ASSUME NEW s \in Suppliers, s \in r.held
      PROVE  /\ supplier[s] \in SupplierRow /\ supplier[s].deleted = FALSE
             /\ supplier'[s] \in SupplierRow /\ supplier'[s].onboarding = supplier[s].onboarding
             /\ supplier'[s].country = supplier[s].country
  <2>1. supplier[s] \in SupplierRow /\ supplier[s].deleted = FALSE BY <1>1, <1>4, HeldThere
  <2>2. r.arg \in Status BY <1>2, <1>3, RegistryAssumption DEF Shape, Status, VALID_STATUSES
  <2>3. supplier'[s] = [supplier[s] EXCEPT !.status = r.arg] BY <1>3, <1>4
  <2>4. QED BY <2>1, <2>2, <2>3 DEF SupplierRow
<1>5. \A s \in Suppliers : s \notin r.held => supplier'[s] = supplier[s] BY <1>3
<1>6. RowsInv'
  <2>1. \A s \in Suppliers : supplier'[s] \in SupplierRow \cup {NoRow}
    BY <1>4, <1>5 DEF RegistryInv, RowsInv
  <2>2. supplier' \in [Suppliers -> SupplierRow \cup {NoRow}] BY <1>3, <2>1
  <2>3. \A t \in Suppliers : supplier[t] \in SupplierRow => supplier'[t] \in SupplierRow
    BY <1>4, <1>5
  <2>4. r.op \notin Telling BY <1>3 DEF Telling
  <2>5. /\ outbox' \in SUBSET OutboxRow /\ begun' = begun
        /\ \A n \in outbox' : n.at <= begun' /\ supplier'[n.of] \in SupplierRow
    BY <1>1, <2>3, <2>4, OutboxKept
  <2>6. \A c \in Contacts : contact'[c] \in ContactRow => supplier'[contact'[c].of] \in SupplierRow
    BY <1>3, <2>3 DEF RegistryInv, RowsInv, ContactRow
  <2>7. QED BY <1>3, <2>2, <2>5, <2>6 DEF RegistryInv, RowsInv
<1>7. CallsInv'
  <2>1. ASSUME NEW p \in Calls \ {q}
        PROVE  /\ \A t \in Suppliers :
                    t \in Inserts(call[p]) \cup call[p].held => supplier'[t] = supplier[t]
               /\ \A c \in Contacts : c \in Inserts(call[p]) => contact'[c] = contact[c]
               /\ \A c \in Contacts : c \in call[p].held => contact'[c] \in ContactRow
    <3>1. call[p].held \cap r.held = {} BY <1>1 DEF RegistryInv, CallsInv, Apart
    <3>2. \A t \in Suppliers : t \in Inserts(call[p]) => t \notin r.held BY <1>4, HeldThere
    <3>3. QED BY <1>3, <1>5, <3>1, <3>2, HeldThere
  <2>2. \A t \in Suppliers : supplier[t] \in SupplierRow => supplier'[t] \in SupplierRow
    BY <1>4, <1>5
  <2>3. QED BY <1>3, <2>1, <2>2, CallsCommitted
<1>8. ASSUME NEW t \in Suppliers \ excused' PROVE TopicAt(t)'
  <2>1. TopicAt(t) BY <1>3 DEF RegistryInv, TopicInv
  <2>2. supplier'[t].onboarding = supplier[t].onboarding BY <1>4, <1>5
  <2>3. supplier'[t] \in SupplierRow => supplier[t] \in SupplierRow BY <1>4, <1>5
  <2>4. ~Tells(r, t) BY <1>3 DEF Tells, Telling
  <2>5. QED BY <1>1, <2>1, <2>2, <2>3, <2>4, OtherTopic
<1>9. Ruled
  <2>1. MovesLegal BY <1>4, <1>5 DEF MovesLegal
  <2>2. DeletedStays BY <1>4, <1>5 DEF DeletedStays
  <2>3. QED BY <2>1, <2>2 DEF Ruled
<1>10. SecondsInv'
  <2>1. Claims(r) = {} BY <1>3 DEF Claims, ContactOp
  <2>2. \A t \in Suppliers : supplier'[t] \in SupplierRow => Same(supplier'[t], supplier[t])
    BY <1>4, <1>5 DEF Same
  <2>3. QED BY <1>1, <1>3, <1>6, <2>1, <2>2, SecondsCommitted
<1>11. QED BY <1>6, <1>7, <1>8, <1>9, <1>10 DEF RegistryInv, TopicInv

LEMMA CommitCreateKept ==
    ASSUME RegistryInv, NEW q \in Calls, Commit(q), CommitCreate(q)
    PROVE  RegistryInv' /\ Ruled
<1>1. PICK r \in CallRow : r = call[q] BY DEF RegistryInv, CallsInv
<1>2. Shape(r) /\ SupplierFits(r, supplier) /\ ContactFits(r, contact)
  BY <1>1 DEF RegistryInv, CallsInv
<1>3. PICK s : s = r.id OBVIOUS
<1>4. PICK new : new = [exists |-> TRUE, of |-> s, primary |-> TRUE] OBVIOUS
<1>5. /\ r.op = "create" /\ r.stage = "flush" /\ call' = [call EXCEPT ![q] = Idle]
      /\ supplier' = [supplier EXCEPT ![s] = r.row]
      /\ contact' = [c \in Contacts |-> IF c \in r.arg THEN new ELSE contact[c]]
      /\ UNCHANGED <<moved, topic, excused, raced>>
  BY <1>1, <1>3, <1>4 DEF Commit, CommitCreate
<1>6. /\ s \in Suppliers /\ r.row \in SupplierRow /\ r.arg \in SUBSET Contacts
      /\ supplier[s] \notin SupplierRow
      /\ \A c \in r.arg : contact[c] = NoRow
  BY <1>2, <1>3, <1>5 DEF Shape, SupplierFits, ContactFits
<1>7. new \in ContactRow /\ new.of = s /\ new # NoRow BY RowsApart, <1>4, <1>6 DEF ContactRow
<1>8. /\ supplier'[s] = r.row /\ \A t \in Suppliers \ {s} : supplier'[t] = supplier[t]
      /\ \A c \in Contacts : contact'[c] = IF c \in r.arg THEN new ELSE contact[c]
  BY <1>5, <1>6 DEF RegistryInv, RowsInv
<1>9. RowsInv'
  <2>1. supplier' \in [Suppliers -> SupplierRow \cup {NoRow}]
    BY <1>5, <1>6 DEF RegistryInv, RowsInv
  <2>2. \A c \in Contacts : contact'[c] \in ContactRow \cup {NoRow, Gone}
    BY <1>7, <1>8 DEF RegistryInv, RowsInv
  <2>3. contact' \in [Contacts -> ContactRow \cup {NoRow, Gone}] BY <1>5, <2>2
  <2>4. \A t \in Suppliers : supplier[t] \in SupplierRow => supplier'[t] \in SupplierRow
    BY <1>6, <1>8
  <2>5. supplier'[r.id] \in SupplierRow BY <1>3, <1>6, <1>8
  <2>6. /\ outbox' \in SUBSET OutboxRow /\ begun' = begun
        /\ \A n \in outbox' : n.at <= begun' /\ supplier'[n.of] \in SupplierRow
    BY <1>1, <2>4, <2>5, OutboxKept
  <2>7. \A c \in Contacts : contact'[c] \in ContactRow => supplier'[contact'[c].of] \in SupplierRow
    BY <1>3, <1>7, <1>8, <2>4, <2>5 DEF RegistryInv, RowsInv, ContactRow
  <2>8. QED BY <1>5, <2>1, <2>3, <2>6, <2>7 DEF RegistryInv, RowsInv
<1>10. CallsInv'
  <2>1. ASSUME NEW p \in Calls \ {q}
        PROVE  /\ \A t \in Suppliers :
                    t \in Inserts(call[p]) \cup call[p].held => supplier'[t] = supplier[t]
               /\ \A c \in Contacts : c \in Inserts(call[p]) => contact'[c] = contact[c]
               /\ \A c \in Contacts : c \in call[p].held => contact'[c] \in ContactRow
    <3>1. Inserts(call[p]) \cap Inserts(r) = {} BY <1>1 DEF RegistryInv, CallsInv, Apart
    <3>2. Inserts(r) = {s} \cup r.arg BY <1>3, <1>5 DEF Inserts
    <3>3. s \notin call[p].held BY <1>6, HeldThere
    <3>4. \A c \in r.arg : c \notin call[p].held BY <1>6, HeldThere, RowsApart
    <3>5. QED BY <1>8, <3>1, <3>2, <3>3, <3>4, HeldThere
  <2>2. \A t \in Suppliers : supplier[t] \in SupplierRow => supplier'[t] \in SupplierRow
    BY <1>6, <1>8
  <2>3. \A c \in Contacts : contact[c] # NoRow => contact'[c] # NoRow BY <1>6, <1>8
  <2>4. \A c \in Contacts : (contact[c] # NoRow /\ contact'[c] \in ContactRow) =>
           contact[c] \in ContactRow /\ contact'[c].of = contact[c].of
    BY <1>6, <1>8
  <2>5. QED BY <1>5, <2>1, <2>2, <2>3, <2>4, CallsCommitted
<1>11. ASSUME NEW t \in Suppliers \ excused' PROVE TopicAt(t)'
  <2>1. TopicAt(t) BY <1>5 DEF RegistryInv, TopicInv
  <2>2. CASE t # s
    <3>1. supplier'[t] = supplier[t] BY <1>8, <2>2
    <3>2. ~Tells(r, t) BY <1>3, <2>2 DEF Tells
    <3>3. QED BY <1>1, <2>1, <3>1, <3>2, OtherTopic
  <2>3. CASE t = s
    <3>1. Tells(r, t) /\ supplier'[t].onboarding = r.row.onboarding
      BY <1>3, <1>5, <1>8, <2>3 DEF Tells, Telling
    <3>2. \A n \in Waiting(t) : n.at < begun
      <4>1. Waiting(t) = {} BY <1>6, <2>3 DEF Waiting, RegistryInv, RowsInv
      <4>2. QED BY <4>1
    <3>3. \A p \in Calls : ~Transits(call[p], t)
      BY <1>6, <2>3 DEF RegistryInv, CallsInv, SupplierFits, Transits
    <3>4. QED BY <1>1, <2>1, <3>1, <3>2, <3>3, TellingCommitted
  <2>4. QED BY <2>2, <2>3
<1>12. Ruled
  <2>1. supplier[s] = NoRow BY <1>6 DEF RegistryInv, RowsInv
  <2>2. \A t \in Suppliers : supplier[t].exists => supplier'[t] = supplier[t]
    BY <1>8, <2>1, RowsApart
  <2>3. MovesLegal BY <2>2 DEF MovesLegal
  <2>4. DeletedStays BY <2>2 DEF DeletedStays
  <2>5. QED BY <2>3, <2>4 DEF Ruled
<1>13. SecondsInv'
  <2>1. Claims(r) = {s} \cup r.arg BY <1>3, <1>5 DEF Claims
  <2>2. \A t \in Suppliers : supplier'[t] \in SupplierRow =>
           Same(supplier'[t], supplier[t]) \/ t \in moved' \/ t \in Claims(r)
    BY <1>8, <2>1 DEF Same
  <2>3. \A t \in Suppliers : t \in Claims(r) =>
           r.op = "create" /\ t = r.id /\ supplier'[t].country = r.row.country
    BY <1>3, <1>5, <1>6, <1>8, <2>1, RegistryAssumption
  <2>4. \A d \in Contacts, x \in Suppliers : IsPrimary(contact'[d], x) =>
           IsPrimary(contact[d], x) \/ d \in Claims(r)
    BY <1>8, <2>1
  <2>5. ASSUME NEW c \in Contacts, NEW d \in Contacts, NEW x \in Suppliers, c # d,
               IsPrimary(contact'[c], x), IsPrimary(contact'[d], x), ~IsPrimary(contact[c], x)
        PROVE  {c, d} \in raced
    <3>1. c \in r.arg /\ x = s BY <1>7, <1>8, <2>5 DEF IsPrimary
    <3>2. d \in r.arg
      <4>1. contact[d] \in ContactRow => contact[d].of # s
        BY <1>6 DEF RegistryInv, RowsInv
      <4>2. QED BY <1>8, <2>5, <3>1, <4>1 DEF IsPrimary
    <3>3. Met(r, r, raced) BY <1>1 DEF RegistryInv, SecondsInv
    <3>4. QED BY <2>1, <3>1, <3>2, <3>3 DEF Met
  <2>6. QED BY <1>1, <1>5, <1>9, <2>2, <2>3, <2>4, <2>5, SecondsCommitted
<1>14. QED BY <1>9, <1>10, <1>11, <1>12, <1>13 DEF RegistryInv, TopicInv

(* What the commit of a request about a contact leaves in the rows. *)
ContactMoves(q, c) ==
    /\ \A d \in Contacts \ {c} :
          contact'[d] = IF d \in call[q].held THEN [contact[d] EXCEPT !.primary = FALSE]
                        ELSE contact[d]
    /\ contact'[c] \in ContactRow \cup {Gone}
    /\ (contact[c] # NoRow /\ contact'[c] \in ContactRow) =>
          contact[c] \in ContactRow /\ contact'[c].of = contact[c].of
    /\ contact'[c] \in ContactRow => /\ supplier[contact'[c].of] \in SupplierRow
                                     /\ contact'[c] = contact[c] \/ contact'[c].of = call[q].row.of
    /\ \/ contact'[c] = contact[c]
       \/ contact'[c].exists = FALSE
       \/ contact'[c].primary = FALSE
       \/ call[q].op \in {"addContact", "updateContact"} /\ call[q].row.primary = TRUE
    /\ contact'[c] = contact[c] \/ Free({c}, q)

LEMMA ContactWritten ==
    ASSUME RegistryInv, NEW q \in Calls, Commit(q), CommitContact(q),
           NEW c \in Contacts, c = call[q].id
    PROVE  ContactMoves(q, c)
<1>1. PICK r \in CallRow : r = call[q] BY DEF RegistryInv, CallsInv
<1>2. Shape(r) /\ ContactFits(r, contact) /\ SupplierFits(r, supplier)
  BY <1>1 DEF RegistryInv, CallsInv
<1>3. PICK now : now = contact[c] OBVIOUS
<1>4. PICK w : w = Written(q, now) OBVIOUS
<1>5. /\ r.op \in ContactOp /\ r.id = c /\ c \notin r.held
      /\ r.row # r.read => Free({c}, q)
      /\ (r.row # r.read /\ r.op = "updateContact") => contact[c].exists
  BY <1>1, <1>2 DEF CommitContact, Shape
<1>6. Demoted(q, contact) = [d \in Contacts |->
         IF d \in r.held THEN [contact[d] EXCEPT !.primary = FALSE] ELSE contact[d]]
  BY <1>1 DEF Demoted
<1>7. PICK D : D = Demoted(q, contact) OBVIOUS
<1>8. /\ DOMAIN D = Contacts /\ D[c] = now
      /\ \A d \in Contacts : D[d] = IF d \in r.held THEN [contact[d] EXCEPT !.primary = FALSE]
                                    ELSE contact[d]
  BY <1>3, <1>5, <1>6, <1>7
<1>9. contact' = [D EXCEPT ![c] = w]
  <2>1. contact' = [D EXCEPT ![c] = Written(q, D[c])]
    BY <1>1, <1>5, <1>7 DEF CommitContact
  <2>2. QED BY <2>1, <1>4, <1>8
<1>10. /\ contact'[c] = w /\ \A d \in Contacts \ {c} : contact'[d] = D[d]
  BY <1>6, <1>7, <1>9
<1>11. /\ now \in ContactRow \cup {NoRow, Gone}
       /\ now \in ContactRow => supplier[now.of] \in SupplierRow
  BY <1>3 DEF RegistryInv, RowsInv
<1>12. w = IF r.op = "updateContact" /\ now.exists THEN Merge(now, r.read, r.row)
           ELSE IF r.op = "updateContact" THEN now ELSE r.row
  BY <1>1, <1>4 DEF Written
<1>13. /\ w \in ContactRow \cup {Gone}
       /\ (now # NoRow /\ w \in ContactRow) => now \in ContactRow /\ w.of = now.of
       /\ w \in ContactRow => /\ supplier[w.of] \in SupplierRow
                              /\ w = now \/ w.of = r.row.of
       /\ \/ w = now \/ w.exists = FALSE \/ w.primary = FALSE
          \/ r.op \in {"addContact", "updateContact"} /\ r.row.primary = TRUE
       /\ w = now \/ Free({c}, q)
  <2>1. CASE r.op = "addContact"
    <3>1. /\ w = r.row /\ r.row \in ContactRow /\ r.read = NoRow /\ now = NoRow
          /\ r.row.primary \in BOOLEAN /\ supplier[r.row.of] \in SupplierRow
      BY <1>2, <1>3, <1>5, <1>12, <2>1 DEF Shape, ContactFits, SupplierFits, ContactRow
    <3>2. QED BY <1>5, <2>1, <3>1, RowsApart
  <2>2. CASE r.op = "deleteContact"
    <3>1. w = Gone /\ r.row = Gone /\ r.read \in ContactRow BY <1>2, <1>12, <2>2 DEF Shape
    <3>2. QED BY <1>5, <3>1, RowsApart
  <2>3. CASE r.op = "updateContact"
    <3>1. /\ r.row \in ContactRow /\ r.read \in ContactRow /\ r.row.of = r.read.of
          /\ now # NoRow
          /\ now \in ContactRow => now.of = r.row.of
      BY <1>2, <1>3, <1>5, <2>3 DEF Shape, ContactFits
    <3>2. CASE now = Gone
      <4>1. w = now BY <1>12, <2>3, <3>2, RowsApart
      <4>2. QED BY <3>2, <4>1, RowsApart
    <3>3. CASE now \in ContactRow
      <4>1. w = Merge(now, r.read, r.row) BY <1>12, <2>3, <3>3, RowsApart
      <4>2. /\ w \in ContactRow /\ w.of = now.of
            /\ (r.row = r.read \/ r.row.primary = FALSE) => w = now \/ w.primary = FALSE
            /\ r.row = r.read => w = now
        BY <3>1, <3>3, <4>1, ContactMerged
      <4>3. r.row.primary \in BOOLEAN BY <3>1 DEF ContactRow
      <4>4. now # Gone BY <3>3, RowsApart
      <4>5. QED BY <1>5, <1>11, <2>3, <3>1, <3>3, <4>2, <4>3, <4>4
    <3>4. QED BY <1>11, <3>1, <3>2, <3>3
  <2>4. QED BY <1>5, <2>1, <2>2, <2>3 DEF ContactOp
<1>14. QED BY <1>1, <1>3, <1>8, <1>10, <1>13 DEF ContactMoves

LEMMA CommitContactKept ==
    ASSUME RegistryInv, NEW q \in Calls, Commit(q), CommitContact(q)
    PROVE  RegistryInv' /\ Ruled
<1>1. PICK r \in CallRow : r = call[q] BY DEF RegistryInv, CallsInv
<1>2. Shape(r) /\ ContactFits(r, contact) BY <1>1 DEF RegistryInv, CallsInv
<1>3. /\ r.op \in ContactOp /\ r.stage = "flush" /\ call' = [call EXCEPT ![q] = Idle]
      /\ UNCHANGED <<supplier, moved, topic, excused, raced>>
  BY <1>1 DEF Commit, CommitContact
<1>4. PICK c \in Contacts : c = r.id BY <1>2, <1>3 DEF Shape
<1>5. \A d \in r.held : d \in Contacts /\ d # c /\ contact[d] \in ContactRow
  BY <1>2, <1>3, <1>4 DEF Shape, ContactFits
<1>a. ContactMoves(q, c) BY <1>1, <1>4, ContactWritten
<1>6. /\ \A d \in Contacts \ {c} :
            contact'[d] = IF d \in r.held THEN [contact[d] EXCEPT !.primary = FALSE]
                          ELSE contact[d]
      /\ contact'[c] \in ContactRow \cup {Gone}
      /\ (contact[c] # NoRow /\ contact'[c] \in ContactRow) =>
            contact[c] \in ContactRow /\ contact'[c].of = contact[c].of
      /\ contact'[c] \in ContactRow => /\ supplier[contact'[c].of] \in SupplierRow
                                       /\ contact'[c] = contact[c] \/ contact'[c].of = r.row.of
      /\ \/ contact'[c] = contact[c]
         \/ contact'[c].exists = FALSE
         \/ contact'[c].primary = FALSE
         \/ r.op \in {"addContact", "updateContact"} /\ r.row.primary = TRUE
      /\ contact'[c] = contact[c] \/ Free({c}, q)
  BY <1>1, <1>a DEF ContactMoves
<1>7. ASSUME NEW d \in Contacts, d \in r.held
      PROVE  /\ contact'[d] \in ContactRow /\ contact'[d].primary = FALSE
             /\ contact[d] \in ContactRow /\ contact'[d].of = contact[d].of
  <2>1. contact'[d] = [contact[d] EXCEPT !.primary = FALSE] /\ contact[d] \in ContactRow
    BY <1>5, <1>6, <1>7
  <2>2. QED BY <2>1 DEF ContactRow
<1>8. \A d \in Contacts \ {c} : d \notin r.held => contact'[d] = contact[d] BY <1>6
<1>9. RowsInv'
  <2>1. \A d \in Contacts : contact'[d] \in ContactRow \cup {NoRow, Gone}
    BY <1>6, <1>7, <1>8 DEF RegistryInv, RowsInv
  <2>2. DOMAIN contact' = Contacts /\ contact' = [d \in DOMAIN contact' |-> contact'[d]]
    <3>1. contact' = [Demoted(q, contact) EXCEPT ![call[q].id] = Written(q, @)]
      BY DEF CommitContact
    <3>2. QED BY <3>1 DEF Demoted
  <2>3. contact' \in [Contacts -> ContactRow \cup {NoRow, Gone}] BY <2>1, <2>2
  <2>4. r.op \notin Telling BY <1>3 DEF Telling, ContactOp
  <2>5. /\ outbox' \in SUBSET OutboxRow /\ begun' = begun
        /\ \A n \in outbox' : n.at <= begun' /\ supplier'[n.of] \in SupplierRow
    BY <1>1, <1>3, <2>4, OutboxKept
  <2>6. ASSUME NEW d \in Contacts, contact'[d] \in ContactRow
        PROVE  supplier'[contact'[d].of] \in SupplierRow
    <3>1. CASE d = c BY <1>3, <1>6, <2>6, <3>1
    <3>2. CASE d \in r.held BY <1>3, <1>7, <3>2 DEF RegistryInv, RowsInv
    <3>3. CASE d # c /\ d \notin r.held BY <1>3, <1>8, <2>6, <3>3 DEF RegistryInv, RowsInv
    <3>4. QED BY <3>1, <3>2, <3>3
  <2>7. QED BY <1>3, <2>3, <2>5, <2>6 DEF RegistryInv, RowsInv
<1>10. CallsInv'
  <2>1. ASSUME NEW p \in Calls \ {q}
        PROVE  /\ \A t \in Suppliers :
                    t \in Inserts(call[p]) \cup call[p].held => supplier'[t] = supplier[t]
               /\ \A d \in Contacts : d \in Inserts(call[p]) => contact'[d] = contact[d]
               /\ \A d \in Contacts : d \in call[p].held => contact'[d] \in ContactRow
    <3>1. Apart(call[p], r) BY <1>1 DEF RegistryInv, CallsInv
    <3>2. \A d \in Contacts : d \in Inserts(call[p]) => contact[d] = NoRow BY HeldThere
    <3>3. \A d \in Contacts : d \in call[p].held => contact[d] \in ContactRow BY HeldThere
    <3>4. c \in call[p].held => contact'[c] = contact[c] BY <1>6 DEF Free
    <3>5. \A d \in Contacts : d \in call[p].held => contact'[d] \in ContactRow
      BY <1>8, <3>1, <3>3, <3>4 DEF Apart
    <3>6. c \in Inserts(call[p]) => contact'[c] = contact[c]
      <4>1. r.op = "addContact" => c \in Inserts(r) BY <1>4 DEF Inserts
      <4>2. r.op # "addContact" => contact[c] # NoRow
        BY <1>2, <1>3, <1>4 DEF ContactFits, ContactOp
      <4>3. QED BY <3>1, <3>2, <4>1, <4>2 DEF Apart
    <3>7. \A d \in Contacts : d \in Inserts(call[p]) => d \notin r.held
      BY <1>5, <3>2, RowsApart
    <3>8. QED BY <1>3, <1>8, <3>5, <3>6, <3>7
  <2>2. \A d \in Contacts : contact[d] # NoRow => contact'[d] # NoRow
    BY <1>6, <1>7, <1>8, RowsApart
  <2>3. \A d \in Contacts : (contact[d] # NoRow /\ contact'[d] \in ContactRow) =>
           contact[d] \in ContactRow /\ contact'[d].of = contact[d].of
    BY <1>6, <1>7, <1>8
  <2>4. QED BY <1>3, <2>1, <2>2, <2>3, CallsCommitted
<1>11. ASSUME NEW t \in Suppliers \ excused' PROVE TopicAt(t)'
  <2>1. TopicAt(t) BY <1>3 DEF RegistryInv, TopicInv
  <2>2. ~Tells(r, t) BY <1>3 DEF Tells, Telling, ContactOp
  <2>3. supplier'[t] = supplier[t] BY <1>3
  <2>4. QED BY <1>1, <2>1, <2>2, <2>3, OtherTopic
<1>12. Ruled
  <2>1. MovesLegal BY <1>3 DEF MovesLegal
  <2>2. DeletedStays BY <1>3 DEF DeletedStays
  <2>3. QED BY <2>1, <2>2 DEF Ruled
<1>13. SecondsInv'
  <2>1. Claims(r) = {c} BY <1>3, <1>4 DEF Claims, ContactOp
  <2>2. \A t \in Suppliers : supplier'[t] \in SupplierRow => Same(supplier'[t], supplier[t])
    BY <1>3 DEF Same
  <2>3. \A t \in Suppliers : t \notin Claims(r) BY <2>1, RegistryAssumption
  <2>4. ASSUME NEW d \in Contacts, NEW s \in Suppliers, IsPrimary(contact'[d], s), d # c
        PROVE  contact'[d] = contact[d] /\ d \notin r.held
    <3>1. d \notin r.held BY <1>7, <2>4 DEF IsPrimary
    <3>2. QED BY <1>8, <2>4, <3>1
  <2>5. ASSUME NEW d \in Contacts, NEW s \in Suppliers, d # c,
               IsPrimary(contact'[c], s), IsPrimary(contact'[d], s), ~IsPrimary(contact[c], s)
        PROVE  {c, d} \in raced
    <3>1. contact'[c] # contact[c] BY <2>5
    <3>2. contact'[c].exists = TRUE /\ contact'[c].primary = TRUE /\ contact'[c].of = s
      BY <2>5, RowsApart DEF IsPrimary
    <3>3. /\ r.op \in {"addContact", "updateContact"} /\ r.row.primary = TRUE
          /\ r.row.of = s
      BY <1>6, <2>5, <3>1, <3>2 DEF IsPrimary
    <3>4. PrimarySees(r, contact, raced) BY <1>1 DEF RegistryInv, SecondsInv
    <3>5. IsPrimary(contact[d], s) /\ d \notin r.held BY <2>4, <2>5
    <3>6. r.want = {} BY <1>2, <1>3 DEF Shape
    <3>7. QED BY <1>4, <2>5, <3>3, <3>4, <3>5, <3>6 DEF PrimarySees
  <2>6. QED BY <1>1, <1>3, <1>9, <2>1, <2>2, <2>3, <2>4, <2>5, SecondsCommitted
<1>14. QED BY <1>9, <1>10, <1>11, <1>12, <1>13 DEF RegistryInv, TopicInv

-----------------------------------------------------------------------------
(* The registry as a whole. *)

LEMMA InitRegistry == RegistryInit => RegistryInv
<1> SUFFICES ASSUME RegistryInit PROVE RegistryInv OBVIOUS
<1>1. PICK there \in SUBSET Suppliers, state \in Onboarding, k \in Countries :
         /\ supplier = [s \in Suppliers |->
                IF s \in there
                THEN [exists |-> TRUE, country |-> k, onboarding |-> state,
                      status |-> Settled(state), deleted |-> FALSE]
                ELSE NoRow]
         /\ topic = [s \in Suppliers |-> IF s \in there THEN state ELSE "none"]
         /\ \A s, x \in there : s = x
  BY Zenon DEF RegistryInit
<1>2. /\ contact \in [Contacts -> {NoRow} \cup {r \in ContactRow : supplier[r.of].exists}]
      /\ \A s \in Suppliers : \A c, d \in Primaries(s) : c = d
      /\ call = [q \in Calls |-> Idle]
      /\ begun = 0 /\ excused = {} /\ outbox = {} /\ moved = {} /\ raced = {}
  BY DEF RegistryInit
<1>3. PICK row : row = [exists |-> TRUE, country |-> k, onboarding |-> state,
                        status |-> Settled(state), deleted |-> FALSE]
  OBVIOUS
<1>4. row \in SupplierRow /\ row.onboarding = state
  BY <1>3 DEF SupplierRow, Settled, Status, VALID_STATUSES
<1>5. \A s \in Suppliers : supplier[s] = IF s \in there THEN row ELSE NoRow
  BY <1>1, <1>3
<1>6. RowsInv
  <2>1. supplier \in [Suppliers -> SupplierRow \cup {NoRow}] BY <1>1, <1>4, <1>5
  <2>2. contact \in [Contacts -> ContactRow \cup {NoRow, Gone}]
        /\ \A c \in Contacts : contact[c] \in ContactRow => supplier[contact[c].of].exists
    BY <1>2, RowsApart
  <2>a. \A s \in Suppliers : supplier[s].exists => supplier[s] \in SupplierRow
    BY <1>4, <1>5, RowsApart
  <2>b. \A c \in Contacts : contact[c] \in ContactRow => supplier[contact[c].of] \in SupplierRow
    BY <2>2, <2>a DEF ContactRow
  <2>3. topic \in [Suppliers -> Onboarding \cup {"none"}] BY <1>1
  <2>4. begun \in 0..MaxCalls BY <1>2, RegistryAssumption
  <2>5. QED BY <1>2, <2>1, <2>2, <2>b, <2>3, <2>4 DEF RowsInv
<1>7. CallsInv
  <2>1. \A q \in Calls : call[q] = Idle BY <1>2
  <2>2. call \in [Calls -> CallRow] BY <1>2, IdleFits
  <2>3. \A p, q \in Calls : Apart(call[p], call[q]) BY <2>1, IdleFits DEF Apart
  <2>4. QED BY <2>1, <2>2, <2>3, IdleFits DEF CallsInv
<1>8. TopicInv
  <2>1. \A q \in Calls : call[q] = Idle BY <1>2
  <2>2. ASSUME NEW s \in Suppliers PROVE TopicAt(s)
    <3>1. \A q \in Calls : ~Transits(call[q], s) BY <2>1, IdleFits
    <3>2. supplier[s] \in SupplierRow => topic[s] = supplier[s].onboarding
      <4>1. CASE s \in there BY <1>1, <1>4, <1>5, <4>1
      <4>2. CASE s \notin there BY <1>5, <4>2, RowsApart
      <4>3. QED BY <4>1, <4>2
    <3>3. Waiting(s) = {} BY <1>2 DEF Waiting
    <3>4. QED BY <3>1, <3>2, <3>3 DEF TopicAt
  <2>3. QED BY <2>2 DEF TopicInv
<1>9. SecondsInv
  <2>1. \A q \in Calls : call[q] = Idle BY <1>2
  <2>2. \A s, x \in Suppliers : (supplier[s].exists /\ supplier[x].exists) => s = x
    <3>1. \A s \in Suppliers : supplier[s].exists => s \in there BY <1>5, RowsApart
    <3>2. QED BY <1>1, <3>1
  <2>3. \A c, d \in Contacts :
           (c # d /\ contact[c].exists /\ contact[d].exists
                  /\ contact[c].of = contact[d].of /\ contact[c].primary) => ~contact[d].primary
    <3>1. \A c \in Contacts : contact[c].exists => contact[c] \in ContactRow
      BY <1>2, RowsApart
    <3>2. \A c \in Contacts : contact[c].exists => contact[c].of \in Suppliers
      BY <3>1 DEF ContactRow
    <3>3. QED BY <1>2, <3>2 DEF Primaries
  <2>4. SecondsExcused BY <2>2, <2>3 DEF SecondsExcused
  <2>5. QED BY <2>1, <2>4, IdleFits DEF SecondsInv, Met
<1>10. QED BY <1>6, <1>7, <1>8, <1>9 DEF RegistryInv

LEMMA RegistryStep ==
    RegistryInv /\ [RegistryNext]_registryVars => RegistryInv' /\ Ruled
<1> SUFFICES ASSUME RegistryInv, [RegistryNext]_registryVars PROVE RegistryInv' /\ Ruled
  OBVIOUS
<1>1. CASE UNCHANGED registryVars
  <2>1. RegistryInv'
    BY <1>1 DEF registryVars, tableVars, eventVars, RegistryInv, RowsInv, CallsInv, SecondsInv,
                SecondsExcused, TopicInv, TopicAt, Waiting
  <2>2. QED BY <1>1, <2>1, StillRuled DEF registryVars, tableVars
<1>2. ASSUME NEW q \in Calls, NEW s \in Suppliers, NEW k \in Countries,
             NEW new \in SUBSET {c \in Contacts : contact[c] = NoRow}, Create(q, s, k, new)
      PROVE  RegistryInv' /\ Ruled
  <2>1. RegistryInv' BY <1>2, CreateKept
  <2>2. QED BY <1>2, <2>1, StillRuled DEF Create, Open, tableVars
<1>3. ASSUME NEW q \in Calls, NEW s \in Suppliers, NEW k \in Countries, Update(q, s, k)
      PROVE  RegistryInv' /\ Ruled
  <2>1. RegistryInv' BY <1>3, UpdateKept
  <2>2. QED BY <1>3, <2>1, StillRuled DEF Update, Open, tableVars
<1>4. ASSUME NEW q \in Calls, NEW s \in Suppliers, Delete(q, s)
      PROVE  RegistryInv' /\ Ruled
  <2>1. RegistryInv' BY <1>4, DeleteKept
  <2>2. QED BY <1>4, <2>1, StillRuled DEF Delete, Open, tableVars
<1>5. ASSUME NEW q \in Calls, NEW s \in Suppliers, NEW to \in Onboarding, Transition(q, s, to)
      PROVE  RegistryInv' /\ Ruled
  <2>1. RegistryInv' BY <1>5, TransitionKept
  <2>2. QED BY <1>5, <2>1, StillRuled DEF Transition, Open, tableVars
<1>6. ASSUME NEW q \in Calls, NEW ids \in SUBSET Suppliers, NEW status \in Statuses,
             Bulk(q, ids, status)
      PROVE  RegistryInv' /\ Ruled
  <2>1. RegistryInv' BY <1>6, BulkKept
  <2>2. QED BY <1>6, <2>1, StillRuled DEF Bulk, Open, tableVars
<1>7. ASSUME NEW q \in Calls, NEW s \in Suppliers, NEW c \in Contacts, NEW b \in BOOLEAN,
             AddContact(q, s, c, b)
      PROVE  RegistryInv' /\ Ruled
  <2>1. RegistryInv' BY <1>7, AddContactKept
  <2>2. QED BY <1>7, <2>1, StillRuled DEF AddContact, Open, tableVars
<1>8. ASSUME NEW q \in Calls, NEW c \in Contacts, NEW b \in BOOLEAN, UpdateContact(q, c, b)
      PROVE  RegistryInv' /\ Ruled
  <2>1. RegistryInv' BY <1>8, UpdateContactKept
  <2>2. QED BY <1>8, <2>1, StillRuled DEF UpdateContact, Open, tableVars
<1>9. ASSUME NEW q \in Calls, NEW c \in Contacts, DeleteContact(q, c)
      PROVE  RegistryInv' /\ Ruled
  <2>1. RegistryInv' BY <1>9, DeleteContactKept
  <2>2. QED BY <1>9, <2>1, StillRuled DEF DeleteContact, Open, tableVars
<1>10. ASSUME NEW q \in Calls, NEW c \in Contacts, Demote(q, c)
       PROVE  RegistryInv' /\ Ruled
  <2>1. RegistryInv' BY <1>10, DemoteKept
  <2>2. QED BY <1>10, <2>1, StillRuled DEF Demote, tableVars
<1>11. ASSUME NEW q \in Calls, Publish(q) PROVE RegistryInv' /\ Ruled
  <2>1. RegistryInv' BY <1>11, PublishKept
  <2>2. QED BY <1>11, <2>1, StillRuled DEF Publish, tableVars
<1>12. ASSUME NEW q \in Calls, Fail(q) PROVE RegistryInv' /\ Ruled
  <2>1. RegistryInv' BY <1>12, FailKept
  <2>2. QED BY <1>12, <2>1, StillRuled DEF Fail, tableVars
<1>13. ASSUME NEW q \in Calls, Commit(q) PROVE RegistryInv' /\ Ruled
  <2>1. CASE CommitSupplier(q) BY <1>13, <2>1, CommitSupplierKept
  <2>2. CASE CommitCreate(q) BY <1>13, <2>2, CommitCreateKept
  <2>3. CASE CommitBulk(q) BY <1>13, <2>3, CommitBulkKept
  <2>4. CASE CommitContact(q) BY <1>13, <2>4, CommitContactKept
  <2>5. QED BY <1>13, <2>1, <2>2, <2>3, <2>4 DEF Commit
<1>14. ASSUME NEW m \in outbox, Relay(m) PROVE RegistryInv' /\ Ruled
  <2>1. RegistryInv' BY <1>14, RelayKept
  <2>2. QED BY <1>14, <2>1, StillRuled DEF Relay, tableVars
<1>15. ASSUME NEW m \in outbox, GiveUp(m) PROVE RegistryInv' /\ Ruled
  <2>1. RegistryInv' BY <1>15, GiveUpKept
  <2>2. QED BY <1>15, <2>1, StillRuled DEF GiveUp, tableVars
<1>16. QED BY <1>1, <1>2, <1>3, <1>4, <1>5, <1>6, <1>7, <1>8, <1>9, <1>10, <1>11, <1>12,
              <1>13, <1>14, <1>15 DEF RegistryNext

LEMMA RegistryTells == RegistryInv => TopicTellsStatus
<1> SUFFICES ASSUME RegistryInv, NEW s \in Suppliers \ excused, supplier[s].exists,
                    Waiting(s) = {},
                    \A q \in Calls : call[q].id = s => call[q].stage # "flush"
             PROVE  topic[s] = supplier[s].onboarding
  BY DEF TopicTellsStatus
<1>1. supplier[s] \in SupplierRow BY RowsApart DEF RegistryInv, RowsInv
<1>2. TopicAt(s) BY DEF RegistryInv, TopicInv
<1>3. QED BY <1>1, <1>2 DEF TopicAt, Tells

LEMMA RegistryTypes == RegistryInv => RegistryTypeOK
BY DEF RegistryInv, RowsInv, CallsInv, CallRow, RegistryTypeOK

-----------------------------------------------------------------------------
(* The service. *)

ServiceInv ==
    /\ RegistryInv /\ DocumentsInv /\ ExpiryInv /\ CardsInv
    /\ focus \in Parts

LEMMA InitService == Init => ServiceInv
BY InitRegistry, InitDocuments, InitExpiry, InitCards DEF Init, ServiceInv

LEMMA StepService == ServiceInv /\ [Next]_vars => ServiceInv' /\ Ruled
<1> SUFFICES ASSUME ServiceInv, [Next]_vars PROVE ServiceInv' /\ Ruled OBVIOUS
<1>1. focus' = focus /\ focus' \in Parts BY DEF ServiceInv, Next, vars
<1>2. [RegistryNext]_registryVars BY DEF Next, vars, Registry, Documenting, Expiry, Scoring
<1>3. [DocumentsNext]_documentVars BY DEF Next, vars, Registry, Documenting, Expiry, Scoring
<1>4. [ExpiryNext]_expiryVars BY DEF Next, vars, Registry, Documenting, Expiry, Scoring
<1>5. [ScorecardsNext]_cardVars BY DEF Next, vars, Registry, Documenting, Expiry, Scoring
<1>6. RegistryInv' /\ Ruled BY <1>2, RegistryStep DEF ServiceInv
<1>7. DocumentsInv' BY <1>3, DocumentsStep DEF ServiceInv
<1>8. ExpiryInv' BY <1>4, ExpiryStep DEF ServiceInv
<1>9. CardsInv' BY <1>5, CardsStep DEF ServiceInv
<1>10. QED BY <1>1, <1>6, <1>7, <1>8, <1>9 DEF ServiceInv

LEMMA ServiceHolds == Spec => []ServiceInv
<1>1. Init => ServiceInv BY InitService
<1>2. ServiceInv /\ [Next]_vars => ServiceInv' BY StepService
<1>3. QED BY <1>1, <1>2, PTL DEF Spec

(* The types of the whole service hold in every behaviour. *)
THEOREM SupplierTypes == Spec => []TypeOK
<1>1. ServiceInv => TypeOK
  BY RegistryTypes, ExpiryTypes, CardsTypes DEF ServiceInv, DocumentsInv, TypeOK
<1>2. QED BY <1>1, ServiceHolds, PTL

(* Onboarding moves along the state machine, a deleted supplier stays as it is, a
   second supplier or primary contact comes from a request that could not see the
   first, and the topic tells the committed status, but for requests that overlap,
   fail or lose their event (supplier_service reads, checks, publishes, then writes
   by id). *)
THEOREM RegistryRules == Spec => RegistryKept
<1>1. ServiceInv => TopicTellsStatus /\ SecondsExcused
  BY RegistryTells DEF ServiceInv, RegistryInv, SecondsInv
<1>2. ServiceInv /\ TopicTellsStatus' /\ SecondsExcused' /\ [Next]_vars =>
        [MovesLegal /\ DeletedStays /\ SecondsExcused' /\ TopicTellsStatus']_registryVars
  BY StepService DEF Ruled
<1>3. QED BY <1>1, <1>2, ServiceHolds, PTL DEF Spec, RegistryKept

(* An expired certificate was announced, and its expiry twice only for a known
   reason; the notices name certificates within their window (check_cert_expiry
   sends as it finds and commits at its end). *)
THEOREM ExpiryOnce == Spec => []ExpiryAnnouncedOnce
<1>1. ServiceInv => ExpiryAnnouncedOnce BY ExpiryFollows DEF ServiceInv
<1>2. QED BY <1>1, ServiceHolds, PTL

(* Of two scorecards of one path the one whose every rate is at least as good has no
   lower score and no lower grade (_compute_overall, _compute_grade), and the worker
   inserts no more rows than its job was delivered (compute_supplier_scorecard). *)
THEOREM ScorecardsAreFair == Spec => []ScorecardsFair
<1>1. ServiceInv => ScorecardsFair BY CardsFair DEF ServiceInv
<1>2. QED BY <1>1, ServiceHolds, PTL

=============================================================================
