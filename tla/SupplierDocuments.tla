------------------------- MODULE SupplierDocuments -------------------------
(***************************************************************************)
(* document_service and scan_document_task: supplier documents from the    *)
(* presigned upload to the verdict of the virus scan.                      *)
(*                                                                         *)
(* Confirming a document flushes the status "scanning", which locks its    *)
(* row, enqueues the scan and only then commits.  The scan writes its      *)
(* verdict whatever the status is by then.  A scan is acknowledged when it *)
(* ends, so that the broker gives that of a dead worker to another one.    *)
(***************************************************************************)
EXTENDS Integers

CONSTANTS
    Documents,   \* ids of documents
    Uploaders,   \* confirm requests that can be in flight together
    Scanners,    \* Celery workers that scan
    MaxConfirms, \* bound: confirm requests in all
    MaxCrashes   \* bound: scanners that die

ASSUME DocumentAssumption == MaxConfirms \in Nat /\ MaxCrashes \in Nat

VARIABLES
    document,   \* document[d]: upload_status of the committed row, or "none"
    stored,     \* stored[d]: the object is in the bucket
    confirm,    \* confirm[u]: the document request u confirms and its stage
    confirms,   \* confirm requests so far
    queued,     \* queued[d]: scans of d waiting in the queue
    scan,       \* scan[w]: the document worker w scans and its verdict
    crashes,    \* scanners that died so far
    forgotten   \* history: documents of which an enqueue or a verdict was lost

documentVars ==
    <<document, stored, confirm, confirms, queued, scan, crashes, forgotten>>

UploadStatus == {"pending", "scanning", "clean", "infected", "failed"}
Verdict == {"clean", "infected", "failed"}
NoDocument == "no document"
NoConfirm == [of |-> NoDocument, stage |-> "idle"]
NoScan == [of |-> NoDocument, verdict |-> "none"]

DocumentsTypeOK ==
    /\ document \in [Documents -> UploadStatus \cup {"none"}]
    /\ stored \in [Documents -> BOOLEAN]
    /\ confirm \in [Uploaders -> [of : Documents \cup {NoDocument},
                                  stage : {"idle", "read", "flushed", "enqueued"}]]
    /\ confirms \in 0..MaxConfirms
    /\ queued \in [Documents -> Nat]
    /\ scan \in [Scanners -> [of : Documents \cup {NoDocument},
                              verdict : Verdict \cup {"none"}]]
    /\ crashes \in 0..MaxCrashes
    /\ forgotten \subseteq Documents

DocumentsInit ==
    /\ document = [d \in Documents |-> "none"]
    /\ stored = [d \in Documents |-> FALSE]
    /\ confirm = [u \in Uploaders |-> NoConfirm]
    /\ confirms = 0
    /\ queued = [d \in Documents |-> 0]
    /\ scan = [w \in Scanners |-> NoScan]
    /\ crashes = 0
    /\ forgotten = {}

-----------------------------------------------------------------------------
(* Requests. *)

(* generate_presigned_upload_url, up to the router's commit. *)
Presign(d) ==
    /\ document[d] = "none"
    /\ document' = [document EXCEPT ![d] = "pending"]
    /\ UNCHANGED <<stored, confirm, confirms, queued, scan, crashes, forgotten>>

(* The client uses the URL; nothing tells the service. *)
Upload(d) ==
    /\ document[d] # "none" /\ ~stored[d]
    /\ stored' = [stored EXCEPT ![d] = TRUE]
    /\ UNCHANGED <<document, confirm, confirms, queued, scan, crashes, forgotten>>

(* confirm_upload reads a pending row and finds its object. *)
Confirm(u, d) ==
    /\ confirm[u] = NoConfirm /\ confirms < MaxConfirms
    /\ document[d] = "pending" /\ stored[d]
    /\ confirm' = [confirm EXCEPT ![u] = [of |-> d, stage |-> "read"]]
    /\ confirms' = confirms + 1
    /\ UNCHANGED <<document, stored, queued, scan, crashes, forgotten>>

(* Mutant: the flush is left to the commit, so that the scan may run before. *)
UnlockedUntilCommit(d) == FALSE

(* The rows that confirm requests hold. *)
Locked(d) == \E u \in Uploaders :
                confirm[u].of = d /\ confirm[u].stage \in {"flushed", "enqueued"}

(* The flush of "scanning" waits for the row lock and then holds it. *)
FlushScanning(u) ==
    /\ confirm[u].stage = "read" /\ ~Locked(confirm[u].of)
    /\ confirm' = [confirm EXCEPT ![u].stage = "flushed"]
    /\ UNCHANGED <<document, stored, confirms, queued, scan, crashes, forgotten>>

(* _enqueue_scan: an error of the broker is logged and forgotten. *)
Enqueue(u) ==
    /\ confirm[u].stage = "flushed"
    /\ \/ /\ queued' = [queued EXCEPT ![confirm[u].of] = @ + 1]
          /\ UNCHANGED forgotten
       \/ /\ forgotten' = forgotten \cup {confirm[u].of}
          /\ UNCHANGED queued
    /\ confirm' = [confirm EXCEPT ![u].stage = "enqueued"]
    /\ UNCHANGED <<document, stored, confirms, scan, crashes>>

CommitConfirm(u) ==
    /\ confirm[u].stage = "enqueued"
    /\ document' = [document EXCEPT ![confirm[u].of] = "scanning"]
    /\ confirm' = [confirm EXCEPT ![u] = NoConfirm]
    /\ UNCHANGED <<stored, confirms, queued, scan, crashes, forgotten>>

(* The request dies: its row stays as it was, its scan stays enqueued. *)
FailConfirm(u) ==
    /\ confirm[u].stage # "idle"
    /\ confirm' = [confirm EXCEPT ![u] = NoConfirm]
    /\ UNCHANGED <<document, stored, confirms, queued, scan, crashes, forgotten>>

(* Mutant: the database has a status "deleted". *)
DeleteStoresStatus(d) ==
    /\ document[d] # "none" /\ stored[d]
    /\ stored' = [stored EXCEPT ![d] = FALSE]
    /\ document' = [document EXCEPT ![d] = "deleted"]
    /\ UNCHANGED <<confirm, confirms, queued, scan, crashes, forgotten>>

(* delete_document removes the object; the status it then writes is not one of
   doc_upload_status_enum, so the row stays as it is. *)
DeleteDocument(d) ==
    /\ document[d] # "none" /\ stored[d]
    /\ stored' = [stored EXCEPT ![d] = FALSE]
    /\ UNCHANGED <<document, confirm, confirms, queued, scan, crashes, forgotten>>

-----------------------------------------------------------------------------
(* Scans. *)

TakeScan(w, d) ==
    /\ scan[w] = NoScan /\ queued[d] > 0
    /\ queued' = [queued EXCEPT ![d] = @ - 1]
    /\ scan' = [scan EXCEPT ![w] = [of |-> d, verdict |-> "none"]]
    /\ UNCHANGED <<document, stored, confirm, confirms, crashes, forgotten>>

(* The download fails without an object; clamscan may find the object clean or
   infected, or fail. *)
Judge(w) ==
    /\ scan[w] # NoScan /\ scan[w].verdict = "none"
    /\ \E v \in IF stored[scan[w].of] THEN Verdict ELSE {"failed"} :
          scan' = [scan EXCEPT ![w].verdict = v]
    /\ UNCHANGED <<document, stored, confirm, confirms, queued, crashes, forgotten>>

(* The verdict is written by id, once no confirm request holds the row. *)
WriteVerdict(w) ==
    /\ scan[w].verdict # "none" /\ ~Locked(scan[w].of)
    /\ document' = [document EXCEPT ![scan[w].of] = scan[w].verdict]
    /\ scan' = [scan EXCEPT ![w] = NoScan]
    /\ UNCHANGED <<stored, confirm, confirms, queued, crashes, forgotten>>

(* The database refuses the write; the task fails and is not retried. *)
LoseVerdict(w) ==
    /\ scan[w].verdict # "none"
    /\ scan' = [scan EXCEPT ![w] = NoScan]
    /\ forgotten' = forgotten \cup {scan[w].of}
    /\ UNCHANGED <<document, stored, confirm, confirms, queued, crashes>>

ScannerDies(w) ==
    /\ scan[w] # NoScan /\ crashes < MaxCrashes
    /\ queued' = [queued EXCEPT ![scan[w].of] = @ + 1]
    /\ scan' = [scan EXCEPT ![w] = NoScan]
    /\ crashes' = crashes + 1
    /\ UNCHANGED <<document, stored, confirm, confirms, forgotten>>

DocumentsNext ==
    \/ \E d \in Documents : Presign(d) \/ Upload(d) \/ DeleteDocument(d)
    \/ \E u \in Uploaders :
          \/ \E d \in Documents : Confirm(u, d)
          \/ FlushScanning(u) \/ Enqueue(u) \/ CommitConfirm(u) \/ FailConfirm(u)
    \/ \E w \in Scanners :
          \/ \E d \in Documents : TakeScan(w, d)
          \/ Judge(w) \/ WriteVerdict(w) \/ LoseVerdict(w) \/ ScannerDies(w)

(* A request that has its lock ends; a queued scan is taken and ends. *)
DocumentsFairness ==
    /\ \A u \in Uploaders :
          WF_documentVars(Enqueue(u) \/ CommitConfirm(u) \/ FailConfirm(u))
    /\ \A w \in Scanners :
          /\ \A d \in Documents : SF_documentVars(TakeScan(w, d))
          /\ WF_documentVars(Judge(w))
          /\ SF_documentVars(WriteVerdict(w) \/ LoseVerdict(w))

-----------------------------------------------------------------------------
(* Properties. *)

(* A document does not stay "scanning", the status in which it can be neither
   downloaded nor confirmed again, unless the enqueue or the verdict of one of
   its scans was lost (confirm_upload enqueues before the commit, and
   scan_document_task writes without looking). *)
ScansSettle ==
    \A d \in Documents :
       document[d] = "scanning" ~> (document[d] # "scanning" \/ d \in forgotten)

=============================================================================
