---------------------------- MODULE TenantBackup ----------------------------
(***************************************************************************)
(* Export, restore and deletion of one tenant while its requests go on     *)
(* (export_tenant, restore_tenant and delete_tenant of both store classes).*)
(* An export is two READ COMMITTED transactions, so each of its SELECTs    *)
(* sees what has committed by then.  A restore commits the deletion of the *)
(* findings, that of the other tables, the insertion of the other tables   *)
(* and that of the findings one after the other; any may be the last.      *)
(* The tables of feedback, benchmark runs and audit events are read,       *)
(* deleted and inserted with jobs, refer to nothing and are left out, and  *)
(* so is the progress of a job (JobQueue has it), which rewrites its row.  *)
(***************************************************************************)
EXTENDS Naturals, FiniteSets

CONSTANTS
  Docs,          \* documents, each uploaded by one request; a finding and a decision on each
  Keys,          \* idempotency keys of uploads and of jobs
  Admins,        \* requests to delete or to restore the tenant
  MaxBackups,    \* bound: exports
  MaxErasures    \* bound: retention sweeps, deletions and restores begun

ASSUME BackupAssumption ==
  /\ MaxBackups \in Nat /\ MaxErasures \in Nat
  /\ Docs \cap {"stored", "reserved", "queued"} = {}
  /\ Admins \cap {"export", "request", "sweep"} = {}

VARIABLES
  db,            \* the committed rows of each table
  uploading,     \* of each document's request: "none", its key, or "done"
  born,          \* ids drawn so far: a document, finding or decision has one of its own
  reads, draft,  \* of the export: how many tables it has read, and what it found
  backups,       \* what finished exports returned
  at, doomed,    \* of a deletion or restore: where it is, rows its transaction deleted
  from,          \* the backup a restore restores, NoBackup for a deletion
  disturbed,     \* <<operation, who>>: who committed since the export or restore began
  erasures

requests == <<uploading, born>>
exports == <<reads, draft, backups>>
erasers == <<at, doomed, from, erasures>>
vars == <<db, uploading, born, reads, draft, backups, at, doomed, from, disturbed, erasures>>

Reads ==
  <<"uploads", "idempotency_keys", "jobs", "document_blobs", "findings", "finding_decisions">>
Base == {"uploads", "document_blobs", "idempotency_keys", "jobs"}
Ledger == {"findings", "finding_decisions"}
Tables == Base \cup Ledger
Operations == Admins \cup {"export"}
Parties == {"request", "admin"}    \* admins sweep, delete and restore

Rows == [id : Docs \cup Keys, is : {"stored", "reserved", "queued"} \cup Docs]
Database == [Tables -> SUBSET Rows]
Empty == [t \in Tables |-> {}]
\* What was exported; the database at the first read and at the last; who committed between.
Backup == [tables : Database, first : Database, last : Database,
           disturbers : SUBSET Parties]
NoBackup == [tables |-> Empty, first |-> Empty, last |-> Empty, disturbers |-> {}]
Stored(d) == [id |-> d, is |-> "stored"]
Ids(S) == {row.id : row \in S}

Init ==
  /\ db = Empty
  /\ uploading = [d \in Docs |-> "none"] /\ born = {}
  /\ reads = 0 /\ draft = NoBackup /\ backups = {}
  /\ at = [e \in Admins |-> "idle"] /\ doomed = [e \in Admins |-> Empty]
  /\ from = [e \in Admins |-> NoBackup]
  /\ disturbed = {} /\ erasures = 0

-----------------------------------------------------------------------------
(* Transactions *)

Begun(o) == IF o = "export" THEN reads > 0 ELSE from[o] # NoBackup
Party(who) == IF who = "request" THEN "request" ELSE "admin"
Commit(who, new) ==
  /\ db' = new
  /\ disturbed' = disturbed \cup
                    {<<o, Party(who)>> : o \in {q \in Operations \ {who} : Begun(q)}}

\* An uncommitted deletion holds the row: a statement on it, or on its key, waits.
Held(t, id) == \E e \in Admins : id \in Ids(doomed[e][t])

-----------------------------------------------------------------------------
(* The tenant's requests: uploads, jobs, findings, decisions *)

Reserve(d, k) ==
  /\ uploading[d] = "none"
  /\ k \notin Ids(db["idempotency_keys"]) /\ ~Held("idempotency_keys", k)
  /\ Commit("request", [db EXCEPT !["idempotency_keys"] =
                          db["idempotency_keys"] \cup {[id |-> k, is |-> "reserved"]}])
  /\ uploading' = [uploading EXCEPT ![d] = k]
  /\ UNCHANGED <<born, exports, erasers>>

SaveUpload(d) ==
  /\ uploading[d] \in Keys /\ <<"uploads", d>> \notin born
  /\ Commit("request", [db EXCEPT !["uploads"] = db["uploads"] \cup {Stored(d)},
                        !["document_blobs"] = db["document_blobs"] \cup {Stored(d)}])
  /\ born' = born \cup {<<"uploads", d>>}
  /\ UNCHANGED <<uploading, exports, erasers>>

\* The UPDATE takes the key as it finds it, reserved by whomever, or finds none.
CompleteKey(d) ==
  LET k == uploading[d]
      found == {row \in db["idempotency_keys"] : row.id = k}
  IN /\ k \in Keys /\ <<"uploads", d>> \in born
     /\ ~Held("idempotency_keys", k)
     /\ Commit("request", [db EXCEPT !["idempotency_keys"] =
                  (db["idempotency_keys"] \ found) \cup {[id |-> row.id, is |-> d] : row \in found}])
     /\ uploading' = [uploading EXCEPT ![d] = "done"]
     /\ UNCHANGED <<born, exports, erasers>>

Enqueue(k) ==
  /\ k \notin Ids(db["jobs"]) /\ ~Held("jobs", k)
  /\ Commit("request", [db EXCEPT !["jobs"] = db["jobs"] \cup {[id |-> k, is |-> "queued"]}])
  /\ UNCHANGED <<requests, exports, erasers>>

\* The upload, or the finding, was read in an earlier transaction and may be gone.
Append(t, after, d) ==
  /\ <<after, d>> \in born /\ <<t, d>> \notin born
  /\ Commit("request", [db EXCEPT ![t] = db[t] \cup {Stored(d)}])
  /\ born' = born \cup {<<t, d>>}
  /\ UNCHANGED <<uploading, exports, erasers>>

SaveFinding(d) == Append("findings", "uploads", d)
AppendDecision(d) == Append("finding_decisions", "findings", d)

-----------------------------------------------------------------------------
(* export_tenant: one SELECT per table *)

BlobsFirst ==                         \* mutant: document_blobs with the first tables
  <<"document_blobs", "uploads", "idempotency_keys", "jobs", "findings", "finding_decisions">>
ExportOrder == Reads

Exported(backup, t) == [backup EXCEPT !.tables = [backup.tables EXCEPT ![t] = db[t]]]

ExportFirst ==
  /\ reads = 0 /\ Cardinality(backups) < MaxBackups
  /\ reads' = 1
  /\ draft' = Exported([NoBackup EXCEPT !.first = db], ExportOrder[1])
  /\ UNCHANGED <<db, requests, backups, erasers, disturbed>>

ExportNext ==
  /\ reads \in 1..4
  /\ reads' = reads + 1
  /\ draft' = Exported(draft, ExportOrder[reads + 1])
  /\ UNCHANGED <<db, requests, backups, erasers, disturbed>>

ExportLast ==
  /\ reads = 5
  /\ backups' = backups \cup
       {[Exported(draft, ExportOrder[6]) EXCEPT
           !.last = db, !.disturbers = {x[2] : x \in {y \in disturbed : y[1] = "export"}}]}
  /\ reads' = 0 /\ draft' = NoBackup
  /\ disturbed' = {x \in disturbed : x[1] # "export"}
  /\ UNCHANGED <<db, requests, erasers>>

-----------------------------------------------------------------------------
(* delete_tenant, by itself or at the start of restore_tenant *)

Goto(e, place) == at' = [at EXCEPT ![e] = place]

KeepsDecisions == [db EXCEPT !["findings"] = {}]   \* mutant: finding_decisions forgotten
WithoutLedger == [t \in Tables |-> IF t \in Ledger THEN {} ELSE db[t]]

\* A backup of another tenant or schema is refused before anything is deleted; that of
\* an empty tenant is restored by deleting.
DeleteLedger(e, backup) ==
  /\ at[e] = "idle"
  /\ erasures < MaxErasures /\ erasures' = erasures + 1
  /\ Commit(e, WithoutLedger)
  /\ from' = [from EXCEPT ![e] = backup]
  /\ Goto(e, "rows")
  /\ UNCHANGED <<requests, exports, doomed>>

\* DELETE FROM every table but uploads: not committed yet, hence still seen by others.
DeleteRows(e) ==
  LET emptied == Base \ {"uploads"}
  IN /\ at[e] = "rows"
     /\ \A t \in emptied : \A row \in db[t] : ~Held(t, row.id)
     /\ doomed' = [doomed EXCEPT ![e] = [t \in Tables |-> IF t \in emptied THEN db[t] ELSE {}]]
     /\ Goto(e, "uploads")
     /\ UNCHANGED <<db, requests, exports, from, disturbed, erasures>>

WithoutUncascaded(e) ==              \* mutant: bytes committed meanwhile stay
  [t \in Tables |-> IF t = "uploads" THEN {} ELSE db[t] \ doomed[e][t]]
WithoutBase(e) ==
  [t \in Tables |-> IF t \in {"uploads", "document_blobs"} THEN {} ELSE db[t] \ doomed[e][t]]

\* DELETE FROM uploads takes the bytes of uploads committed meanwhile along; COMMIT.
DeleteUploads(e) ==
  /\ at[e] = "uploads"
  /\ Commit(e, WithoutBase(e))
  /\ doomed' = [doomed EXCEPT ![e] = Empty]
  /\ Goto(e, IF from[e] = NoBackup THEN "idle" ELSE "base")
  /\ UNCHANGED <<requests, exports, from, erasures>>

-----------------------------------------------------------------------------
(* restore_tenant, once the tenant is deleted *)

\* The one foreign key: bytes belong to an upload.
References(tables) == Ids(tables["document_blobs"]) \subseteq Ids(tables["uploads"])

\* One transaction: all rows, or none and an error.  An id that an uncommitted deletion
\* holds makes it wait, any other that is there makes it fail.
Insert(e, ts, next) ==
  LET tables == from[e].tables
      Clash(t) == Ids(tables[t]) \cap Ids(db[t])
  IN /\ \/ /\ References(tables) /\ \A t \in ts : Clash(t) = {}
           /\ Commit(e, [t \in Tables |-> IF t \in ts THEN db[t] \cup tables[t] ELSE db[t]])
           /\ Goto(e, next)
        \/ /\ ~References(tables) \/ \E t \in ts : \E id \in Clash(t) : ~Held(t, id)
           /\ Goto(e, "failed")
           /\ UNCHANGED <<db, disturbed>>
     /\ UNCHANGED <<requests, exports, doomed, from, erasures>>

InsertBase(e) == at[e] = "base" /\ Insert(e, Base, "ledger")
InsertLedger(e) == at[e] = "ledger" /\ Insert(e, Ledger, "done")

\* The process dies: an open transaction is rolled back, the others stay committed.
Crash(e) ==
  /\ at[e] \notin {"idle", "done", "failed"}
  /\ Goto(e, "idle")
  /\ doomed' = [doomed EXCEPT ![e] = Empty]
  /\ from' = [from EXCEPT ![e] = NoBackup]
  /\ disturbed' = {x \in disturbed : x[1] # e}
  /\ UNCHANGED <<db, requests, exports, erasures>>

-----------------------------------------------------------------------------
(* retention_sweep: whichever rows are old enough *)

Sweep(new) ==
  /\ erasures < MaxErasures /\ erasures' = erasures + 1
  /\ Commit("sweep", new)
  /\ UNCHANGED <<requests, exports, at, doomed, from>>

SweepLedger(old) ==
  \E decided \in SUBSET Docs :
    Sweep([db EXCEPT !["findings"] = {row \in db["findings"] : row.id \notin old},
             !["finding_decisions"] =
               {row \in db["finding_decisions"] : row.id \notin old \cup decided}])

SweepBase(docs, keys, jobs) ==
  /\ \A k \in keys : ~Held("idempotency_keys", k)
  /\ \A k \in jobs : ~Held("jobs", k)
  /\ \A d \in docs : ~Held("document_blobs", d)
  /\ Sweep([t \in Tables |-> {row \in db[t] :
       CASE t \in {"uploads", "document_blobs"} -> row.id \notin docs
         [] t = "idempotency_keys" -> row.id \notin keys
         [] t = "jobs" -> row.id \notin jobs
         [] OTHER -> TRUE}])

-----------------------------------------------------------------------------
Next ==
  \/ \E d \in Docs : \/ \E k \in Keys : Reserve(d, k)
                     \/ SaveUpload(d) \/ CompleteKey(d) \/ SaveFinding(d) \/ AppendDecision(d)
  \/ \E k \in Keys : Enqueue(k)
  \/ ExportFirst \/ ExportNext \/ ExportLast
  \/ \E e \in Admins : \/ \E backup \in backups \cup {NoBackup} : DeleteLedger(e, backup)
                       \/ DeleteRows(e) \/ DeleteUploads(e)
                       \/ InsertBase(e) \/ InsertLedger(e) \/ Crash(e)
  \/ \E old \in SUBSET Docs : SweepLedger(old)
  \/ \E docs \in SUBSET Docs, keys \in SUBSET Keys, jobs \in SUBSET Keys :
       SweepBase(docs, keys, jobs)

Spec == Init /\ [][Next]_vars

-----------------------------------------------------------------------------
(* Properties *)

TypeOK ==
  /\ db \in Database
  /\ uploading \in [Docs -> Keys \cup {"none", "done"}]
  /\ born \subseteq {"uploads", "findings", "finding_decisions"} \X Docs
  /\ reads \in 0..5 /\ draft \in Backup /\ backups \subseteq Backup
  /\ at \in [Admins -> {"idle", "rows", "uploads", "base", "ledger", "done", "failed"}]
  /\ doomed \in [Admins -> Database] /\ from \in [Admins -> Backup]
  /\ disturbed \subseteq Operations \X Parties
  /\ \A t \in Tables : \A r, s \in db[t] : r.id = s.id => r = s
  /\ References(db)

Undisturbed(e) == ~\E x \in disturbed : x[1] = e

(* An export during which nothing commits can be restored: if nothing else commits       *)
(* meanwhile, the restore does not fail, and gives the tenant back as it was: every      *)
(* table, whatever was there when the restore began.                                     *)
RoundtripExact ==
  \A e \in Admins :
    at[e] \in {"done", "failed"} /\ Undisturbed(e) /\ from[e].disturbers = {} =>
      at[e] = "done" /\ db = from[e].first

(* export_tenant reads the uploads first and their bytes last.  What requests commit in  *)
(* between tears the backup, but where nothing was erased meanwhile the foreign key      *)
(* refuses it: a backup that can be restored has uploads and bytes of one instant, the   *)
(* first, and the upload each of its completed keys answers with, unless the tenant had  *)
(* lost it.                                                                              *)
TornIsRefused ==
  \A b \in backups : b.disturbers \subseteq {"request"} /\ References(b.tables) =>
    /\ \A t \in {"uploads", "document_blobs"} : b.tables[t] = b.first[t]
    /\ \A row \in b.tables["idempotency_keys"] :
         row.is \in Docs /\ row.is \in Ids(b.last["uploads"]) => row.is \in Ids(b.tables["uploads"])

(* docs/PRODUCTION_PLATFORM_V1.md: "a backup → tenant deletion → restore roundtrip       *)
(* recovers original PDF bytes, audit and queued work".  Nothing is erased during the    *)
(* export and nothing else commits during the restore: the bytes and jobs that were      *)
(* there when the export began are there again.                                          *)
RoundtripRecovers ==
  \A e \in Admins :
    at[e] \in {"done", "failed"} /\ Undisturbed(e) /\ from[e].disturbers \subseteq {"request"} =>
      \A t \in {"document_blobs", "jobs"} : from[e].first[t] \subseteq db[t]
=============================================================================
