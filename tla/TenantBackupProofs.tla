------------------------- MODULE TenantBackupProofs -------------------------
(***************************************************************************)
(* TenantBackup for any number of documents, keys, administrators, exports *)
(* and erasures.  The argument is about who has committed since an export  *)
(* or a restore began: nobody, and what it has read is what there is; only *)
(* the tenant's requests, and what it has read may lack rows but not any   *)
(* that were there at the first read.                                      *)
(***************************************************************************)
EXTENDS TenantBackup, TLAPS

\* A table as the requests write it: an id once, and no id before it was drawn.
SoundTable(t, S, drawn) ==
  /\ \A r, s \in S : r.id = s.id => r = s
  /\ \A r \in S :
       /\ t \in {"uploads", "findings", "finding_decisions"} => <<t, r.id>> \in drawn
       /\ t = "document_blobs" => <<"uploads", r.id>> \in drawn
       /\ t = "idempotency_keys" /\ r.is \in Docs => <<"uploads", r.is>> \in drawn
Sound(tables, drawn) == \A t \in Tables : SoundTable(t, tables[t], drawn)

Drawable == {"uploads", "findings", "finding_decisions"} \X Docs
Places == {"idle", "rows", "uploads", "base", "ledger", "done", "failed"}

TypeInv ==
  /\ db \in Database
  /\ uploading \in [Docs -> Keys \cup {"none", "done"}]
  /\ born \subseteq Drawable
  /\ reads \in 0..5 /\ draft \in Backup /\ backups \subseteq Backup
  /\ at \in [Admins -> Places]
  /\ doomed \in [Admins -> Database] /\ from \in [Admins -> Backup]
  /\ disturbed \subseteq Operations \X Parties

SoundInv ==
  /\ Sound(db, born) /\ Sound(draft.tables, born)
  /\ \A b \in backups : Sound(b.tables, born)
  /\ References(db)

FromInv ==
  \A e \in Admins : /\ from[e] \in backups \cup {NoBackup}
                    /\ at[e] \in {"base", "ledger", "done", "failed"} => from[e] # NoBackup

\* An export during which nothing has committed.
QuietInv ==
  reads > 0 /\ Undisturbed("export") =>
    /\ draft.first = db
    /\ \A i \in 1..reads : draft.tables[Reads[i]] = db[Reads[i]]

BackupInv ==
  \A b \in backups : b.disturbers = {} => b.tables = b.first /\ References(b.tables)

OnlyRequests == \A x \in disturbed : x[1] = "export" => x[2] = "request"

\* An export during which only requests have committed.  New bytes are those of new uploads,
\* and a key that answers with a new upload was read after the upload's bytes were there.
TornInv ==
  reads > 0 /\ OnlyRequests =>
    /\ draft.tables["uploads"] = draft.first["uploads"]
    /\ draft.first["uploads"] \subseteq db["uploads"]
    /\ draft.first["document_blobs"] \subseteq db["document_blobs"]
    /\ \A row \in db["uploads"] :
         row \in draft.first["uploads"] \/ row \in db["document_blobs"]
    /\ \A row \in db["document_blobs"] :
         row \in draft.first["document_blobs"] \/ row.id \notin Ids(draft.first["uploads"])
    /\ reads >= 4 =>
         /\ draft.first["document_blobs"] \subseteq draft.tables["document_blobs"]
         /\ \A row \in draft.tables["document_blobs"] :
              row \in draft.first["document_blobs"] \/ row.id \notin Ids(draft.first["uploads"])
         /\ \A row \in draft.tables["idempotency_keys"] :
              row.is \in Docs /\ row.is \in Ids(db["uploads"]) =>
                row.is \in Ids(draft.first["uploads"]) \cup Ids(draft.tables["document_blobs"])

\* What a restore that nobody has disturbed has left of the tenant, and made of it; only
\* the foreign key can have stopped it.
Restored(e) ==
  /\ at[e] \in {"rows", "uploads"} => \A t \in Ledger : db[t] = {}
  /\ at[e] = "uploads" => \A t \in Base \ {"uploads"} : doomed[e][t] = db[t]
  /\ at[e] = "base" => \A t \in Tables : db[t] = {}
  /\ at[e] = "ledger" => /\ \A t \in Base : db[t] = from[e].tables[t]
                         /\ \A t \in Ledger : db[t] = {}
  /\ at[e] = "done" => db = from[e].tables
  /\ at[e] = "failed" => ~References(from[e].tables)
RestoreInv == \A e \in Admins : from[e] # NoBackup /\ Undisturbed(e) => Restored(e)

BInv ==
  /\ TypeInv /\ SoundInv /\ FromInv /\ QuietInv /\ BackupInv /\ TornInv /\ TornIsRefused
  /\ RestoreInv

-----------------------------------------------------------------------------
(* Types of databases and backups *)

LEMMA EmptyTyped == Empty \in Database /\ NoBackup \in Backup
BY DEF Empty, Database, NoBackup, Backup

LEMMA BackupTyped ==
  ASSUME NEW b \in Backup
  PROVE  /\ b.tables \in Database /\ b.first \in Database /\ b.last \in Database
         /\ b.disturbers \subseteq Parties
BY DEF Backup

LEMMA ExportedTyped ==
  ASSUME NEW b \in Backup, NEW t \in Tables, db \in Database
  PROVE  /\ Exported(b, t) \in Backup
         /\ Exported(b, t).tables = [b.tables EXCEPT ![t] = db[t]]
         /\ Exported(b, t).first = b.first
BY DEF Exported, Backup, Database

LEMMA TablesListed ==
  /\ Tables = {"uploads", "document_blobs", "idempotency_keys", "jobs", "findings",
               "finding_decisions"}
  /\ \A i \in 1..6 : Reads[i] \in Tables
  /\ Reads[1] = "uploads" /\ Reads[2] = "idempotency_keys" /\ Reads[3] = "jobs"
  /\ Reads[4] = "document_blobs" /\ Reads[5] = "findings" /\ Reads[6] = "finding_decisions"
BY DEF Tables, Base, Ledger, Reads

LEMMA BaseAndLedger ==
  /\ Base \subseteq Tables /\ Ledger \subseteq Tables /\ Base \cap Ledger = {}
  /\ \A t \in Tables : t \in Base \/ t \in Ledger
BY DEF Tables, Base, Ledger

LEMMA SoundSubset ==
  ASSUME NEW t, NEW S, NEW T \in SUBSET S, NEW drawn, NEW more, drawn \subseteq more,
         SoundTable(t, S, drawn)
  PROVE  SoundTable(t, T, more)
BY DEF SoundTable

LEMMA SoundUnion ==
  ASSUME NEW t, NEW S, NEW T, NEW drawn, SoundTable(t, S, drawn), SoundTable(t, T, drawn),
         Ids(S) \cap Ids(T) = {}
  PROVE  SoundTable(t, S \cup T, drawn)
BY DEF SoundTable, Ids

LEMMA SoundEmpty ==
  ASSUME NEW t, NEW drawn
  PROVE  SoundTable(t, {}, drawn)
BY DEF SoundTable

LEMMA InitBInv == Init => BInv
<1> SUFFICES ASSUME Init PROVE BInv
  OBVIOUS
<1>1. TypeInv
  BY EmptyTyped DEF Init, TypeInv, Places
<1>2. Empty \in Database /\ NoBackup.tables = Empty /\ \A t \in Tables : Empty[t] = {}
  BY EmptyTyped DEF NoBackup, Empty
<1>3. SoundInv
  BY <1>2, SoundEmpty, TablesListed DEF Init, SoundInv, Sound, References, Ids
<1>4. FromInv /\ QuietInv /\ BackupInv /\ TornInv /\ TornIsRefused /\ RestoreInv
  BY DEF Init, FromInv, QuietInv, BackupInv, TornInv, TornIsRefused, RestoreInv
<1> QED
  BY <1>1, <1>3, <1>4 DEF BInv

-----------------------------------------------------------------------------
(* Commits *)

LEMMA CommitMarks ==
  ASSUME TypeInv, NEW who \in Admins \cup {"request", "sweep"}, NEW new, Commit(who, new)
  PROVE  /\ db' = new /\ disturbed \subseteq disturbed'
         /\ disturbed' \subseteq Operations \X Parties
         /\ \A o \in Operations \ {who} : Begun(o) => <<o, Party(who)>> \in disturbed'
         /\ Party(who) = IF who = "request" THEN "request" ELSE "admin"
BY DEF Commit, TypeInv, Parties, Party

\* To an export and to what earlier exports returned a commit is a disturbance.
LEMMA CommitKeeps ==
  ASSUME BInv, NEW who \in Admins \cup {"request", "sweep"}, NEW new \in Database,
         Commit(who, new), UNCHANGED exports,
         born \subseteq born', Sound(new, born'), References(new)
  PROVE  /\ SoundInv' /\ QuietInv' /\ BackupInv' /\ TornIsRefused'
         /\ who # "request" => TornInv'
<1>1. /\ db' = new /\ UNCHANGED <<reads, draft, backups>>
      /\ \A o \in Operations \ {who} : Begun(o) => <<o, Party(who)>> \in disturbed'
      /\ Party(who) = IF who = "request" THEN "request" ELSE "admin"
  BY CommitMarks DEF BInv, exports
<1>2. reads > 0 => <<"export", Party(who)>> \in disturbed'
  BY <1>1, BackupAssumption DEF Operations, Begun
<1>3. SoundInv'
  <2>1. Sound(draft.tables, born')
    BY SoundSubset DEF BInv, SoundInv, Sound
  <2>2. \A b \in backups : Sound(b.tables, born')
    BY SoundSubset DEF BInv, SoundInv, Sound
  <2> QED
    BY <1>1, <2>1, <2>2 DEF SoundInv, References
<1>4. QuietInv'
  BY <1>1, <1>2 DEF QuietInv, Undisturbed
<1>5. BackupInv' /\ TornIsRefused'
  BY <1>1 DEF BInv, BackupInv, TornIsRefused, References
<1>6. who # "request" => TornInv'
  BY <1>1, <1>2 DEF TornInv, OnlyRequests
<1> QED
  BY <1>3, <1>4, <1>5, <1>6

\* To a restore every commit but its own is one.
LEMMA RestoresOfOthers ==
  ASSUME BInv, NEW who \in Admins \cup {"request", "sweep"}, NEW new, Commit(who, new),
         NEW e \in Admins, e # who, at'[e] = at[e], doomed'[e] = doomed[e], from'[e] = from[e]
  PROVE  (from[e] # NoBackup /\ Undisturbed(e) => Restored(e))'
<1>1. from[e] # NoBackup => <<e, Party(who)>> \in disturbed'
  BY CommitMarks, BackupAssumption DEF BInv, Operations, Begun
<1> QED
  BY <1>1 DEF Undisturbed

-----------------------------------------------------------------------------
(* The tenant's requests *)

\* Requests only add uploads and bytes, both at once and under an id not drawn before.
LEMMA RequestKeeps ==
  ASSUME BInv, NEW new \in Database, Commit("request", new), UNCHANGED <<exports, erasers>>,
         uploading' \in [Docs -> Keys \cup {"none", "done"}],
         born \subseteq born', born' \subseteq Drawable,
         Sound(new, born'), References(new),
         db["uploads"] \subseteq new["uploads"],
         db["document_blobs"] \subseteq new["document_blobs"],
         \A row \in new["uploads"] \ db["uploads"] :
           <<"uploads", row.id>> \notin born /\ row \in new["document_blobs"],
         \A row \in new["document_blobs"] \ db["document_blobs"] :
           <<"uploads", row.id>> \notin born
  PROVE  BInv'
<1>1. /\ db' = new /\ disturbed' \subseteq Operations \X Parties /\ disturbed \subseteq disturbed'
      /\ UNCHANGED <<reads, draft, backups, at, doomed, from>>
  BY CommitMarks DEF BInv, exports, erasers
<1>2. TypeInv'
  BY <1>1 DEF BInv, TypeInv
<1>3. SoundInv' /\ QuietInv' /\ BackupInv' /\ TornIsRefused'
  BY CommitKeeps
<1>4. FromInv'
  BY <1>1 DEF BInv, FromInv
<1>5. TornInv'
  <2>1. SUFFICES ASSUME reads > 0, OnlyRequests' PROVE TornInv'
    BY <1>1 DEF TornInv
  <2>2. OnlyRequests
    BY <2>1, <1>1 DEF OnlyRequests
  <2> DEFINE first == draft.first
             read == draft.tables
  <2>3. /\ read["uploads"] = first["uploads"]
        /\ first["uploads"] \subseteq db["uploads"]
        /\ first["document_blobs"] \subseteq db["document_blobs"]
        /\ \A row \in db["uploads"] : row \in first["uploads"] \/ row \in db["document_blobs"]
        /\ \A row \in db["document_blobs"] :
             row \in first["document_blobs"] \/ row.id \notin Ids(first["uploads"])
        /\ reads >= 4 =>
             /\ first["document_blobs"] \subseteq read["document_blobs"]
             /\ \A row \in read["document_blobs"] :
                  row \in first["document_blobs"] \/ row.id \notin Ids(first["uploads"])
             /\ \A row \in read["idempotency_keys"] :
                  row.is \in Docs /\ row.is \in Ids(db["uploads"]) =>
                    row.is \in Ids(first["uploads"]) \cup Ids(read["document_blobs"])
    BY <2>1, <2>2 DEF BInv, TornInv
  <2>4. \A id \in Ids(first["uploads"]) : <<"uploads", id>> \in born
    BY <2>3, TablesListed DEF BInv, SoundInv, Sound, SoundTable, Ids
  <2>5. \A row \in read["idempotency_keys"] : row.is \in Docs => <<"uploads", row.is>> \in born
    BY TablesListed DEF BInv, SoundInv, Sound, SoundTable
  <2>6. \A row \in read["idempotency_keys"] :
          row.is \in Docs /\ row.is \in Ids(new["uploads"]) => row.is \in Ids(db["uploads"])
    BY <2>5 DEF Ids
  <2>7. \A row \in new["document_blobs"] :
          row \in first["document_blobs"] \/ row.id \notin Ids(first["uploads"])
    BY <2>3, <2>4
  <2>8. \A row \in new["uploads"] : row \in first["uploads"] \/ row \in new["document_blobs"]
    BY <2>3
  <2> QED
    BY <1>1, <2>3, <2>6, <2>7, <2>8 DEF TornInv
<1>6. RestoreInv'
  BY <1>1, RestoresOfOthers, BackupAssumption DEF RestoreInv
<1> QED
  BY <1>2, <1>3, <1>4, <1>5, <1>6 DEF BInv

LEMMA SoundWith ==
  ASSUME BInv, NEW t \in Tables, NEW row \in Rows, row.id \notin Ids(db[t]),
         NEW drawn, born \subseteq drawn, SoundTable(t, {row}, drawn)
  PROVE  SoundTable(t, db[t] \cup {row}, drawn)
<1>1. SoundTable(t, db[t], drawn)
  BY SoundSubset DEF BInv, SoundInv, Sound
<1> QED
  BY <1>1, SoundUnion DEF Ids

LEMMA SoundRest ==
  ASSUME BInv, born \subseteq born'
  PROVE  \A t \in Tables : SoundTable(t, db[t], born')
BY SoundSubset DEF BInv, SoundInv, Sound

LEMMA KeysKeep ==
  ASSUME BInv, NEW k \in Keys, Enqueue(k) \/ \E d \in Docs : Reserve(d, k)
  PROVE  BInv'
<1> DEFINE reserved == [id |-> k, is |-> "reserved"]
           queued == [id |-> k, is |-> "queued"]
<1>1. /\ reserved \in Rows /\ reserved.id = k /\ reserved.is \notin Docs
      /\ queued \in Rows /\ queued.id = k
  BY BackupAssumption DEF Rows
<1> HIDE DEF reserved, queued
<1>2. db \in Database /\ born \subseteq Drawable /\ uploading \in [Docs -> Keys \cup {"none", "done"}]
  BY DEF BInv, TypeInv
<1>3. CASE \E d \in Docs : Reserve(d, k)
  <2>0. PICK d \in Docs : Reserve(d, k)
    BY <1>3
  <2> DEFINE new == [db EXCEPT !["idempotency_keys"] = db["idempotency_keys"] \cup {reserved}]
  <2>1. /\ k \notin Ids(db["idempotency_keys"]) /\ Commit("request", new)
        /\ UNCHANGED <<born, exports, erasers>>
        /\ uploading' = [uploading EXCEPT ![d] = k]
    BY <2>0 DEF Reserve, reserved
  <2>2. SoundTable("idempotency_keys", {reserved}, born')
    BY <1>1 DEF SoundTable
  <2>3. /\ new \in Database /\ \A t \in Tables \ {"idempotency_keys"} : new[t] = db[t]
        /\ new["idempotency_keys"] = db["idempotency_keys"] \cup {reserved}
    BY <1>1, <1>2, TablesListed DEF Database
  <2> HIDE DEF new
  <2>4. Sound(new, born')
    BY <1>1, <2>1, <2>2, <2>3, SoundWith, SoundRest, TablesListed DEF Sound
  <2>5. References(new)
    BY <2>3, TablesListed DEF BInv, SoundInv, References
  <2> QED
    BY <1>2, <2>1, <2>3, <2>4, <2>5, RequestKeeps, TablesListed
<1>4. CASE Enqueue(k)
  <2> DEFINE new == [db EXCEPT !["jobs"] = db["jobs"] \cup {queued}]
  <2>1. /\ k \notin Ids(db["jobs"]) /\ Commit("request", new)
        /\ UNCHANGED <<uploading, born, exports, erasers>>
    BY <1>4 DEF Enqueue, queued, requests
  <2>2. SoundTable("jobs", {queued}, born')
    BY DEF SoundTable
  <2>3. /\ new \in Database /\ \A t \in Tables \ {"jobs"} : new[t] = db[t]
        /\ new["jobs"] = db["jobs"] \cup {queued}
    BY <1>1, <1>2, TablesListed DEF Database
  <2> HIDE DEF new
  <2>4. Sound(new, born')
    BY <1>1, <2>1, <2>2, <2>3, SoundWith, SoundRest, TablesListed DEF Sound
  <2>5. References(new)
    BY <2>3, TablesListed DEF BInv, SoundInv, References
  <2> QED
    BY <1>2, <2>1, <2>3, <2>4, <2>5, RequestKeeps, TablesListed
<1> QED
  BY <1>3, <1>4

LEMMA StoredRow ==
  ASSUME NEW d \in Docs
  PROVE  Stored(d) \in Rows /\ Stored(d).id = d /\ Stored(d).is \notin Docs
BY BackupAssumption DEF Stored, Rows

LEMMA SaveUploadKeeps ==
  ASSUME BInv, NEW d \in Docs, SaveUpload(d)
  PROVE  BInv'
<1> DEFINE new == [db EXCEPT !["uploads"] = db["uploads"] \cup {Stored(d)},
                             !["document_blobs"] = db["document_blobs"] \cup {Stored(d)}]
<1>1. /\ db \in Database /\ born \subseteq Drawable
      /\ uploading \in [Docs -> Keys \cup {"none", "done"}]
  BY DEF BInv, TypeInv
<1>2. /\ <<"uploads", d>> \notin born /\ born' = born \cup {<<"uploads", d>>}
      /\ Commit("request", new) /\ UNCHANGED <<uploading, exports, erasers>>
  BY DEF SaveUpload
<1>3. /\ new \in Database /\ \A t \in Tables \ {"uploads", "document_blobs"} : new[t] = db[t]
      /\ \A t \in {"uploads", "document_blobs"} : new[t] = db[t] \cup {Stored(d)}
  BY <1>1, StoredRow, TablesListed DEF Database
<1> HIDE DEF new
<1>4. \A t \in {"uploads", "document_blobs"} :
        d \notin Ids(db[t]) /\ SoundTable(t, {Stored(d)}, born')
  BY <1>2, StoredRow, TablesListed DEF BInv, SoundInv, Sound, SoundTable, Ids
<1>5. Sound(new, born')
  BY <1>2, <1>3, <1>4, StoredRow, SoundWith, SoundRest, TablesListed DEF Sound
<1>6. References(new)
  BY <1>3 DEF BInv, SoundInv, References, Ids
<1>7. born' \subseteq Drawable
  BY <1>1, <1>2 DEF Drawable
<1> QED
  BY <1>1, <1>2, <1>3, <1>5, <1>6, <1>7, StoredRow, RequestKeeps

LEMMA CompleteKeyKeeps ==
  ASSUME BInv, NEW d \in Docs, CompleteKey(d)
  PROVE  BInv'
<1> DEFINE k == uploading[d]
           found == {row \in db["idempotency_keys"] : row.id = k}
           answered == {[id |-> row.id, is |-> d] : row \in found}
           completed == (db["idempotency_keys"] \ found) \cup answered
           new == [db EXCEPT !["idempotency_keys"] = completed]
<1>1. /\ db \in Database /\ born \subseteq Drawable
      /\ uploading \in [Docs -> Keys \cup {"none", "done"}]
  BY DEF BInv, TypeInv
<1>2. /\ k \in Keys /\ <<"uploads", d>> \in born
      /\ Commit("request", new) /\ UNCHANGED <<born, exports, erasers>>
      /\ uploading' \in [Docs -> Keys \cup {"none", "done"}]
  BY <1>1 DEF CompleteKey
<1>3. \A row \in answered : row \in Rows /\ row.id = k /\ row.is = d
  BY <1>2 DEF Rows
<1>4. \A r, s \in answered : r = s
  OBVIOUS
<1>5. SoundTable("idempotency_keys", answered, born')
  BY <1>2, <1>3, <1>4 DEF SoundTable
<1>6. SoundTable("idempotency_keys", db["idempotency_keys"] \ found, born')
  BY <1>2, SoundRest, SoundSubset, TablesListed
<1>7. Ids(db["idempotency_keys"] \ found) \cap Ids(answered) = {}
  BY <1>3 DEF Ids
<1> HIDE DEF found, answered
<1>8. SoundTable("idempotency_keys", completed, born')
  BY <1>5, <1>6, <1>7, SoundUnion
<1>9. completed \subseteq Rows
  BY <1>1, <1>3, TablesListed DEF Database
<1> HIDE DEF completed
<1>10. /\ new \in Database /\ \A t \in Tables \ {"idempotency_keys"} : new[t] = db[t]
       /\ new["idempotency_keys"] = completed
  BY <1>1, <1>9, TablesListed DEF Database
<1> HIDE DEF new
<1>11. Sound(new, born')
  BY <1>2, <1>8, <1>10, SoundRest DEF Sound
<1>12. References(new)
  BY <1>10, TablesListed DEF BInv, SoundInv, References
<1> QED
  BY <1>1, <1>2, <1>10, <1>11, <1>12, RequestKeeps, TablesListed

LEMMA AppendKeeps ==
  ASSUME BInv, NEW d \in Docs, SaveFinding(d) \/ AppendDecision(d)
  PROVE  BInv'
<1>1. ASSUME NEW t \in Ledger, NEW after, Append(t, after, d) PROVE BInv'
  <2> DEFINE new == [db EXCEPT ![t] = db[t] \cup {Stored(d)}]
  <2>1. /\ db \in Database /\ born \subseteq Drawable /\ t \in Tables
        /\ uploading \in [Docs -> Keys \cup {"none", "done"}]
        /\ t \notin {"uploads", "document_blobs", "idempotency_keys"}
    BY TablesListed DEF BInv, TypeInv, Ledger
  <2>2. /\ <<t, d>> \notin born /\ born' = born \cup {<<t, d>>}
        /\ Commit("request", new) /\ UNCHANGED <<uploading, exports, erasers>>
    BY <1>1 DEF Append
  <2>3. /\ new \in Database /\ \A u \in Tables \ {t} : new[u] = db[u]
        /\ new[t] = db[t] \cup {Stored(d)}
    BY <2>1, StoredRow DEF Database
  <2> HIDE DEF new
  <2>4. d \notin Ids(db[t]) /\ SoundTable(t, {Stored(d)}, born')
    BY <2>1, <2>2, StoredRow DEF BInv, SoundInv, Sound, SoundTable, Ids, Ledger
  <2>5. Sound(new, born')
    <3>1. SoundTable(t, db[t] \cup {Stored(d)}, born')
      BY <2>1, <2>2, <2>4, StoredRow, SoundWith
    <3>2. \A u \in Tables : SoundTable(u, db[u], born')
      BY <2>2, SoundRest
    <3> QED
      BY <2>3, <3>1, <3>2 DEF Sound
  <2>6. References(new)
    BY <2>1, <2>3, TablesListed DEF BInv, SoundInv, References
  <2>7. born' \subseteq Drawable
    BY <2>1, <2>2 DEF Drawable, Ledger
  <2> QED
    BY <2>1, <2>2, <2>3, <2>5, <2>6, <2>7, RequestKeeps, TablesListed
<1> QED
  BY <1>1 DEF SaveFinding, AppendDecision, Ledger

-----------------------------------------------------------------------------
(* Exports *)

\* The committed rows and what they must satisfy are the same before and after a read.
LEMMA ExportSees ==
  ASSUME BInv, ExportFirst \/ ExportNext \/ ExportLast
  PROVE  /\ UNCHANGED <<db, uploading, born, at, doomed, from, erasures>>
         /\ disturbed' \subseteq disturbed
         /\ \A e \in Admins : Undisturbed(e)' => Undisturbed(e)
         /\ RestoreInv'
<1>1. /\ UNCHANGED <<db, uploading, born, at, doomed, from, erasures>>
      /\ disturbed' \subseteq disturbed
      /\ \A x \in disturbed : x[1] # "export" => x \in disturbed'
  BY DEF ExportFirst, ExportNext, ExportLast, requests, erasers
<1>2. \A e \in Admins : Undisturbed(e)' => Undisturbed(e)
  BY <1>1, BackupAssumption DEF Undisturbed
<1>3. \A e \in Admins : Restored(e) => Restored(e)'
  BY <1>1 DEF Restored
<1> QED
  BY <1>1, <1>2, <1>3 DEF BInv, RestoreInv

LEMMA ExportFirstKeeps ==
  ASSUME BInv, ExportFirst
  PROVE  BInv'
<1> DEFINE begun == [NoBackup EXCEPT !.first = db]
<1>1. /\ reads' = 1 /\ draft' = Exported(begun, "uploads")
      /\ UNCHANGED <<db, uploading, born, backups, at, doomed, from, disturbed>>
  BY TablesListed DEF ExportFirst, ExportOrder, requests, erasers
<1>2. /\ db \in Database /\ begun \in Backup /\ begun.first = db
      /\ begun.tables = [t \in Tables |-> {}]
  BY EmptyTyped DEF BInv, TypeInv, Backup, NoBackup, Empty
<1> HIDE DEF begun
<1>3. /\ draft' \in Backup /\ draft'.first = db
      /\ draft'.tables = [begun.tables EXCEPT !["uploads"] = db["uploads"]]
  BY <1>1, <1>2, ExportedTyped, TablesListed
<1>4. /\ draft'.tables["uploads"] = db["uploads"]
      /\ \A t \in Tables \ {"uploads"} : draft'.tables[t] = {}
  BY <1>2, <1>3, TablesListed
<1>5. TypeInv' /\ FromInv' /\ BackupInv' /\ TornIsRefused'
  BY <1>1, <1>3 DEF BInv, TypeInv, FromInv, BackupInv, TornIsRefused, References
<1>6. Sound(draft'.tables, born)
  BY <1>4, SoundEmpty DEF BInv, SoundInv, Sound
<1>7. SoundInv'
  BY <1>1, <1>6 DEF BInv, SoundInv, References
<1>8. QuietInv'
  BY <1>1, <1>3, <1>4, TablesListed DEF QuietInv
<1>9. TornInv'
  BY <1>1, <1>3, <1>4 DEF TornInv, Ids
<1> QED
  BY <1>5, <1>7, <1>8, <1>9, ExportSees DEF BInv

LEMMA ReadsDiffer ==
  ASSUME NEW i \in 1..6, NEW j \in 1..6, Reads[i] = Reads[j]
  PROVE  i = j
<1>1. i \in {1, 2, 3, 4, 5, 6} /\ j \in {1, 2, 3, 4, 5, 6}
  OBVIOUS
<1> QED
  BY <1>1, TablesListed

LEMMA ExportNextKeeps ==
  ASSUME BInv, ExportNext
  PROVE  BInv'
<1> DEFINE t == Reads[reads + 1]
<1>1. /\ reads \in 1..4 /\ reads' = reads + 1 /\ draft' = Exported(draft, t)
      /\ UNCHANGED <<db, uploading, born, backups, at, doomed, from, disturbed>>
  BY DEF ExportNext, ExportOrder, requests, erasers
<1>2. /\ t \in Tables /\ db \in Database /\ draft \in Backup /\ reads + 1 \in 1..6
      /\ reads + 1 # 1
  BY <1>1, TablesListed DEF BInv, TypeInv
<1>3. t # "uploads" /\ \A i \in 1..reads : Reads[i] # t /\ Reads[i] \in Tables
  BY <1>1, <1>2, ReadsDiffer, TablesListed
<1>4. reads = 1 \/ reads = 2 \/ reads = 3 \/ reads = 4
  BY <1>1
<1>5. /\ reads = 3 => t = "document_blobs"
      /\ reads = 4 => t = "findings"
  BY TablesListed
<1> HIDE DEF t
<1>6. /\ draft' \in Backup /\ draft'.first = draft.first
      /\ draft'.tables = [draft.tables EXCEPT ![t] = db[t]]
  BY <1>1, <1>2, ExportedTyped
<1>7. draft'.tables[t] = db[t] /\ \A u \in Tables \ {t} : draft'.tables[u] = draft.tables[u]
  BY <1>2, <1>6, BackupTyped DEF Database
<1>8. TypeInv' /\ FromInv' /\ BackupInv' /\ TornIsRefused'
  <2>1. TypeInv' /\ FromInv'
    BY <1>1, <1>6 DEF BInv, TypeInv, FromInv
  <2>2. BackupInv' /\ TornIsRefused'
    BY <1>1 DEF BInv, BackupInv, TornIsRefused, References
  <2> QED
    BY <2>1, <2>2
<1>9. Sound(draft'.tables, born)
  BY <1>2, <1>7 DEF BInv, SoundInv, Sound
<1>10. SoundInv'
  BY <1>1, <1>9 DEF BInv, SoundInv, References
<1>11. QuietInv'
  <2>1. SUFFICES ASSUME Undisturbed("export"), NEW i \in 1..(reads + 1)
                 PROVE  draft.first = db /\ draft'.tables[Reads[i]] = db[Reads[i]]
    BY <1>1, <1>6 DEF QuietInv, Undisturbed
  <2>2. draft.first = db /\ \A j \in 1..reads : draft.tables[Reads[j]] = db[Reads[j]]
    BY <1>1, <2>1 DEF BInv, QuietInv
  <2>3. CASE i = reads + 1
    BY <2>2, <2>3, <1>7 DEF t
  <2>4. CASE i # reads + 1
    <3>1. i \in 1..reads
      BY <1>1, <2>1, <2>4
    <3> QED
      BY <3>1, <2>2, <1>3, <1>7
  <2> QED
    BY <2>3, <2>4
<1>12. TornInv'
  <2>1. SUFFICES ASSUME OnlyRequests PROVE TornInv'
    BY <1>1 DEF TornInv, OnlyRequests
  <2>2. draft'.tables["uploads"] = draft.tables["uploads"]
    BY <1>3, <1>7, TablesListed
  <2>3. CASE reads = 3
    <3>1. /\ draft'.tables["document_blobs"] = db["document_blobs"]
          /\ draft'.tables["idempotency_keys"] = draft.tables["idempotency_keys"]
      BY <2>3, <1>5, <1>7, TablesListed
    <3>2. \A id \in Ids(db["uploads"]) :
            id \in Ids(draft.first["uploads"]) \cup Ids(db["document_blobs"])
      BY <1>1, <2>1 DEF BInv, TornInv, Ids
    <3> QED
      BY <1>1, <1>6, <2>1, <2>2, <3>1, <3>2 DEF BInv, TornInv
  <2>4. CASE reads = 4
    <3>1. /\ draft'.tables["document_blobs"] = draft.tables["document_blobs"]
          /\ draft'.tables["idempotency_keys"] = draft.tables["idempotency_keys"]
      BY <2>4, <1>5, <1>7, TablesListed
    <3> QED
      BY <1>1, <1>6, <2>1, <2>2, <2>4, <3>1 DEF BInv, TornInv
  <2>5. CASE reads < 3
    BY <1>1, <1>6, <2>1, <2>2, <2>5 DEF BInv, TornInv
  <2> QED
    BY <1>4, <2>3, <2>4, <2>5
<1> QED
  BY <1>8, <1>10, <1>11, <1>12, ExportSees DEF BInv

LEMMA ExportLastKeeps ==
  ASSUME BInv, ExportLast
  PROVE  BInv'
<1> DEFINE by == {x[2] : x \in {y \in disturbed : y[1] = "export"}}
           ended == Exported(draft, "finding_decisions")
           b == [ended EXCEPT !.last = db, !.disturbers = by]
<1>1. /\ reads = 5 /\ reads' = 0 /\ draft' = NoBackup /\ backups' = backups \cup {b}
      /\ disturbed' \subseteq disturbed
      /\ UNCHANGED <<db, uploading, born, at, doomed, from>>
  BY TablesListed DEF ExportLast, ExportOrder, requests, erasers
<1>2. db \in Database /\ draft \in Backup /\ disturbed \subseteq Operations \X Parties
  BY DEF BInv, TypeInv
<1>3. by \subseteq Parties
  BY <1>2
<1>4. /\ by = {} => Undisturbed("export")
      /\ by \subseteq {"request"} => OnlyRequests
  BY DEF Undisturbed, OnlyRequests
<1>5. /\ ended \in Backup /\ ended.first = draft.first
      /\ ended.tables = [draft.tables EXCEPT !["finding_decisions"] = db["finding_decisions"]]
  BY <1>2, ExportedTyped, TablesListed
<1> HIDE DEF by, ended
<1>6. /\ b \in Backup /\ b.first = draft.first /\ b.tables = ended.tables
      /\ b.last = db /\ b.disturbers = by
  BY <1>2, <1>3, <1>5 DEF Backup
<1> HIDE DEF b
<1>7. /\ b.tables["finding_decisions"] = db["finding_decisions"]
      /\ \A t \in Tables \ {"finding_decisions"} : b.tables[t] = draft.tables[t]
      /\ b.tables \in Database /\ b.first \in Database
  BY <1>2, <1>5, <1>6, BackupTyped, TablesListed DEF Database
<1>8. TypeInv'
  BY <1>1, <1>6, EmptyTyped DEF BInv, TypeInv
<1>9. SoundInv'
  <2>1. Sound(b.tables, born)
    BY <1>7 DEF BInv, SoundInv, Sound
  <2>2. Sound(NoBackup.tables, born)
    BY SoundEmpty DEF Sound, NoBackup, Empty
  <2> QED
    BY <1>1, <2>1, <2>2 DEF BInv, SoundInv, References
<1>10. FromInv'
  BY <1>1 DEF BInv, FromInv
<1>11. QuietInv' /\ TornInv'
  BY <1>1 DEF QuietInv, TornInv
<1>12. BackupInv'
  <2>1. ASSUME b.disturbers = {} PROVE b.tables = b.first /\ References(b.tables)
    <3>1. draft.first = db /\ \A i \in 1..5 : draft.tables[Reads[i]] = db[Reads[i]]
      BY <1>1, <1>4, <1>6, <2>1 DEF BInv, QuietInv
    <3>2. \A t \in Tables : b.tables[t] = db[t]
      BY <3>1, <1>7, TablesListed
    <3>3. b.tables = db
      BY <3>2, <1>2, <1>7 DEF Database
    <3> QED
      BY <3>1, <3>3, <1>6 DEF BInv, SoundInv
  <2> QED
    BY <1>1, <2>1 DEF BInv, BackupInv, References
<1>13. TornIsRefused'
  <2>1. ASSUME b.disturbers \subseteq {"request"}, References(b.tables)
        PROVE  /\ \A t \in {"uploads", "document_blobs"} : b.tables[t] = b.first[t]
               /\ \A row \in b.tables["idempotency_keys"] :
                    row.is \in Docs /\ row.is \in Ids(b.last["uploads"]) =>
                      row.is \in Ids(b.tables["uploads"])
    <3> DEFINE first == draft.first
               read == draft.tables
    <3>1. /\ read["uploads"] = first["uploads"]
          /\ first["document_blobs"] \subseteq read["document_blobs"]
          /\ \A row \in read["document_blobs"] :
               row \in first["document_blobs"] \/ row.id \notin Ids(first["uploads"])
          /\ \A row \in read["idempotency_keys"] :
               row.is \in Docs /\ row.is \in Ids(db["uploads"]) =>
                 row.is \in Ids(first["uploads"]) \cup Ids(read["document_blobs"])
      BY <1>1, <1>4, <1>6, <2>1 DEF BInv, TornInv
    <3>2. /\ b.tables["uploads"] = read["uploads"]
          /\ b.tables["document_blobs"] = read["document_blobs"]
          /\ b.tables["idempotency_keys"] = read["idempotency_keys"]
      BY <1>7, TablesListed
    <3>3. Ids(read["document_blobs"]) \subseteq Ids(first["uploads"])
      BY <2>1, <3>1, <3>2 DEF References
    <3>4. read["document_blobs"] = first["document_blobs"]
      BY <3>1, <3>3 DEF Ids
    <3> QED
      BY <3>1, <3>2, <3>3, <3>4, <1>6
  <2> QED
    BY <1>1, <2>1 DEF BInv, TornIsRefused, References
<1> QED
  BY <1>8, <1>9, <1>10, <1>11, <1>12, <1>13, ExportSees DEF BInv

-----------------------------------------------------------------------------
(* Deletions and restores *)

\* After a commit of e's own, the other restores know that they were disturbed.
LEMMA OthersRestore ==
  ASSUME BInv, NEW e \in Admins, NEW new, Commit(e, new),
         \A f \in Admins \ {e} : at'[f] = at[f] /\ doomed'[f] = doomed[f] /\ from'[f] = from[f],
         from'[e] # NoBackup /\ Undisturbed(e)' => Restored(e)'
  PROVE  RestoreInv'
<1>1. ASSUME NEW f \in Admins \ {e}
      PROVE  (from[f] # NoBackup /\ Undisturbed(f) => Restored(f))'
  BY <1>1, RestoresOfOthers
<1> QED
  BY <1>1 DEF RestoreInv

\* A step of e that commits nothing leaves the other restores alone.
LEMMA OthersRest ==
  ASSUME BInv, NEW e \in Admins, UNCHANGED <<db, disturbed>>,
         \A f \in Admins \ {e} : at'[f] = at[f] /\ doomed'[f] = doomed[f] /\ from'[f] = from[f],
         from'[e] # NoBackup /\ Undisturbed(e)' => Restored(e)'
  PROVE  RestoreInv'
<1>1. ASSUME NEW f \in Admins \ {e}
      PROVE  (from[f] # NoBackup /\ Undisturbed(f) => Restored(f))'
  BY <1>1 DEF BInv, RestoreInv, Undisturbed, Restored
<1> QED
  BY <1>1 DEF RestoreInv

LEMMA WithoutLedgerSound ==
  ASSUME BInv
  PROVE  /\ WithoutLedger \in Database /\ Sound(WithoutLedger, born) /\ References(WithoutLedger)
         /\ \A t \in Ledger : WithoutLedger[t] = {}
<1>1. db \in Database
  BY DEF BInv, TypeInv
<1>2. \A t \in Tables : WithoutLedger[t] = IF t \in Ledger THEN {} ELSE db[t]
  BY DEF WithoutLedger
<1>3. WithoutLedger \in Database
  BY <1>1 DEF WithoutLedger, Database
<1>4. Sound(WithoutLedger, born)
  BY <1>2, SoundEmpty DEF BInv, SoundInv, Sound
<1>5. References(WithoutLedger) /\ \A t \in Ledger : WithoutLedger[t] = {}
  BY <1>2, TablesListed DEF BInv, SoundInv, References, Ledger
<1> QED
  BY <1>3, <1>4, <1>5

LEMMA DeleteLedgerKeeps ==
  ASSUME BInv, NEW e \in Admins, NEW backup \in backups \cup {NoBackup}, DeleteLedger(e, backup)
  PROVE  BInv'
<1>1. /\ Commit(e, WithoutLedger) /\ from' = [from EXCEPT ![e] = backup]
      /\ at' = [at EXCEPT ![e] = "rows"] /\ UNCHANGED <<uploading, born, reads, draft, backups, doomed>>
  BY DEF DeleteLedger, Goto, requests, exports
<1>2. /\ db' = WithoutLedger /\ disturbed' \subseteq Operations \X Parties
  BY <1>1, CommitMarks DEF BInv
<1>3. /\ at \in [Admins -> Places] /\ from \in [Admins -> Backup] /\ backup \in Backup
  BY EmptyTyped DEF BInv, TypeInv
<1>4. TypeInv'
  BY <1>1, <1>2, <1>3, WithoutLedgerSound DEF BInv, TypeInv, Places
<1>5. SoundInv' /\ QuietInv' /\ BackupInv' /\ TornIsRefused' /\ TornInv'
  BY <1>1, WithoutLedgerSound, CommitKeeps, BackupAssumption DEF exports
<1>6. FromInv'
  BY <1>1, <1>3 DEF BInv, FromInv
<1>7. Restored(e)'
  BY <1>1, <1>2, <1>3, WithoutLedgerSound DEF Restored
<1>8. RestoreInv'
  BY <1>1, <1>3, <1>7, OthersRestore
<1> QED
  BY <1>4, <1>5, <1>6, <1>8 DEF BInv

LEMMA DeleteRowsKeeps ==
  ASSUME BInv, NEW e \in Admins, DeleteRows(e)
  PROVE  BInv'
<1> DEFINE emptied == Base \ {"uploads"}
           rows == [t \in Tables |-> IF t \in emptied THEN db[t] ELSE {}]
<1>1. /\ at[e] = "rows" /\ doomed' = [doomed EXCEPT ![e] = rows]
      /\ at' = [at EXCEPT ![e] = "uploads"]
      /\ UNCHANGED <<db, uploading, born, reads, draft, backups, from, disturbed>>
  BY DEF DeleteRows, Goto, requests, exports
<1>2. /\ db \in Database /\ at \in [Admins -> Places] /\ doomed \in [Admins -> Database]
  BY DEF BInv, TypeInv
<1>3. rows \in Database /\ \A t \in emptied : rows[t] = db[t]
  BY <1>2 DEF Database, Tables
<1> HIDE DEF rows
<1>4. TypeInv'
  BY <1>1, <1>2, <1>3 DEF BInv, TypeInv, Places
<1>5. SoundInv' /\ QuietInv' /\ BackupInv' /\ TornIsRefused' /\ TornInv'
  BY <1>1 DEF BInv, SoundInv, QuietInv, Undisturbed, BackupInv, TornIsRefused, TornInv,
              OnlyRequests, References
<1>6. FromInv'
  BY <1>1, <1>2 DEF BInv, FromInv
<1>7. from'[e] # NoBackup /\ Undisturbed(e)' => Restored(e)'
  BY <1>1, <1>2, <1>3 DEF BInv, RestoreInv, Restored, Undisturbed
<1>8. RestoreInv'
  BY <1>1, <1>2, <1>7, OthersRest
<1> QED
  BY <1>4, <1>5, <1>6, <1>8 DEF BInv

LEMMA DeleteUploadsKeeps ==
  ASSUME BInv, NEW e \in Admins, DeleteUploads(e)
  PROVE  BInv'
<1> DEFINE new == WithoutBase(e)
<1>1. /\ at[e] = "uploads" /\ Commit(e, new) /\ doomed' = [doomed EXCEPT ![e] = Empty]
      /\ at' = [at EXCEPT ![e] = IF from[e] = NoBackup THEN "idle" ELSE "base"]
      /\ UNCHANGED <<uploading, born, reads, draft, backups, from>>
  BY DEF DeleteUploads, Goto, requests, exports
<1>2. /\ db \in Database /\ at \in [Admins -> Places] /\ doomed \in [Admins -> Database]
      /\ Empty \in Database
  BY EmptyTyped DEF BInv, TypeInv
<1>3. /\ db' = new /\ disturbed' \subseteq Operations \X Parties /\ disturbed \subseteq disturbed'
  BY <1>1, CommitMarks DEF BInv
<1>4. /\ new \in Database /\ new["document_blobs"] = {} /\ new["uploads"] = {}
      /\ \A t \in Tables \ {"uploads", "document_blobs"} : new[t] = db[t] \ doomed[e][t]
      /\ \A t \in Tables : new[t] \subseteq db[t]
  BY <1>2, TablesListed DEF WithoutBase, Database
<1> HIDE DEF new
<1>5. Sound(new, born) /\ References(new)
  <2>1. Sound(new, born)
    BY <1>4, SoundSubset DEF BInv, SoundInv, Sound
  <2> QED
    BY <1>4, <2>1 DEF References, Ids
<1>6. TypeInv'
  BY <1>1, <1>2, <1>3, <1>4 DEF BInv, TypeInv, Places
<1>7. SoundInv' /\ QuietInv' /\ BackupInv' /\ TornIsRefused' /\ TornInv'
  BY <1>1, <1>4, <1>5, CommitKeeps, BackupAssumption DEF exports
<1>8. FromInv'
  BY <1>1, <1>2 DEF BInv, FromInv
<1>9. ASSUME from'[e] # NoBackup, Undisturbed(e)' PROVE Restored(e)'
  <2>1. Restored(e) /\ at'[e] = "base"
    BY <1>1, <1>2, <1>3, <1>9 DEF BInv, RestoreInv, Undisturbed
  <2>2. \A t \in Tables : new[t] = {}
    BY <1>1, <1>4, <2>1, TablesListed DEF Restored, Base, Ledger
  <2> QED
    BY <1>3, <2>1, <2>2 DEF Restored
<1>10. RestoreInv'
  BY <1>1, <1>2, <1>9, OthersRestore
<1> QED
  BY <1>6, <1>7, <1>8, <1>10 DEF BInv

\* What an insertion into some tables makes of the database.
LEMMA InsertSound ==
  ASSUME BInv, NEW tables \in Database, Sound(tables, born), References(tables),
         NEW ts \in {Base, Ledger},
         \A t \in ts : Ids(tables[t]) \cap Ids(db[t]) = {}
  PROVE  LET new == [t \in Tables |-> IF t \in ts THEN db[t] \cup tables[t] ELSE db[t]]
         IN  new \in Database /\ Sound(new, born) /\ References(new)
<1> DEFINE new == [t \in Tables |-> IF t \in ts THEN db[t] \cup tables[t] ELSE db[t]]
<1>1. db \in Database /\ ts \subseteq Tables
  BY DEF BInv, TypeInv, Tables
<1>2. new \in Database
  BY <1>1 DEF Database
<1>3. \A t \in Tables : new[t] = IF t \in ts THEN db[t] \cup tables[t] ELSE db[t]
  OBVIOUS
<1> HIDE DEF new
<1>4. \A t \in Tables : SoundTable(t, new[t], born)
  <2>1. ASSUME NEW t \in Tables PROVE SoundTable(t, new[t], born)
    <3>1. SoundTable(t, db[t], born) /\ SoundTable(t, tables[t], born)
      BY DEF BInv, SoundInv, Sound
    <3>2. CASE t \in ts
      <4>1. Ids(db[t]) \cap Ids(tables[t]) = {}
        BY <3>2
      <4>2. SoundTable(t, db[t] \cup tables[t], born)
        BY <3>1, <4>1, SoundUnion
      <4> QED
        BY <1>3, <3>2, <4>2
    <3>3. CASE t \notin ts
      BY <1>3, <3>1, <3>3
    <3> QED
      BY <3>2, <3>3
  <2> QED
    BY <2>1
<1>5. References(new)
  BY <1>3, TablesListed DEF BInv, SoundInv, References, Ids, Base, Ledger
<1> QED
  BY <1>2, <1>4, <1>5 DEF Sound, new

LEMMA InsertKeeps ==
  ASSUME BInv, NEW e \in Admins, InsertBase(e) \/ InsertLedger(e)
  PROVE  BInv'
<1>1. ASSUME NEW ts \in {Base, Ledger}, NEW next \in {"ledger", "done"},
             \/ ts = Base /\ next = "ledger" /\ at[e] = "base"
             \/ ts = Ledger /\ next = "done" /\ at[e] = "ledger",
             Insert(e, ts, next)
      PROVE  BInv'
  <2> DEFINE tables == from[e].tables
             new == [t \in Tables |-> IF t \in ts THEN db[t] \cup tables[t] ELSE db[t]]
  <2>1. /\ db \in Database /\ at \in [Admins -> Places] /\ from[e] \in Backup
        /\ from[e] # NoBackup /\ from[e] \in backups
    BY <1>1 DEF BInv, TypeInv, FromInv
  <2>2. tables \in Database /\ Sound(tables, born)
    BY <2>1, BackupTyped DEF BInv, SoundInv
  <2>3. UNCHANGED <<uploading, born, reads, draft, backups, doomed, from>>
    BY <1>1 DEF Insert, requests, exports
  <2>4. CASE /\ References(tables) /\ \A t \in ts : Ids(tables[t]) \cap Ids(db[t]) = {}
             /\ Commit(e, new) /\ at' = [at EXCEPT ![e] = next]
    <3>1. new \in Database /\ Sound(new, born) /\ References(new)
      BY <1>1, <2>2, <2>4, InsertSound
    <3>2. \A t \in Tables : new[t] = IF t \in ts THEN db[t] \cup tables[t] ELSE db[t]
      OBVIOUS
    <3> HIDE DEF new
    <3>3. /\ db' = new /\ disturbed' \subseteq Operations \X Parties
          /\ disturbed \subseteq disturbed' /\ at'[e] = next
      BY <2>1, <2>4, CommitMarks DEF BInv
    <3>4. TypeInv'
      BY <2>1, <2>3, <2>4, <3>1, <3>3 DEF BInv, TypeInv, Places
    <3>5. SoundInv' /\ QuietInv' /\ BackupInv' /\ TornIsRefused' /\ TornInv'
      BY <2>3, <2>4, <3>1, CommitKeeps, BackupAssumption DEF exports
    <3>6. FromInv'
      BY <2>1, <2>3, <2>4 DEF BInv, FromInv
    <3>7. ASSUME Undisturbed(e)' PROVE Restored(e)'
      <4>1. Restored(e)
        BY <2>1, <3>3, <3>7 DEF BInv, RestoreInv, Undisturbed
      <4>2. CASE next = "ledger"
        <5>1. ts = Base /\ at[e] = "base"
          BY <1>1, <4>2
        <5>2. \A t \in Tables : db[t] = {}
          BY <4>1, <5>1 DEF Restored
        <5>3. \A t \in Tables : new[t] = IF t \in Base THEN db[t] \cup tables[t] ELSE db[t]
          BY <3>2, <5>1
        <5>4. /\ \A t \in Base : new[t] = {} \cup tables[t]
              /\ \A t \in Ledger : new[t] = {}
          BY <5>2, <5>3, BaseAndLedger
        <5>5. \A t \in Base : new[t] = tables[t]
          BY <5>4
        <5> QED
          BY <2>3, <3>3, <4>2, <5>4, <5>5 DEF Restored
      <4>3. CASE next = "done"
        <5>1. ts = Ledger /\ at[e] = "ledger"
          BY <1>1, <4>3
        <5>2. /\ \A t \in Base : db[t] = tables[t]
              /\ \A t \in Ledger : db[t] = {}
          BY <4>1, <5>1 DEF Restored
        <5>3. \A t \in Tables : new[t] = IF t \in Ledger THEN db[t] \cup tables[t] ELSE db[t]
          BY <3>2, <5>1
        <5>4. /\ \A t \in Base : new[t] = tables[t]
              /\ \A t \in Ledger : new[t] = {} \cup tables[t]
          BY <5>2, <5>3, BaseAndLedger
        <5>5. \A t \in Tables : new[t] = tables[t]
          BY <5>4, BaseAndLedger
        <5>6. new = tables
          BY <2>2, <3>1, <5>5 DEF Database
        <5> QED
          BY <2>3, <3>3, <4>3, <5>6 DEF Restored
      <4> QED
        BY <1>1, <4>2, <4>3
    <3>8. RestoreInv'
      BY <2>1, <2>3, <2>4, <3>7, OthersRestore
    <3> QED
      BY <3>4, <3>5, <3>6, <3>8 DEF BInv
  <2>5. CASE /\ \/ ~References(tables)
                \/ \E t \in ts : Ids(tables[t]) \cap Ids(db[t]) # {}
             /\ at' = [at EXCEPT ![e] = "failed"] /\ UNCHANGED <<db, disturbed>>
    <3>1. TypeInv'
      BY <2>1, <2>3, <2>5 DEF BInv, TypeInv, Places
    <3>2. SoundInv' /\ QuietInv' /\ BackupInv' /\ TornIsRefused' /\ TornInv'
      BY <2>3, <2>5 DEF BInv, SoundInv, QuietInv, Undisturbed, BackupInv, TornIsRefused, TornInv,
                        OnlyRequests, References
    <3>3. FromInv'
      BY <2>1, <2>3, <2>5 DEF BInv, FromInv
    <3>4. from'[e] # NoBackup /\ Undisturbed(e)' => Restored(e)'
      <4>1. SUFFICES ASSUME Undisturbed(e) PROVE ~References(tables)
        BY <2>1, <2>3, <2>5 DEF Restored, Undisturbed, References
      <4>2. Restored(e)
        BY <4>1, <2>1 DEF BInv, RestoreInv
      <4>3. \A t \in ts : db[t] = {}
        BY <4>2, <1>1 DEF Restored, Base, Ledger, Tables
      <4>4. \A t \in ts : Ids(tables[t]) \cap Ids(db[t]) = {}
        BY <4>3 DEF Ids
      <4> QED
        BY <4>4, <2>5
    <3>5. RestoreInv'
      BY <2>1, <2>3, <2>5, <3>4, OthersRest
    <3> QED
      BY <3>1, <3>2, <3>3, <3>5 DEF BInv
  <2>6. \/ /\ References(tables) /\ \A t \in ts : Ids(tables[t]) \cap Ids(db[t]) = {}
           /\ Commit(e, new) /\ at' = [at EXCEPT ![e] = next]
        \/ /\ \/ ~References(tables)
              \/ \E t \in ts : Ids(tables[t]) \cap Ids(db[t]) # {}
           /\ at' = [at EXCEPT ![e] = "failed"] /\ UNCHANGED <<db, disturbed>>
    BY <1>1 DEF Insert, Goto
  <2> QED
    BY <2>4, <2>5, <2>6
<1> QED
  BY <1>1 DEF InsertBase, InsertLedger

LEMMA CrashKeeps ==
  ASSUME BInv, NEW e \in Admins, Crash(e)
  PROVE  BInv'
<1>1. /\ at' = [at EXCEPT ![e] = "idle"] /\ doomed' = [doomed EXCEPT ![e] = Empty]
      /\ from' = [from EXCEPT ![e] = NoBackup]
      /\ disturbed' \subseteq disturbed /\ \A x \in disturbed : x[1] # e => x \in disturbed'
      /\ UNCHANGED <<db, uploading, born, reads, draft, backups>>
  BY DEF Crash, Goto, requests, exports
<1>2. /\ at \in [Admins -> Places] /\ doomed \in [Admins -> Database]
      /\ from \in [Admins -> Backup] /\ Empty \in Database /\ NoBackup \in Backup
  BY EmptyTyped DEF BInv, TypeInv
<1>3. TypeInv'
  BY <1>1, <1>2 DEF BInv, TypeInv, Places
<1>4. FromInv'
  BY <1>1, <1>2 DEF BInv, FromInv
<1>5. /\ Undisturbed("export")' => Undisturbed("export")
      /\ OnlyRequests' => OnlyRequests
  BY <1>1, BackupAssumption DEF Undisturbed, OnlyRequests
<1>6. SoundInv' /\ BackupInv' /\ TornIsRefused'
  BY <1>1 DEF BInv, SoundInv, BackupInv, TornIsRefused, References
<1>7. QuietInv' /\ TornInv'
  BY <1>1, <1>5 DEF BInv, QuietInv, TornInv
<1>8. RestoreInv'
  <2>1. ASSUME NEW f \in Admins, f # e, from[f] # NoBackup, Undisturbed(f)' PROVE Restored(f)'
    <3>1. Undisturbed(f)
      BY <1>1, <2>1 DEF Undisturbed
    <3>2. at'[f] = at[f] /\ doomed'[f] = doomed[f] /\ from'[f] = from[f]
      BY <1>1, <1>2, <2>1
    <3> QED
      BY <1>1, <2>1, <3>1, <3>2 DEF BInv, RestoreInv, Restored
  <2> QED
    BY <1>1, <1>2, <2>1 DEF RestoreInv
<1> QED
  BY <1>3, <1>4, <1>6, <1>7, <1>8 DEF BInv

-----------------------------------------------------------------------------
(* Sweeps *)

LEMMA SweepKeeps ==
  ASSUME BInv, NEW new \in Database, \A t \in Tables : new[t] \subseteq db[t], References(new),
         Sweep(new), UNCHANGED <<uploading, born>>
  PROVE  BInv'
<1>1. /\ Commit("sweep", new) /\ UNCHANGED <<reads, draft, backups, at, doomed, from>>
  BY DEF Sweep, exports
<1>2. db' = new /\ disturbed' \subseteq Operations \X Parties
  BY <1>1, CommitMarks DEF BInv
<1>3. TypeInv'
  BY <1>1, <1>2 DEF BInv, TypeInv
<1>4. Sound(new, born)
  BY SoundSubset DEF BInv, SoundInv, Sound
<1>5. SoundInv' /\ QuietInv' /\ BackupInv' /\ TornIsRefused' /\ TornInv'
  BY <1>1, <1>4, CommitKeeps DEF exports
<1>6. FromInv'
  BY <1>1 DEF BInv, FromInv
<1>7. RestoreInv'
  BY <1>1, RestoresOfOthers, BackupAssumption DEF RestoreInv
<1> QED
  BY <1>3, <1>5, <1>6, <1>7 DEF BInv

LEMMA SweepLedgerKeeps ==
  ASSUME BInv, NEW old \in SUBSET Docs, SweepLedger(old)
  PROVE  BInv'
<1>1. PICK decided \in SUBSET Docs :
        Sweep([db EXCEPT !["findings"] = {row \in db["findings"] : row.id \notin old},
                 !["finding_decisions"] =
                   {row \in db["finding_decisions"] : row.id \notin old \cup decided}])
  BY DEF SweepLedger
<1> DEFINE new == [db EXCEPT !["findings"] = {row \in db["findings"] : row.id \notin old},
                     !["finding_decisions"] =
                       {row \in db["finding_decisions"] : row.id \notin old \cup decided}]
<1>2. db \in Database
  BY DEF BInv, TypeInv
<1>3. /\ new \in Database /\ \A t \in Tables : new[t] \subseteq db[t]
      /\ \A t \in Base : new[t] = db[t]
  BY <1>2, TablesListed DEF Database, Base
<1>4. UNCHANGED <<uploading, born>>
  BY <1>1 DEF Sweep, requests
<1> HIDE DEF new
<1>5. References(new)
  BY <1>3 DEF BInv, SoundInv, References, Base
<1> QED
  BY <1>1, <1>3, <1>4, <1>5, SweepKeeps DEF new

LEMMA SweepBaseKeeps ==
  ASSUME BInv, NEW docs \in SUBSET Docs, NEW keys \in SUBSET Keys, NEW jobs \in SUBSET Keys,
         SweepBase(docs, keys, jobs)
  PROVE  BInv'
<1> DEFINE new == [t \in Tables |-> {row \in db[t] :
       CASE t \in {"uploads", "document_blobs"} -> row.id \notin docs
         [] t = "idempotency_keys" -> row.id \notin keys
         [] t = "jobs" -> row.id \notin jobs
         [] OTHER -> TRUE}]
<1>1. Sweep(new) /\ UNCHANGED <<uploading, born>>
  BY DEF SweepBase, Sweep, requests
<1>2. db \in Database
  BY DEF BInv, TypeInv
<1>3. /\ new \in Database /\ \A t \in Tables : new[t] \subseteq db[t]
      /\ new["uploads"] = {row \in db["uploads"] : row.id \notin docs}
      /\ new["document_blobs"] = {row \in db["document_blobs"] : row.id \notin docs}
  BY <1>2, TablesListed DEF Database
<1> HIDE DEF new
<1>4. References(new)
  BY <1>3 DEF BInv, SoundInv, References, Ids
<1> QED
  BY <1>1, <1>3, <1>4, SweepKeeps

-----------------------------------------------------------------------------
LEMMA NextBInv ==
  ASSUME BInv, [Next]_vars
  PROVE  BInv'
<1>1. CASE UNCHANGED vars
  <2>1. TypeInv' /\ SoundInv' /\ FromInv' /\ QuietInv' /\ TornInv'
    BY <1>1 DEF vars, BInv, TypeInv, SoundInv, FromInv, QuietInv, TornInv, Undisturbed,
                OnlyRequests, References
  <2>2. BackupInv' /\ TornIsRefused'
    BY <1>1 DEF vars, BInv, BackupInv, TornIsRefused, References
  <2>3. RestoreInv'
    BY <1>1 DEF vars, BInv, RestoreInv, Restored, Undisturbed, References
  <2> QED
    BY <2>1, <2>2, <2>3 DEF BInv
<1>2. CASE Next
  BY <1>2, KeysKeep, SaveUploadKeeps, CompleteKeyKeeps, AppendKeeps, ExportFirstKeeps,
     ExportNextKeeps, ExportLastKeeps, DeleteLedgerKeeps, DeleteRowsKeeps, DeleteUploadsKeeps,
     InsertKeeps, CrashKeeps, SweepLedgerKeeps, SweepBaseKeeps DEF Next
<1> QED
  BY <1>1, <1>2

-----------------------------------------------------------------------------
(* The tables keep their types whatever meets a restore, a deletion or a sweep: no id twice in *)
(* a table, and no bytes without their upload.                                                 *)
THEOREM BackupTypeCorrect == Spec => []TypeOK
<1>1. BInv => TypeOK
  BY DEF BInv, TypeInv, SoundInv, Sound, SoundTable, TypeOK, Drawable, Places
<1> QED
  BY <1>1, InitBInv, NextBInv, PTL DEF Spec

(* A quiet export, restored quietly, never fails and gives any tenant back as it was.          *)
THEOREM RoundtripIsExact == Spec => []RoundtripExact
<1>1. BInv => RoundtripExact
  <2> SUFFICES ASSUME BInv, NEW e \in Admins, at[e] \in {"done", "failed"},
                      Undisturbed(e), from[e].disturbers = {}
               PROVE  at[e] = "done" /\ db = from[e].first
    BY DEF RoundtripExact
  <2>1. from[e] # NoBackup /\ from[e] \in backups
    BY DEF BInv, FromInv
  <2> QED
    BY <2>1 DEF BInv, RestoreInv, Restored, BackupInv
<1> QED
  BY <1>1, InitBInv, NextBInv, PTL DEF Spec

(* Of any number of exports torn by requests, one that the foreign key lets through is whole.  *)
THEOREM TornRefused == Spec => []TornIsRefused
<1>1. BInv => TornIsRefused
  BY DEF BInv
<1> QED
  BY <1>1, InitBInv, NextBInv, PTL DEF Spec
=============================================================================
