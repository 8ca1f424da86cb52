--------------------------- MODULE TenantRequests ---------------------------
(***************************************************************************)
(* The requests of several tenants on one store: who may send which        *)
(* (the middleware of app/main.py, the role tables of app/ops_api.py and   *)
(* app/findings_api.py), what each reads and writes of the rows, whose rows*)
(* they are, the audit event that follows, and the deletion of a tenant, on*)
(* SQLite (app/storage.py) as on Postgres.                                 *)
(* A request is served in one step here and audited in a second one; what  *)
(* happens between the transactions of a write, a backup or a restore is   *)
(* the matter of IdempotentWrites, FindingLedger and TenantBackup.  Rows of*)
(* a table that nobody looks up by id count once.                          *)
(***************************************************************************)
EXTENDS FiniteSets, Naturals

CONSTANTS
  Clients,          \* whoever sends requests, each with at most one in flight
  PrincipalOf,      \* the configured API keys: clients to [tenant, role]
  DemoTenant,       \* tenant of every request outside production
  Keys,             \* x-idempotency-key values; the tenants choose the same ones
  Ids,              \* bound: document and finding ids, random and never drawn twice
  MaxWrites,        \* bound: requests that change a row, deletions apart
  NoId, NoKey, NoTenant

ASSUME TenantAssumption ==
  /\ DOMAIN PrincipalOf \subseteq Clients
  /\ NoId \notin Ids /\ MaxWrites \in Nat

Tenants == {PrincipalOf[c].tenant : c \in DOMAIN PrincipalOf} \cup {DemoTenant}

VARIABLES
  mode,             \* [production, store]: fixed when the process starts
  rows,             \* of every table
  issued,           \* ids drawn
  writes,           \* requests that changed a row
  pending,          \* what is left of each client's request: its audit, or half a deletion
  doomed            \* what a deletion under way found of its tenant

tenantVars == <<mode, rows, issued, writes, pending, doomed>>

Row(table, tenant, id) == [table |-> table, tenant |-> tenant, id |-> id, key |-> NoKey]
Own(all, tenant) == {row \in all : row.tenant = tenant}

-----------------------------------------------------------------------------
(* Admission *)

Roles == {"operator", "reviewer", "worker", "auditor", "admin", "owner"}
RolesFor == [
  upload |-> Roles, original |-> Roles, save_feedback |-> Roles, list_feedback |-> Roles,
  benchmark |-> Roles,
  create_finding |-> {"operator", "reviewer", "admin", "owner"},
  read_finding |-> Roles \ {"worker"}, gate |-> Roles \ {"worker"},
  decide_finding |-> {"reviewer", "admin", "owner"},
  enqueue_job |-> {"operator", "admin", "owner"},
  claim_job |-> {"worker", "operator", "admin", "owner"},
  list_audit |-> {"auditor", "admin", "owner"},
  delete_tenant |-> {"admin", "owner"} ]
Operations == DOMAIN RolesFor
OpsApi == {"enqueue_job", "claim_job", "list_audit"}   \* need a principal and a method of Postgres

TenantOf(c) == IF mode.production THEN PrincipalOf[c].tenant ELSE DemoTenant

\* request_context, _require_role, _require_capability: 401, 403 and 503 change nothing.
Admits(c, claimed, operation) ==
  IF mode.production
  THEN /\ c \in DOMAIN PrincipalOf
       /\ claimed \in {NoTenant, TenantOf(c)}
       /\ PrincipalOf[c].role \in RolesFor[operation]
       /\ operation \in OpsApi => mode.store = "postgres"
  ELSE operation \notin OpsApi

-----------------------------------------------------------------------------
(* What the handlers ask of the store *)

LookedUp == [original |-> "document_blobs", create_finding |-> "uploads",
             read_finding |-> "findings", gate |-> "findings", decide_finding |-> "findings"]
Listed == [list_feedback |-> "reviewer_feedback", list_audit |-> "audit_events",
           claim_job |-> "jobs"]
Keyed == {"upload", "create_finding", "decide_finding"}

Found(tenant, operation, id, all) ==
  IF operation \in DOMAIN LookedUp
  THEN {row \in all : row.table = LookedUp[operation] /\ row.tenant = tenant /\ row.id = id}
  ELSE IF operation \in DOMAIN Listed
  THEN {row \in all : row.table = Listed[operation] /\ row.tenant = tenant}
  ELSE {}

Written(tenant, operation, id, new) ==
  CASE operation = "upload" -> {Row("uploads", tenant, new), Row("document_blobs", tenant, new)}
    [] operation = "create_finding" -> {Row("findings", tenant, new)}
    [] operation = "decide_finding" -> {Row("finding_decisions", tenant, id)}
    [] operation = "save_feedback" -> {Row("reviewer_feedback", tenant, NoId)}
    [] operation = "benchmark" -> {Row("benchmark_runs", tenant, NoId)}
    [] operation = "enqueue_job" -> {Row("jobs", tenant, NoId)}
    [] OTHER -> {}

\* INSERT OR REPLACE INTO uploads: on SQLite the document id alone is the primary key.
Displaced(written, all) ==
  IF mode.store = "postgres" THEN {}
  ELSE {row \in all : row.table = "uploads"
                       /\ \E new \in written : new.table = "uploads" /\ new.id = row.id}

\* Only a decision's reservation names its target.
KeyOf(operation, id, key) == <<operation, IF operation = "decide_finding" THEN id ELSE NoId, key>>
KeyRow(tenant, operation, id, key, answer) ==
  [table |-> "idempotency_keys", tenant |-> tenant, id |-> answer,
   key |-> KeyOf(operation, id, key)]
ReservedByAnyone(tenant, operation, id, key, all) ==   \* mutant: PRIMARY KEY (operation, key)
  {row \in all : row.table = "idempotency_keys" /\ row.key = KeyOf(operation, id, key)}
Reserved(tenant, operation, id, key, all) ==
  {row \in all : row.table = "idempotency_keys" /\ row.tenant = tenant
                 /\ row.key = KeyOf(operation, id, key)}

\* A reservation made for a request that then failed stays without an answer.
Serve(tenant, operation, id, key, new, all) ==
  LET found == Found(tenant, operation, id, all)
      reserved == Reserved(tenant, operation, id, key, all)
      written == Written(tenant, operation, id, new)
      about == IF operation = "decide_finding" THEN id ELSE new
      KeyRows(answer) == IF operation \in Keyed
                         THEN {KeyRow(tenant, operation, id, key, answer)} ELSE {}
  IN IF operation \in Keyed /\ reserved # {}
     THEN [status |-> IF \E row \in reserved : row.id # NoId THEN "answered again" ELSE "409",
           shows |-> reserved, rows |-> all]
     ELSE IF operation \in DOMAIN LookedUp /\ found = {}
     THEN [status |-> "404", shows |-> {}, rows |-> all \cup KeyRows(NoId)]
     ELSE [status |-> "200", shows |-> found,
           rows |-> (all \ Displaced(written, all)) \cup written \cup KeyRows(about)]

Targets(operation) == IF operation \in DOMAIN LookedUp THEN Ids ELSE {NoId}
DrawsForUploads(operation) == operation = "upload"   \* mutant: findings get no id of their own
Draws(operation) == operation \in {"upload", "create_finding"}
News(operation) == IF Draws(operation) THEN Ids \ issued ELSE {NoId}
Audited(operation, served) ==
  /\ served.status = "200" /\ operation \notin {"list_feedback", "list_audit", "read_finding"}
  /\ operation = "claim_job" => served.shows # {}

-----------------------------------------------------------------------------
(* The requests *)

TenantInit ==
  /\ mode \in [production : BOOLEAN, store : {"postgres", "sqlite"}]
  /\ rows = {} /\ issued = {} /\ writes = 0
  /\ pending = [c \in Clients |-> "nothing"] /\ doomed = [c \in Clients |-> {}]

Arrives(c, operation) ==
  /\ pending[c] = "nothing"
  /\ \E claimed \in Tenants \cup {NoTenant} : Admits(c, claimed, operation)

Handle(c, operation, id, key, new) ==
  LET served == Serve(TenantOf(c), operation, id, key, new, rows)
  IN /\ rows' = served.rows
     /\ IF served.rows = rows THEN UNCHANGED writes
        ELSE writes < MaxWrites /\ writes' = writes + 1
     /\ issued' = IF served.status = "200" THEN issued \cup ({new} \ {NoId}) ELSE issued
     /\ pending' = [pending EXCEPT ![c] =
          IF mode.production /\ mode.store = "postgres" /\ Audited(operation, served)
          THEN "audit" ELSE "nothing"]
     /\ UNCHANGED <<mode, doomed>>

\* append_audit names the principal of the request.
Audit(c) ==
  /\ pending[c] = "audit"
  /\ rows' = rows \cup {Row("audit_events", TenantOf(c), NoId)}
  /\ pending' = [pending EXCEPT ![c] = "nothing"]
  /\ UNCHANGED <<mode, issued, writes, doomed>>

-----------------------------------------------------------------------------
(* delete_tenant: one transaction on SQLite, two on Postgres *)

SQLiteTablesOfOldSchema ==                   \* mutant: the finding tables are forgotten
  {"document_blobs", "reviewer_feedback", "benchmark_runs", "idempotency_keys", "uploads"}
SQLiteTables ==
  {"finding_decisions", "findings", "document_blobs", "reviewer_feedback", "benchmark_runs",
   "idempotency_keys", "uploads"}
FindingTables == {"finding_decisions", "findings"}
PostgresTables ==
  {"document_blobs", "reviewer_feedback", "benchmark_runs", "idempotency_keys", "audit_events",
   "jobs", "uploads"}

Without(tables, tenant) == {row \in rows : row.tenant # tenant \/ row.table \notin tables}

DeleteOnSQLite(c) ==
  /\ mode.store = "sqlite" /\ Arrives(c, "delete_tenant")
  /\ rows' = Without(SQLiteTables, TenantOf(c))
  /\ UNCHANGED <<mode, issued, writes, pending, doomed>>

DeleteFindings(c) ==
  /\ mode.store = "postgres" /\ Arrives(c, "delete_tenant")
  /\ rows' = Without(FindingTables, TenantOf(c))
  /\ doomed' = [doomed EXCEPT ![c] = Own(rows, TenantOf(c))]
  /\ pending' = [pending EXCEPT ![c] = "deletion"]
  /\ UNCHANGED <<mode, issued, writes>>

DeleteRest(c) ==
  /\ pending[c] = "deletion"
  /\ rows' = Without(PostgresTables, TenantOf(c))
  /\ doomed' = [doomed EXCEPT ![c] = {}]
  /\ pending' = [pending EXCEPT ![c] = "nothing"]
  /\ UNCHANGED <<mode, issued, writes>>

TenantNext ==
  \E c \in Clients :
    \/ \E operation \in Operations \ {"delete_tenant"}, key \in Keys :
         /\ Arrives(c, operation)
         /\ \E id \in Targets(operation), new \in News(operation) :
              Handle(c, operation, id, key, new)
    \/ Audit(c) \/ DeleteOnSQLite(c) \/ DeleteFindings(c) \/ DeleteRest(c)

TenantSpec == TenantInit /\ [][TenantNext]_tenantVars

-----------------------------------------------------------------------------
(* Properties *)

TenantTypeOK ==
  /\ mode \in [production : BOOLEAN, store : {"postgres", "sqlite"}]
  /\ \A row \in rows :
       /\ row.table \in SQLiteTables \cup PostgresTables
       /\ row.tenant \in Tenants /\ row.id \in issued \cup {NoId}
       /\ row.table \in {"uploads", "document_blobs"} \cup FindingTables => row.id \in issued
  /\ issued \subseteq Ids
  /\ pending \in [Clients -> {"nothing", "audit", "deletion"}]

(* To a tenant the others do not exist: whatever ids and keys a request names, it answers*)
(* what it would answer on a store with no rows but the tenant's own, and does to them   *)
(* what it would do there, leaving the rows of the others as they are.                   *)
ServedAlone ==
  \A tenant \in Tenants, operation \in Operations, key \in Keys :
    \A id \in Targets(operation), new \in News(operation) :
      LET own == Own(rows, tenant)
          here == Serve(tenant, operation, id, key, new, rows)
          alone == Serve(tenant, operation, id, key, new, own)
      IN /\ here.status = alone.status /\ here.shows = alone.shows
         /\ here.rows = alone.rows \cup (rows \ own)

(* A deletion has left none of the rows it found, of whichever table, when it answers:   *)
(* the lists of tables in the two stores keep up with the tables the requests write.     *)
ErasureReachesEveryTable ==
  [][\A c \in Clients :
       /\ DeleteOnSQLite(c) => Own(rows', TenantOf(c)) = {}
       /\ DeleteRest(c) => doomed[c] \cap rows' = {}]_tenantVars
=============================================================================
