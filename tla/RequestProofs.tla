--------------------------- MODULE RequestProofs ----------------------------
(***************************************************************************)
(* What a client may count on, for every configuration, and for any        *)
(* clients, principals, keys and ids, and any number of requests.          *)
(*  - Readiness: the gates and the list of required gates amount to one    *)
(*    stated condition, and whoever was told "ready" is served.            *)
(*  - TenantRequests: tenants do not notice each other, and a deletion     *)
(*    leaves nothing it found.  Both rest on the rows of uploads and       *)
(*    findings having ids that were drawn before, so that none is drawn    *)
(*    for a second row.                                                    *)
(***************************************************************************)
EXTENDS Readiness, TenantRequests, TLAPS

-----------------------------------------------------------------------------
(* Readiness *)

RInv ==
  /\ ReadinessTypeOK
  /\ vouched => Ready(env)

\* The fourteen required gates, read off one by one, are the stated condition.
LEMMA GatesRead ==
  ASSUME NEW e \in Environment, up \in BOOLEAN
  PROVE  Ready(e) <=> /\ e.production /\ e.mode = "postgres-durable" /\ up
                      /\ "complete" \in e.principals /\ Flags \subseteq e.flags
                      /\ e.days.text # "unset" /\ ~e.wildcard
<1>1. Missing(e) = {} <=> \A gate \in Required : Gates(e)[gate]
  BY DEF Missing
<1>2. (\A gate \in Required : Gates(e)[gate])
        <=> /\ Principals(e) # {} /\ e.mode \in {"postgres-durable", "external-durable"}
            /\ e.mode = "postgres-durable" /\ Health(e).queue /\ Health(e).audit
            /\ Health(e).ok /\ ~e.wildcard /\ e.days.text # "unset"
            /\ "observability" \in e.flags /\ "backup_restore_tested" \in e.flags
            /\ "rollback_ready" \in e.flags /\ "trust_chain_enforced" \in e.flags
  <2>1. (\A gate \in Required : Gates(e)[gate])
          <=> /\ Gates(e)["identity_and_access"] /\ Gates(e)["tenant_principal_binding"]
              /\ Gates(e)["durable_persistence"] /\ Gates(e)["durable_object_storage"]
              /\ Gates(e)["durable_queue"] /\ Gates(e)["durable_audit"]
              /\ Gates(e)["storage_health"] /\ Gates(e)["strict_cors"]
              /\ Gates(e)["observability_configured"]
              /\ Gates(e)["retention_deletion_configured"]
              /\ Gates(e)["backup_restore_evidence"] /\ Gates(e)["rollback_runbook"]
              /\ Gates(e)["tenant_scoped_persistence"] /\ Gates(e)["trust_chain_enforced"]
    BY Zenon DEF Required
  <2>2. /\ Gates(e)["identity_and_access"] = (Principals(e) # {})
        /\ Gates(e)["tenant_principal_binding"] = (Principals(e) # {})
        /\ Gates(e)["durable_persistence"]
             = (e.mode \in {"postgres-durable", "external-durable"})
        /\ Gates(e)["durable_object_storage"] = (e.mode = "postgres-durable")
        /\ Gates(e)["durable_queue"] = Health(e).queue
        /\ Gates(e)["durable_audit"] = Health(e).audit
        /\ Gates(e)["storage_health"] = Health(e).ok
    BY DEF Gates
  <2>3. /\ Gates(e)["strict_cors"] = ~e.wildcard
        /\ Gates(e)["observability_configured"] = ("observability" \in e.flags)
        /\ Gates(e)["retention_deletion_configured"] = (e.days.text # "unset")
        /\ Gates(e)["backup_restore_evidence"] = ("backup_restore_tested" \in e.flags)
        /\ Gates(e)["rollback_runbook"] = ("rollback_ready" \in e.flags)
        /\ Gates(e)["tenant_scoped_persistence"] = TRUE
        /\ Gates(e)["trust_chain_enforced"] = ("trust_chain_enforced" \in e.flags)
    BY DEF Gates
  <2> QED
    BY <2>1, <2>2, <2>3
<1>3. Principals(e) # {} <=> "complete" \in e.principals
  BY DEF Principals, Environment
<1>4. Flags \subseteq e.flags
        <=> /\ "observability" \in e.flags /\ "backup_restore_tested" \in e.flags
            /\ "rollback_ready" \in e.flags /\ "trust_chain_enforced" \in e.flags
  BY DEF Flags
<1>5. /\ Health(e).ok = up
      /\ Health(e).queue = (up /\ e.mode = "postgres-durable")
      /\ Health(e).audit = (up /\ e.mode = "postgres-durable")
  BY DEF Health
<1> QED
  BY <1>1, <1>2, <1>3, <1>4, <1>5 DEF Ready

LEMMA InitRInv == ReadinessInit => RInv
BY DEF ReadinessInit, RInv, ReadinessTypeOK

\* Ready reads the database as well as the configuration: a failure takes the promise back.
LEMMA NextRInv == RInv /\ [ReadinessNext]_readinessVars => RInv'
<1> SUFFICES ASSUME RInv, [ReadinessNext]_readinessVars PROVE RInv'
  OBVIOUS
<1>1. CASE Probe
  BY <1>1 DEF Probe, RInv, ReadinessTypeOK, Ready, Missing, Gates, Health, Principals
<1>2. CASE DatabaseFails
  BY <1>2 DEF DatabaseFails, RInv, ReadinessTypeOK
<1>3. CASE DatabaseRecovers
  <2>1. ~vouched
    BY <1>3, GatesRead DEF DatabaseRecovers, RInv, ReadinessTypeOK
  <2> QED
    BY <2>1, <1>3 DEF DatabaseRecovers, RInv, ReadinessTypeOK
<1>4. CASE UNCHANGED readinessVars
  BY <1>4 DEF readinessVars, RInv, ReadinessTypeOK, Ready, Missing, Gates, Health, Principals
<1> QED
  BY <1>1, <1>2, <1>3, <1>4 DEF ReadinessNext

LEMMA RInvHolds == ReadinessSpec => []RInv
<1> QED
  BY InitRInv, NextRInv, PTL DEF ReadinessSpec

LEMMA ReadyMeansSafe == RInv => ReadyExactlyWhenSafe
BY GatesRead DEF RInv, ReadinessTypeOK, ReadyExactlyWhenSafe

\* What the sweep accepts, whatever numbers the variable may name.
LEMMA SweepableDays ==
  ASSUME NEW days \in Days
  PROVE  Sweepable(days) <=> days \in [text : {"number"}, value : 1..DaysOnCalendar]
<1>1. CASE days.text = "number"
  <2>1. PICK n \in RetentionDays : days = [text |-> "number", value |-> n]
    BY <1>1 DEF Days
  <2>2. n \in Int /\ DaysOnCalendar \in Nat
    BY ReadinessAssumption
  <2> QED
    BY <2>1, <2>2 DEF Sweepable
<1>2. CASE days.text # "number"
  BY <1>2 DEF Sweepable
<1> QED
  BY <1>1, <1>2

LEMMA ReadyMeansServed == RInv => ReadyServes
<1> SUFFICES ASSUME RInv, vouched,
                    NEW operation \in StoreOperations \cup DurableOperations
             PROVE  Answer(env, operation) = 200
                      <=> (operation = "retention" => Sweepable(env.days))
  <2>1. RInv => (Sweepable(env.days)
                   <=> env.days \in [text : {"number"}, value : 1..DaysOnCalendar])
    BY SweepableDays DEF RInv, ReadinessTypeOK, Environment
  <2> QED
    BY <2>1 DEF ReadyServes
<1>1. /\ env.production /\ env.mode = "postgres-durable" /\ up
      /\ "complete" \in env.principals
  BY GatesRead DEF RInv, ReadinessTypeOK
<1>2. Authenticated(env)
  BY <1>1 DEF Authenticated, Principals
<1>3. env.days.text \in {"unset", "blank"} => ~Sweepable(env.days)
  BY DEF Sweepable
<1>4. "retention" \in DurableOperations
  BY DEF DurableOperations
<1> QED
  BY <1>1, <1>2, <1>3, <1>4 DEF Answer

(* An instance says ready exactly when it runs in production on a reachable Postgres     *)
(* with a principal, the operator's assertions, a retention time and listed origins      *)
(* (production_readiness of app/production.py).                                          *)
THEOREM ReadyIsSafe == ReadinessSpec => []ReadyExactlyWhenSafe
BY RInvHolds, ReadyMeansSafe, PTL

(* After a probe answered ready and until the database fails, every operation of the     *)
(* main, findings and operations routers answers 200 to a caller who may use it; the     *)
(* retention sweep does so exactly for a number of days from one to the calendar's,      *)
(* whatever the variable says.                                                           *)
THEOREM ReadyIsServed == ReadinessSpec => []ReadyServes
BY RInvHolds, ReadyMeansServed, PTL

-----------------------------------------------------------------------------
(* TenantRequests *)

\* A request is being audited, or is half a deletion, only where that exists.
PendingInv ==
  \A c \in Clients :
    /\ pending[c] = "audit" =>
         mode.production /\ mode.store = "postgres" /\ c \in DOMAIN PrincipalOf
    /\ pending[c] = "deletion" => mode.store = "postgres"

SQLiteInv == mode.store = "sqlite" => \A row \in rows : row.table \in SQLiteTables

\* Between its two transactions, no finding or decision is back that the deletion found.
DoomedInv ==
  \A c \in Clients : pending[c] = "deletion" =>
    \A found \in doomed[c] :
      /\ found.tenant = TenantOf(c)
      /\ found.table \in FindingTables \cup PostgresTables
      /\ found.table \in FindingTables =>
           /\ found.id \in issued
           /\ \A row \in rows :
                row.table \in FindingTables /\ row.tenant = TenantOf(c) => row.id # found.id

TInv ==
  /\ TenantTypeOK /\ DOMAIN doomed = Clients
  /\ PendingInv /\ SQLiteInv /\ DoomedInv

-----------------------------------------------------------------------------
(* What a request does to the rows *)

LEMMA RowParts ==
  ASSUME NEW table, NEW tenant, NEW id
  PROVE  /\ Row(table, tenant, id).table = table
         /\ Row(table, tenant, id).tenant = tenant
         /\ Row(table, tenant, id).id = id
  BY DEF Row

LEMMA KeyRowParts ==
  ASSUME NEW tenant, NEW operation, NEW id, NEW key, NEW answer
  PROVE  /\ KeyRow(tenant, operation, id, key, answer).table = "idempotency_keys"
         /\ KeyRow(tenant, operation, id, key, answer).tenant = tenant
         /\ KeyRow(tenant, operation, id, key, answer).id = answer
  BY DEF KeyRow

LEMMA WrittenRows ==
  ASSUME NEW tenant, NEW operation, NEW id, NEW new, NEW row \in Written(tenant, operation, id, new)
  PROVE  /\ row.tenant = tenant
         /\ \/ /\ operation = "upload"
               /\ row.table \in {"uploads", "document_blobs"} /\ row.id = new
            \/ operation = "create_finding" /\ row.table = "findings" /\ row.id = new
            \/ operation = "decide_finding" /\ row.table = "finding_decisions" /\ row.id = id
            \/ operation = "save_feedback" /\ row.table = "reviewer_feedback" /\ row.id = NoId
            \/ operation = "benchmark" /\ row.table = "benchmark_runs" /\ row.id = NoId
            \/ operation = "enqueue_job" /\ row.table = "jobs" /\ row.id = NoId
<1>1. CASE operation = "upload"
  BY <1>1, RowParts DEF Written
<1>2. CASE operation = "create_finding"
  BY <1>2, RowParts DEF Written
<1>3. CASE operation = "decide_finding"
  BY <1>3, RowParts DEF Written
<1>4. CASE operation = "save_feedback"
  BY <1>4, RowParts DEF Written
<1>5. CASE operation = "benchmark"
  BY <1>5, RowParts DEF Written
<1>6. CASE operation = "enqueue_job"
  BY <1>6, RowParts DEF Written
<1> QED
  BY <1>1, <1>2, <1>3, <1>4, <1>5, <1>6 DEF Written

About(operation, id, new) == IF operation = "decide_finding" THEN id ELSE new

\* Every row after a request was there, answers a key, or belongs to a write that succeeded.
LEMMA ServeWrites ==
  ASSUME NEW tenant, NEW operation, NEW id, NEW key, NEW new, NEW all,
         NEW row \in Serve(tenant, operation, id, key, new, all).rows
  PROVE  \/ row \in all
         \/ row = KeyRow(tenant, operation, id, key, NoId)
         \/ /\ Serve(tenant, operation, id, key, new, all).status = "200"
            /\ operation \in DOMAIN LookedUp => Found(tenant, operation, id, all) # {}
            /\ \/ row \in Written(tenant, operation, id, new)
               \/ /\ operation \in Keyed
                  /\ row = KeyRow(tenant, operation, id, key, About(operation, id, new))
<1> DEFINE found == Found(tenant, operation, id, all)
           reserved == Reserved(tenant, operation, id, key, all)
           written == Written(tenant, operation, id, new)
           displaced == Displaced(written, all)
<1>1. CASE operation \in Keyed /\ reserved # {}
  BY <1>1 DEF Serve
<1>2. CASE ~(operation \in Keyed /\ reserved # {}) /\ operation \in DOMAIN LookedUp /\ found = {}
  BY <1>2 DEF Serve
<1>3. CASE ~(operation \in Keyed /\ reserved # {}) /\ ~(operation \in DOMAIN LookedUp /\ found = {})
  BY <1>3 DEF Serve, About
<1> QED
  BY <1>1, <1>2, <1>3

-----------------------------------------------------------------------------
(* The invariant *)

LEMMA AdmittedTenant ==
  ASSUME NEW c \in Clients, NEW claimed, NEW operation, Admits(c, claimed, operation)
  PROVE  /\ TenantOf(c) \in Tenants
         /\ operation \in OpsApi => mode.production /\ mode.store = "postgres"
         /\ mode.production => c \in DOMAIN PrincipalOf
  BY DEF Admits, TenantOf, Tenants

LEMMA SameTenant == mode' = mode => \A c : TenantOf(c)' = TenantOf(c)
  BY DEF TenantOf

LEMMA FoundTarget ==
  ASSUME NEW tenant, NEW id, NEW all, Found(tenant, "decide_finding", id, all) # {}
  PROVE  \E row \in all : row.table = "findings" /\ row.tenant = tenant /\ row.id = id
  BY DEF Found, LookedUp

LEMMA InitTInv == TenantInit => TInv
  BY DEF TenantInit, TInv, TenantTypeOK, PendingInv, SQLiteInv, DoomedInv

LEMMA HandleKeeps ==
  ASSUME TInv, NEW c \in Clients, NEW operation \in Operations \ {"delete_tenant"},
         NEW key \in Keys, Arrives(c, operation),
         NEW id \in Targets(operation), NEW new \in News(operation),
         Handle(c, operation, id, key, new)
  PROVE  TInv'
<1> DEFINE tenant == TenantOf(c)
           served == Serve(tenant, operation, id, key, new, rows)
<1>1. PICK claimed : Admits(c, claimed, operation)
  BY DEF Arrives
<1>2. /\ tenant \in Tenants
      /\ operation \in OpsApi => mode.production /\ mode.store = "postgres"
      /\ mode.production => c \in DOMAIN PrincipalOf
  BY <1>1, AdmittedTenant
<1>3. /\ rows' = served.rows /\ mode' = mode /\ doomed' = doomed
      /\ issued' = IF served.status = "200" THEN issued \cup ({new} \ {NoId}) ELSE issued
      /\ pending' = [pending EXCEPT ![c] =
           IF mode.production /\ mode.store = "postgres" /\ Audited(operation, served)
           THEN "audit" ELSE "nothing"]
  BY DEF Handle
<1>4. \A client : TenantOf(client)' = TenantOf(client)
  BY <1>3, SameTenant
<1>5. /\ issued \subseteq issued' /\ issued' \subseteq Ids
      /\ served.status = "200" /\ Draws(operation) => new \in Ids \ issued /\ new \in issued'
      /\ new \in Ids \cup {NoId}
  BY <1>3, TenantAssumption DEF News, TInv, TenantTypeOK
\* A row that was not there before: its table, its tenant and its id.
<1>6. ASSUME NEW row \in rows', row \notin rows
      PROVE  /\ row.tenant = tenant
             /\ \/ row.table = "idempotency_keys" /\ row.id \in issued' \cup {NoId}
                \/ row.table \in {"uploads", "document_blobs"} /\ row.id \in issued'
                \/ row.table = "findings" /\ row.id \in issued' \ issued
                \/ /\ row.table = "finding_decisions"
                   /\ \E target \in rows : /\ target.table = "findings"
                                           /\ target.tenant = tenant /\ target.id = row.id
                \/ row.table \in {"reviewer_feedback", "benchmark_runs"} /\ row.id = NoId
                \/ row.table = "jobs" /\ row.id = NoId /\ operation \in OpsApi
  <2>1. CASE row = KeyRow(tenant, operation, id, key, NoId)
    BY <2>1, KeyRowParts
  <2>2. CASE /\ served.status = "200"
             /\ operation \in DOMAIN LookedUp => Found(tenant, operation, id, rows) # {}
             /\ row \in Written(tenant, operation, id, new)
    <3>1. operation = "decide_finding" =>
            \E target \in rows : target.table = "findings" /\ target.tenant = tenant
                                 /\ target.id = id
      BY <2>2, FoundTarget DEF LookedUp
    <3>2. Draws(operation) <=> operation \in {"upload", "create_finding"}
      BY DEF Draws
    <3> HIDE DEF tenant, served
    <3> QED
      BY <2>2, <3>1, <3>2, <1>5, WrittenRows DEF OpsApi
  <2>3. CASE /\ served.status = "200"
             /\ operation \in DOMAIN LookedUp => Found(tenant, operation, id, rows) # {}
             /\ operation \in Keyed
             /\ row = KeyRow(tenant, operation, id, key, About(operation, id, new))
    <3>1. CASE operation = "decide_finding"
      <4>1. PICK target \in rows : target.table = "findings" /\ target.id = id
        BY <2>3, <3>1, FoundTarget DEF LookedUp
      <4>2. id \in issued
        BY <4>1 DEF TInv, TenantTypeOK, FindingTables
      <4> QED
        BY <2>3, <3>1, <4>2, <1>5, KeyRowParts DEF About
    <3>2. CASE operation # "decide_finding"
      BY <2>3, <3>2, <1>5, KeyRowParts DEF About, Keyed, Draws
    <3> QED
      BY <3>1, <3>2
  <2> QED
    BY <1>3, <1>6, <2>1, <2>2, <2>3, ServeWrites
<1>7. TenantTypeOK'
  <2>1. ASSUME NEW row \in rows'
        PROVE  /\ row.table \in SQLiteTables \cup PostgresTables
               /\ row.tenant \in Tenants /\ row.id \in issued' \cup {NoId}
               /\ row.table \in {"uploads", "document_blobs"} \cup FindingTables => row.id \in issued'
    <3>1. CASE row \in rows
      BY <3>1, <1>5 DEF TInv, TenantTypeOK
    <3>2. CASE row \notin rows
      <4>1. row.table = "finding_decisions" => row.id \in issued'
        BY <1>5, <1>6, <3>2 DEF TInv, TenantTypeOK, FindingTables
      <4> QED
        BY <1>2, <1>6, <3>2, <4>1 DEF SQLiteTables, PostgresTables, FindingTables
    <3> QED
      BY <3>1, <3>2
  <2>2. pending' \in [Clients -> {"nothing", "audit", "deletion"}]
    BY <1>3 DEF TInv, TenantTypeOK
  <2> QED
    BY <1>3, <1>5, <2>1, <2>2 DEF TInv, TenantTypeOK, Tenants
<1>8. PendingInv'
  <2> SUFFICES ASSUME NEW client \in Clients
               PROVE  /\ pending'[client] = "audit" => mode.production /\ mode.store = "postgres"
                                                       /\ client \in DOMAIN PrincipalOf
                      /\ pending'[client] = "deletion" => mode.store = "postgres"
    BY <1>3 DEF PendingInv
  <2>1. CASE client = c
    BY <1>2, <1>3, <2>1 DEF TInv, TenantTypeOK
  <2>2. CASE client # c
    BY <1>3, <2>2 DEF TInv, TenantTypeOK, PendingInv
  <2> QED
    BY <2>1, <2>2
<1>9. SQLiteInv'
  BY <1>2, <1>3, <1>6 DEF TInv, SQLiteInv, SQLiteTables
<1>10. DoomedInv'
  <2> SUFFICES ASSUME NEW client \in Clients, pending'[client] = "deletion",
                      NEW found \in doomed[client]
               PROVE  /\ found.tenant = TenantOf(client)
                      /\ found.table \in FindingTables \cup PostgresTables
                      /\ found.table \in FindingTables =>
                           /\ found.id \in issued'
                           /\ \A row \in rows' :
                                row.table \in FindingTables /\ row.tenant = TenantOf(client)
                                  => row.id # found.id
    BY <1>3, <1>4 DEF DoomedInv
  <2>1. pending[client] = "deletion"
    BY <1>3 DEF TInv, TenantTypeOK
  <2>2. /\ found.tenant = TenantOf(client)
        /\ found.table \in FindingTables \cup PostgresTables
        /\ found.table \in FindingTables =>
             /\ found.id \in issued
             /\ \A row \in rows :
                  row.table \in FindingTables /\ row.tenant = TenantOf(client)
                    => row.id # found.id
    BY <2>1 DEF TInv, DoomedInv
  <2>3. ASSUME found.table \in FindingTables, NEW row \in rows', row \notin rows,
               row.table \in FindingTables, row.tenant = TenantOf(client)
        PROVE  row.id # found.id
    <3>1. CASE row.table = "findings"
      BY <1>6, <2>2, <2>3, <3>1
    <3>2. CASE row.table = "finding_decisions"
      <4>1. PICK target \in rows : /\ target.table = "findings" /\ target.tenant = tenant
                                   /\ target.id = row.id
        BY <1>6, <2>3, <3>2
      <4>2. target.tenant = TenantOf(client)
        BY <1>6, <2>3, <4>1
      <4> QED
        BY <2>2, <2>3, <4>1, <4>2 DEF FindingTables
    <3> QED
      BY <2>3, <3>1, <3>2 DEF FindingTables
  <2> QED
    BY <1>5, <2>2, <2>3
<1> QED
  BY <1>3, <1>7, <1>8, <1>9, <1>10 DEF TInv

LEMMA AuditKeeps ==
  ASSUME TInv, NEW c \in Clients, Audit(c)
  PROVE  TInv'
<1>1. /\ pending[c] = "audit"
      /\ rows' = rows \cup {Row("audit_events", TenantOf(c), NoId)}
      /\ pending' = [pending EXCEPT ![c] = "nothing"]
      /\ mode' = mode /\ issued' = issued /\ doomed' = doomed
  BY DEF Audit
<1>2. /\ mode.production /\ mode.store = "postgres" /\ TenantOf(c) \in Tenants
      /\ \A client : TenantOf(client)' = TenantOf(client)
  BY <1>1, SameTenant DEF TInv, PendingInv, TenantOf, Tenants
<1>3. ASSUME NEW row \in rows', row \notin rows
      PROVE  row.table = "audit_events" /\ row.tenant = TenantOf(c) /\ row.id = NoId
  BY <1>1, <1>3, RowParts
<1>4. TenantTypeOK'
  <2>1. ASSUME NEW row \in rows'
        PROVE  /\ row.table \in SQLiteTables \cup PostgresTables
               /\ row.tenant \in Tenants /\ row.id \in issued \cup {NoId}
               /\ row.table \in {"uploads", "document_blobs"} \cup FindingTables => row.id \in issued
    <3>1. CASE row \in rows
      BY <3>1 DEF TInv, TenantTypeOK
    <3>2. CASE row \notin rows
      BY <1>2, <1>3, <3>2 DEF SQLiteTables, PostgresTables, FindingTables
    <3> QED
      BY <3>1, <3>2
  <2> QED
    BY <1>1, <2>1 DEF TInv, TenantTypeOK, Tenants
<1>5. PendingInv'
  BY <1>1 DEF TInv, TenantTypeOK, PendingInv
<1>6. SQLiteInv'
  BY <1>1, <1>2 DEF SQLiteInv
<1>7. DoomedInv'
  BY <1>1, <1>2, <1>3 DEF TInv, TenantTypeOK, DoomedInv, FindingTables
<1> QED
  BY <1>1, <1>4, <1>5, <1>6, <1>7 DEF TInv

LEMMA DeleteOnSQLiteKeeps ==
  ASSUME TInv, NEW c \in Clients, DeleteOnSQLite(c)
  PROVE  TInv'
<1>1. /\ rows' \subseteq rows /\ mode' = mode /\ issued' = issued
      /\ pending' = pending /\ doomed' = doomed
  BY DEF DeleteOnSQLite, Without
<1>2. \A client : TenantOf(client)' = TenantOf(client)
  BY <1>1, SameTenant
<1>3. TenantTypeOK'
  BY <1>1 DEF TInv, TenantTypeOK, Tenants
<1>4. DoomedInv'
  BY <1>1, <1>2 DEF TInv, DoomedInv
<1> QED
  BY <1>1, <1>3, <1>4 DEF TInv, PendingInv, SQLiteInv

LEMMA DeleteFindingsKeeps ==
  ASSUME TInv, NEW c \in Clients, DeleteFindings(c)
  PROVE  TInv'
<1>1. /\ mode.store = "postgres"
      /\ rows' = Without(FindingTables, TenantOf(c)) /\ rows' \subseteq rows
      /\ doomed' = [doomed EXCEPT ![c] = Own(rows, TenantOf(c))]
      /\ pending' = [pending EXCEPT ![c] = "deletion"]
      /\ mode' = mode /\ issued' = issued
  BY DEF DeleteFindings, Without
<1>2. \A client : TenantOf(client)' = TenantOf(client)
  BY <1>1, SameTenant
<1>3. TenantTypeOK'
  BY <1>1 DEF TInv, TenantTypeOK, Tenants
<1>4. PendingInv'
  BY <1>1 DEF TInv, TenantTypeOK, PendingInv
<1>5. SQLiteInv'
  BY <1>1 DEF SQLiteInv
<1>6. DoomedInv'
  <2> SUFFICES ASSUME NEW client \in Clients, pending'[client] = "deletion",
                      NEW found \in doomed'[client]
               PROVE  /\ found.tenant = TenantOf(client)
                      /\ found.table \in FindingTables \cup PostgresTables
                      /\ found.table \in FindingTables =>
                           /\ found.id \in issued
                           /\ \A row \in rows' :
                                row.table \in FindingTables /\ row.tenant = TenantOf(client)
                                  => row.id # found.id
    BY <1>1, <1>2 DEF DoomedInv
  <2>1. CASE client = c
    <3>1. found \in rows /\ found.tenant = TenantOf(c)
      BY <1>1, <2>1 DEF TInv, Own
    <3>2. \A row \in rows' : ~(row.table \in FindingTables /\ row.tenant = TenantOf(c))
      BY <1>1 DEF Without
    <3> QED
      BY <2>1, <3>1, <3>2
      DEF TInv, TenantTypeOK, SQLiteTables, PostgresTables, FindingTables
  <2>2. CASE client # c
    BY <1>1, <2>2 DEF TInv, TenantTypeOK, DoomedInv
  <2> QED
    BY <2>1, <2>2
<1> QED
  BY <1>1, <1>3, <1>4, <1>5, <1>6 DEF TInv

LEMMA DeleteRestKeeps ==
  ASSUME TInv, NEW c \in Clients, DeleteRest(c)
  PROVE  TInv'
<1>1. /\ rows' \subseteq rows
      /\ doomed' = [doomed EXCEPT ![c] = {}]
      /\ pending' = [pending EXCEPT ![c] = "nothing"]
      /\ mode' = mode /\ issued' = issued
  BY DEF DeleteRest, Without
<1>2. \A client : TenantOf(client)' = TenantOf(client)
  BY <1>1, SameTenant
<1>3. TenantTypeOK'
  BY <1>1 DEF TInv, TenantTypeOK, Tenants
<1>4. PendingInv'
  BY <1>1 DEF TInv, TenantTypeOK, PendingInv
<1>5. SQLiteInv'
  BY <1>1 DEF TInv, SQLiteInv
<1>6. DoomedInv'
  BY <1>1, <1>2 DEF TInv, TenantTypeOK, DoomedInv
<1> QED
  BY <1>1, <1>3, <1>4, <1>5, <1>6 DEF TInv

LEMMA NextTInv == TInv /\ [TenantNext]_tenantVars => TInv'
<1> SUFFICES ASSUME TInv, [TenantNext]_tenantVars PROVE TInv'
  OBVIOUS
<1>1. CASE UNCHANGED tenantVars
  BY <1>1, SameTenant
  DEF tenantVars, TInv, TenantTypeOK, PendingInv, SQLiteInv, DoomedInv
<1>2. CASE TenantNext
  BY <1>2, HandleKeeps, AuditKeeps, DeleteOnSQLiteKeeps, DeleteFindingsKeeps, DeleteRestKeeps
  DEF TenantNext
<1> QED
  BY <1>1, <1>2

LEMMA TInvHolds == TenantSpec => []TInv
<1> QED
  BY InitTInv, NextTInv, PTL DEF TenantSpec

-----------------------------------------------------------------------------
(* The theorems *)

(* Every row is of a known table and tenant, and its id was drawn: the rows of uploads,  *)
(* bytes, findings and decisions always have one.                                        *)
THEOREM TenantTypeCorrect == TenantSpec => []TenantTypeOK
<1>1. TInv => TenantTypeOK
  BY DEF TInv
<1> QED
  BY <1>1, TInvHolds, PTL

\* A fresh id displaces nobody's upload.
LEMMA NothingDisplaced ==
  ASSUME TInv, NEW tenant, NEW operation \in Operations, NEW id,
         NEW new \in News(operation), NEW all, all \subseteq rows
  PROVE  Displaced(Written(tenant, operation, id, new), all) = {}
<1> SUFFICES ASSUME NEW row \in all, row.table = "uploads",
                    NEW written \in Written(tenant, operation, id, new),
                    written.table = "uploads", written.id = row.id
             PROVE  FALSE
  BY DEF Displaced
<1>1. operation = "upload" /\ written.id = new
  BY WrittenRows
<1>2. row.id \in issued /\ new \notin issued
  BY <1>1 DEF TInv, TenantTypeOK, News, Draws
<1> QED
  BY <1>1, <1>2

LEMMA NoNotice == TInv => ServedAlone
<1> SUFFICES ASSUME TInv, NEW tenant \in Tenants, NEW operation \in Operations, NEW key \in Keys,
                    NEW id \in Targets(operation), NEW new \in News(operation)
             PROVE  LET own == Own(rows, tenant)
                        here == Serve(tenant, operation, id, key, new, rows)
                        alone == Serve(tenant, operation, id, key, new, own)
                    IN /\ here.status = alone.status /\ here.shows = alone.shows
                       /\ here.rows = alone.rows \cup (rows \ own)
  BY DEF ServedAlone
<1> DEFINE own == Own(rows, tenant)
           here == Serve(tenant, operation, id, key, new, rows)
           alone == Serve(tenant, operation, id, key, new, own)
           written == Written(tenant, operation, id, new)
           reserved == Reserved(tenant, operation, id, key, rows)
           found == Found(tenant, operation, id, rows)
<1>1. own \subseteq rows
  BY DEF Own
<1>2. reserved = Reserved(tenant, operation, id, key, own)
  BY DEF Reserved, Own
<1>3. found = Found(tenant, operation, id, own)
  BY DEF Found, Own
<1>4. Displaced(written, rows) = {} /\ Displaced(written, own) = {}
  BY <1>1, NothingDisplaced
<1>5. CASE operation \in Keyed /\ reserved # {}
  BY <1>1, <1>2, <1>5 DEF Serve
<1>6. CASE ~(operation \in Keyed /\ reserved # {}) /\ operation \in DOMAIN LookedUp /\ found = {}
  BY <1>1, <1>2, <1>3, <1>6 DEF Serve
<1>7. CASE ~(operation \in Keyed /\ reserved # {}) /\ ~(operation \in DOMAIN LookedUp /\ found = {})
  BY <1>1, <1>2, <1>3, <1>4, <1>7 DEF Serve
<1> QED
  BY <1>5, <1>6, <1>7

(* Whatever ids and keys a request names, it is answered as if the store held no rows but*)
(* those of its own tenant, and leaves the other rows as they are: every statement of the*)
(* two stores binds the tenant, and no id is drawn twice (INSERT OR REPLACE INTO uploads).*)
THEOREM TenantsDoNotNotice == TenantSpec => []ServedAlone
BY TInvHolds, NoNotice, PTL

LEMMA NothingIsLeft ==
  TInv /\ [TenantNext]_tenantVars =>
    \A c \in Clients : /\ DeleteOnSQLite(c) => Own(rows', TenantOf(c)) = {}
                       /\ DeleteRest(c) => doomed[c] \cap rows' = {}
<1> SUFFICES ASSUME TInv, NEW c \in Clients
             PROVE  /\ DeleteOnSQLite(c) => Own(rows', TenantOf(c)) = {}
                    /\ DeleteRest(c) => doomed[c] \cap rows' = {}
  OBVIOUS
<1>1. ASSUME DeleteOnSQLite(c) PROVE Own(rows', TenantOf(c)) = {}
  BY <1>1 DEF DeleteOnSQLite, Without, Own, TInv, SQLiteInv
<1>2. ASSUME DeleteRest(c) PROVE doomed[c] \cap rows' = {}
  <2> SUFFICES ASSUME NEW found \in doomed[c], found \in rows' PROVE FALSE
    OBVIOUS
  <2>1. pending[c] = "deletion" /\ rows' = Without(PostgresTables, TenantOf(c))
    BY <1>2 DEF DeleteRest
  <2>2. found \in rows /\ found.tenant = TenantOf(c) /\ found.table \in FindingTables
    BY <2>1 DEF Without, TInv, DoomedInv
  <2> QED
    BY <2>1, <2>2 DEF TInv, DoomedInv
<1> QED
  BY <1>1, <1>2

(* When a deletion answers, none of the rows it found of its tenant is left, on SQLite in*)
(* one transaction (delete_tenant of app/storage.py) and on Postgres in two (app/        *)
(* production_postgres_store.py), whatever is written in between.                        *)
THEOREM ErasureIsComplete == TenantSpec => ErasureReachesEveryTable
<1>1. TInv /\ [TenantNext]_tenantVars =>
        [\A c \in Clients : /\ DeleteOnSQLite(c) => Own(rows', TenantOf(c)) = {}
                            /\ DeleteRest(c) => doomed[c] \cap rows' = {}]_tenantVars
  BY NothingIsLeft
<1> QED
  BY <1>1, TInvHolds, PTL DEF TenantSpec, ErasureReachesEveryTable
=============================================================================
