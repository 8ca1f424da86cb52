----------------------------- MODULE Readiness ------------------------------
(***************************************************************************)
(* Whether an instance calls itself ready (app/production.py, /api/ready), *)
(* and what its operations answer a caller who is allowed all of them      *)
(* (app/main.py, app/ops_api.py, app/findings_api.py).  The environment is *)
(* read when the process starts or on use and stays as it is; the database *)
(* behind it, without which no process starts, fails and recovers.         *)
(***************************************************************************)
EXTENDS Integers

CONSTANTS
  RetentionDays,    \* the numbers PRUEFPILOT_RETENTION_DAYS may name
  DaysOnCalendar    \* the days from the first date there is until today

ASSUME ReadinessAssumption == RetentionDays \subseteq Int /\ DaysOnCalendar \in Nat

StoreModes == {"postgres-durable", "sqlite-durable", "serverless-ephemeral+browser"}
Flags == {"observability", "backup_restore_tested", "rollback_ready", "trust_chain_enforced"}

\* PRUEFPILOT_RETENTION_DAYS: missing or empty, white space, no number, or a number
Days ==
  {[text |-> "unset"], [text |-> "blank"], [text |-> "malformed"]}
  \cup [text : {"number"}, value : RetentionDays]

Environment == [
  production : BOOLEAN,
  mode : StoreModes,                                     \* which store was built
  principals : SUBSET {"complete", "incomplete"},        \* entries of the JSON object
  days : Days,
  flags : SUBSET Flags,                                  \* those set to 1, true, yes or on
  wildcard : BOOLEAN ]                                   \* "*" among ALLOWED_ORIGINS

VARIABLES
  env,
  up,               \* the database can be reached
  vouched           \* a probe answered ready, and the database has not failed since

readinessVars == <<env, up, vouched>>

\* load_api_principals: an entry that lacks its tenant, actor or role is passed over.
Principals(e) == e.principals \ {"incomplete"}

\* health of either store; what it lacks reads as false.
HealthAsBuilt(e) ==                          \* mutant: nothing is asked of the database
  LET durable == e.mode = "postgres-durable"
  IN [ok |-> TRUE, queue |-> durable, audit |-> durable]
Health(e) ==
  LET durable == up /\ e.mode = "postgres-durable"
  IN [ok |-> up, queue |-> durable, audit |-> durable]

Gates(e) == [
  production_mode |-> e.production,
  identity_and_access |-> Principals(e) # {},
  tenant_principal_binding |-> Principals(e) # {},
  durable_persistence |-> e.mode \in {"postgres-durable", "external-durable"},
  durable_object_storage |-> e.mode = "postgres-durable",
  durable_queue |-> Health(e).queue,
  durable_audit |-> Health(e).audit,
  storage_health |-> Health(e).ok,
  strict_cors |-> ~e.wildcard,
  observability_configured |-> "observability" \in e.flags,
  retention_deletion_configured |-> e.days.text # "unset",
  backup_restore_evidence |-> "backup_restore_tested" \in e.flags,
  rollback_runbook |-> "rollback_ready" \in e.flags,
  tenant_scoped_persistence |-> TRUE,
  trust_chain_enforced |-> "trust_chain_enforced" \in e.flags ]

RequiredLacksOne == {                        \* mutant: strict_cors is not in the list
  "identity_and_access", "tenant_principal_binding", "durable_persistence",
  "durable_object_storage", "durable_queue", "durable_audit", "storage_health",
  "observability_configured", "retention_deletion_configured", "backup_restore_evidence",
  "rollback_runbook", "tenant_scoped_persistence", "trust_chain_enforced"}
Required == {
  "identity_and_access", "tenant_principal_binding", "durable_persistence",
  "durable_object_storage", "durable_queue", "durable_audit", "storage_health", "strict_cors",
  "observability_configured", "retention_deletion_configured", "backup_restore_evidence",
  "rollback_runbook", "tenant_scoped_persistence", "trust_chain_enforced"}

Missing(e) == {gate \in Required : ~Gates(e)[gate]}
Ready(e) == e.production /\ Missing(e) = {}

-----------------------------------------------------------------------------
(* The operations, for a caller whose key and role are in order if any are *)

StoreOperations == {"upload", "original", "feedback", "benchmark", "finding", "delete_tenant"}
DurableOperations == {"jobs", "audit_log", "retention", "backup", "restore"}

\* request_context: production serves nobody without a key, and knows only its principals'.
Authenticated(e) == ~e.production \/ Principals(e) # {}

\* The sweep converts the text, refuses what is below one, and needs a date for its cutoff.
Sweepable(days) == days.text = "number" /\ days.value >= 1 /\ days.value <= DaysOnCalendar

\* The durable operations take a principal, which only production has, and methods only
\* ProductionPostgresStore has; run_retention strips what readiness does not.
Answer(e, operation) ==
  LET durable == operation \in DurableOperations
      sweep == operation = "retention"
  IN IF ~Authenticated(e) THEN 401
     ELSE IF durable /\ ~e.production THEN 403
     ELSE IF \/ durable /\ e.mode # "postgres-durable"
             \/ sweep /\ e.days.text \in {"unset", "blank"} THEN 503
     ELSE IF ~up \/ (sweep /\ ~Sweepable(e.days)) THEN 500
     ELSE 200

ReadinessInit == env \in Environment /\ up = TRUE /\ vouched = FALSE

Probe ==                                     \* GET /api/ready
  /\ vouched' = Ready(env)
  /\ UNCHANGED <<env, up>>

DatabaseFails == up /\ up' = FALSE /\ vouched' = FALSE /\ UNCHANGED env
DatabaseRecovers == ~up /\ up' = TRUE /\ UNCHANGED <<env, vouched>>

ReadinessNext == Probe \/ DatabaseFails \/ DatabaseRecovers

ReadinessSpec == ReadinessInit /\ [][ReadinessNext]_readinessVars

-----------------------------------------------------------------------------
(* Properties *)

ReadinessTypeOK == env \in Environment /\ up \in BOOLEAN /\ vouched \in BOOLEAN

(* An instance says ready exactly when it runs in production on a reachable Postgres, has*)
(* a principal, every assertion of the operator and a retention time, and lists its      *)
(* origins: the gates, and the list of the gates that count, leave no way around one and *)
(* ask for nothing else.                                                                 *)
ReadyExactlyWhenSafe ==
  Ready(env) <=> /\ env.production /\ env.mode = "postgres-durable" /\ up
                 /\ "complete" \in env.principals /\ Flags \subseteq env.flags
                 /\ env.days.text # "unset" /\ ~env.wildcard

(* What calls itself ready serves: until the database fails, every operation answers a   *)
(* caller who may use it, with one exception, which always fails: the retention sweep of *)
(* a deployment whose days are blank, no number, below one or beyond the calendar.  The  *)
(* gate takes the variable's presence for its value.                                     *)
ReadyServes ==
  vouched => \A operation \in StoreOperations \cup DurableOperations :
    Answer(env, operation) = 200
      <=> (operation = "retention" => env.days \in [text : {"number"}, value : 1..DaysOnCalendar])
=============================================================================
