# PrüfPilot in TLA+

PrüfPilot turns packs of documents (funding applications, travel claims) into findings that
people review: documents are uploaded, findings are raised about them under versioned
rules, reviewers approve or reject them, and a *production gate* says whether a finding may
be acted upon. Around this lie a durable job queue, an
idempotency table, an audit trail, retention, and tenant export, restore and deletion.
This directory holds TLA+ models of the service, TLC configurations that check them on small
instances, and proofs, checked by TLAPS, that every safety property of the passing runs holds for
every instance. The models put first what depends on the order in which transactions, requests and
reports happen; the rules that are not a matter of order (what a document yields, when an
instance is ready, whose rows a request sees) are modelled too.

    tlc -config MCJobQueue.cfg MCJobQueue         # model-check
    tlapm JobQueueProofs.tla                      # check the proofs

Paths below are relative to the repository's root.

## 1. Inventory

### Processes and shared state

Several server processes run the FastAPI application (`app/main.py`, with the routers of
`app/findings_api.py` and `app/ops_api.py`). The handlers that touch the store run in a thread
pool, except `upload_document`, which is `async` and holds its process's event loop while it calls
the store; since other processes serve requests meanwhile, its store calls interleave like the
others'. Workers outside the repository pull jobs over the queue's endpoints. All share one
PostgreSQL database through `app/production_postgres_store.py`, which extends
`app/postgres_store.py`. Each store call opens a connection and runs one transaction under READ
COMMITTED; no handler holds a transaction across store calls. So every handler is a sequence of
transactions between which any other request, sweep or deletion can commit, and in the middle of
which its process can die. The only state in a process's memory that outlives a request is caches,
`load_rules` in `app/data.py` the one that matters.

| Component | State | Operations | What makes it correct |
|---|---|---|---|
| Durable job queue (`postgres_store.py`, `production_postgres_store.py`, `ops_api.py`) | `jobs` | enqueue, claim, complete, fail, sweep, delete tenant | no job beyond its budget; no attempt handed out twice; nothing stranded; a dead letter stays one; one job per idempotency key; every job is settled in the end |
| Trust chain (`trust.py`, `models.py`) | none (a value) | build, apply a decision, validate for an action | blockers, assurance and eligibility say the same; a decision leaves nothing of the one before |
| Findings and gate (`findings.py`, `production_postgres_store.py`, `data.py`) | `findings`, `finding_decisions`, `uploads`, `document_blobs`, the rules of each process | create, decide, gate, sweep, delete tenant | an "allow" is true of one instant; later reviews prevail; histories are never torn; a rejection and a rule change shut the gate |
| Idempotent writes and audit (`main.py`, `findings_api.py`, `postgres_store.py`) | `idempotency_keys`, `audit_events`, the rows written | reserve, replay, write, complete, append event | one write per key; equal replies; every write audited; every reservation resolved |
| Backup, restore, deletion (`postgres_store.py`, `production_postgres_store.py`, `ops_api.py`) | all tables of a tenant | export, restore, delete | what was exported can be restored; a restore gives back the tenant as it was |
| Document intake and evidence (`document_ai.py`, `main.py`, `findings.py`) | `uploads`, `document_blobs` | parse, classify, scan, extract, locate; the gate's second look | what was pinned to a page is found there again; a quarantined document supports nothing |
| Readiness, principals, roles (`production.py`, `main.py`, `ops_api.py`, `findings_api.py`) | the environment | evaluate gates, authenticate, authorise | ready only if every gate passes; what is ready serves; a request touches its tenant's rows only |
| SQLite store (`storage.py`) | one file | the calls on documents, findings, feedback, keys, deletion | the same answers as the Postgres store; a deletion reaches every table |
| Feedback and benchmark (`benchmark.py`) | `reviewer_feedback`, `benchmark_runs` | insert, list, take a turn with a provider | "measured" means that every case was answered |
| Case assistant (`agents.py`, `retrieval.py`, `v5_cases.py`, `providers.py`, `store.py`) | none | answer, draft, rank | an answer cites what it rests on |
| MCP server, screens and redaction, harness, demo, front ends | none | adapters, pattern matching, offline scripts | — |

### How they interact

* Upload: `main.py` reserves the idempotency key, runs the intake, saves upload and bytes in
  one transaction, completes the key, appends the audit event.
* Finding and decision: `findings_api.py` reserves the key, `findings.py` reads the upload
  and its bytes, compares the digest, builds a chain with `trust.py`, writes the row and
  ends by evaluating the gate for the view it returns; then the key is completed and the
  event appended.
* Gate: `findings.py` reads the finding, its decisions, the upload, its bytes and the rules,
  in that order, one transaction each, rebuilds the chain with the current decision and
  validates it.
* Queue: clients enqueue over `ops_api.py`; workers claim and report. A report names the job
  only, not the worker or the attempt.
* Readiness: `/api/ready` evaluates the gates over the environment and the store's health; the
  operations read the same settings on their own, each in its place.
* Retention and deletion cut across everything: findings and decisions in one transaction,
  uploads, bytes, jobs, keys and events in a second.

### What is hard

Interleaved transactions (every handler), the row lock of `claim_job` and the gap between
the two statements of `enqueue_job`, late, repeated and contradictory reports, crashes
between the four transactions of a write, rows deleted under a running request, timestamps
taken before the commit they order, per-process caches, and restores that meet new writes.
Apart from order: rules that are written down in two or three places and must agree (blockers
and eligibility, locating an excerpt and verifying it, the gates and the list of the required
ones, the tables and the lists of tables to empty), and limits (50 pages, budgets, percentiles).
`PROJECT.json` lists each hazard at its line, with the properties that cover it or the reason
why none does yet.

## 2. Modules

| Module | Models | Extends / instantiates |
|---|---|---|
| `BoundedRetry` | abstract: what the queue promises about retries | |
| `JobQueue` | the queue | INSTANCE `BoundedRetry` |
| `JobQueueProofs` | theorems about `JobQueue` | `JobQueue`, TLAPS |
| `TrustRules` | `trust.py` as operators | |
| `TrustChain` | a chain through a sequence of decisions | `TrustRules` |
| `TrustChainProofs` | theorems about `TrustChain` | `TrustChain`, TLAPS |
| `FindingLedger` | a finding, its decisions, its document, the gate | `TrustRules` |
| `FindingLedgerProofs` | theorems about `FindingLedger` | `FindingLedger`, TLAPS |
| `WriteOnce` | abstract: what an idempotency key promises | |
| `IdempotentWrites` | the four transactions of a repeatable write | INSTANCE `WriteOnce` |
| `IdempotentWritesProofs` | theorems about `IdempotentWrites` | `IdempotentWrites`, TLAPS |
| `TenantBackup` | export, restore and deletion of a tenant that goes on writing | |
| `TenantBackupProofs` | theorems about `TenantBackup` | `TenantBackup`, TLAPS |
| `DocumentIntake` | a document from its bytes to a finding that passes the gate | `TrustRules` |
| `DocumentIntakeProofs` | theorems about `DocumentIntake` | `DocumentIntake`, `TrustChainProofs`, TLAPS |
| `Readiness` | configurations, gates, probes, what the operations answer | |
| `TenantRequests` | who may send which request, whose rows it reads and writes, on both stores | |
| `RequestProofs` | theorems about `Readiness` and `TenantRequests` | these two, TLAPS |
| `BenchmarkRun` | a provider's turn in a benchmark | |
| `BenchmarkRunProofs` | theorems about `BenchmarkRun` | `BenchmarkRun`, TLAPS |
| `MCJobQueue`, `MCFindingLedger`, `MCIdempotentWrites`, `MCTenantBackup` | symmetry sets for TLC | the module each is named after |
| `MCRules` | `TrustChain`, `DocumentIntake`, `Readiness`, `TenantRequests` and `BenchmarkRun` side by side | these five |

Definitions marked `mutant:` are variants of the one that follows them, as a plausible bug
would have it (no row lock, no status check, an off-by-one). Nothing uses them; each property
was checked to fail when its definition is replaced by the variant, which `PROJECT.json`
names.

### JobQueue

One tenant's `jobs` table: every statement names the tenant. Rows are numbered by
`created_at` (`nextId`); an id is a uuid4 in the code and never reused either.

| Action | Code |
|---|---|
| `EnqueueInsert`, `EnqueueSelect` | `enqueue_job`: INSERT … ON CONFLICT DO NOTHING, then SELECT with a snapshot of its own, between which a deletion can commit |
| `ClaimSelect`, `ClaimUpdate` | `claim_job`: SELECT … FOR UPDATE SKIP LOCKED, then UPDATE and COMMIT. `claiming` is the row lock; the other statements wait for it (`~Locked`) |
| `Report`, `Stray` | `complete_job` and `fail_job`, once by the holder of a claim, and any number up to `MaxStrays` of repeated, late or operators' reports |
| `DelayElapses` | `available_at` passes |
| `WorkerCrash` | a worker dies: its transaction rolls back, what it claimed is never reported |
| `RetentionSweep`, `DeleteTenant` | the DELETE statements, whatever the status |

`tickets`, `open`, `lost`, `answers` and `completions` are what workers and clients
were told, so that properties can speak of them. `leased_at` is written and never read by
the code, and is left out.

### TrustRules and TrustChain

`Blockers`, `Assurance`, `Chain`, `WithDecision` and `Reasons` are the functions of `trust.py`
over what the rules ask of the data: verified or not, complete or not, located or not.
`TrustChain` starts from any chain and applies any decisions; `decide_finding` applies one, to the
chain as created, so this is a statement about the functions rather than about a finding's
history. The digest of the chain and its serialisation are left out.

### FindingLedger

One finding suffices: every statement names the finding. A process handles one request at a time;
the threads of one process share only its cache, and with a cache of its own each modelled process
can do what they do. Each read or write of the code is an action: `CreateStart/Verify/Save`,
`DecideRead/Stamp/Append`, `GateFinding/Decisions/Upload/Blob/Answer`,
`SweepFindings/SweepUploads`, `DeleteFindings/DeleteUploads`. `create_finding` and
`decide_finding` end in the gate's reads (place `view`). `Tamper` alters stored bytes,
`ChangeRules` deploys another `rules.json`, `Restart` loses a process's request and cache.
Processes read one clock (`now`); that an INSERT takes at least a tick (`DecideAppend`) orders a
decision after those its reviewer saw. Clocks that disagree are not modelled. `draft.after` and
`seen.was` record what was true at an earlier read and are compared by properties only.
Quarantined and foreign documents are refused without a write and are left out. `CreateVerify`
reads the stored bytes and loads the rules in one step; only the case of rules that are deployed
between these two is lost.

### IdempotentWrites

Uploads, findings and decisions share one pattern: `Reserve` (or `Replay`), `Write`,
`Complete`, `Audit`, each a transaction. `Refuse` is a `FindingError` before
the write, `RefuseView` one from the view after it, possible only when the finding was deleted
in between (`undercut`). `EraseFindings` and `EraseKeys` are the two transactions of a sweep
or a deletion. The rows written are not represented beyond `made`: no request reads
again what another wrote under the same key.

`WriteOnce` says what this comes to, without reservations, responses or requests: a key has one
life at a time, a life leads to at most one write, no earlier life of a key writes unless the key's
row was deleted, and clients are told only of what was written. A life is the time between a row's
INSERT and its DELETE, known by the moment of the INSERT; `Promise` is the mapping.

### TenantBackup

`db` holds the committed rows of six tables; a row is its primary key and the one thing a
property asks of it: whether a key is reserved or which document its response names. Two
steps read or write several tables at once only where one transaction does.

| Action | Code |
|---|---|
| `ExportFirst`, `ExportNext`, `ExportLast` | the SELECTs of both `export_tenant`s, each with a snapshot of its own: uploads, keys, jobs, bytes, findings, decisions |
| `DeleteLedger` | the first transaction of `delete_tenant`, alone or at the start of `restore_tenant` |
| `DeleteRows`, `DeleteUploads` | the second: every table but uploads, then uploads with the cascade to bytes, and COMMIT. Meanwhile `doomed` rows are locked (`Held`): a statement on one of them waits |
| `InsertBase`, `InsertLedger` | the two inserting transactions of `restore_tenant`: all rows, or, when a primary key is taken or bytes lack their upload, none and an error |
| `Crash` | a server dies inside any of these |
| `Reserve`, `SaveUpload`, `CompleteKey`, `Enqueue`, `SaveFinding`, `AppendDecision` | what the tenant's requests commit meanwhile |
| `SweepLedger`, `SweepBase` | the two transactions of a sweep, whichever rows are old enough |

Feedback, benchmark runs and audit events are read, deleted and inserted with jobs and refer to
nothing; they stand behind jobs. `disturbed` records who committed since an export or a restore
began; `first` and `last` of a backup what the database was at the export's ends. Only properties
read them. A snapshot of another tenant or schema is refused before anything is written and is
left out.

### DocumentIntake

A document is a sequence of pages, a page a sequence of words, and the words are the few that
`AMOUNT_RE` and a substring search tell apart: a number that may begin an amount, a group of
three digits, a number with too many digits that contains both, the currency, and a date.
`Within` and `Closes` say which word's characters are found inside which. `Ingest` is the whole of
`ingest_pdf`: the first `PageLimit` pages, joined; the leftmost match of each field; the first page
that contains the excerpt's characters; confidence and scan, and from both the status.
`UploadDocument` is the handler with its refusals, `CreateFinding` and `DecideFinding` take a
finding from the upload as `findings.py` does, and `GateReasons` parses the bytes anew and
searches the cited page. The amount and one more field, the date, stand for the fields; the keyword
lists of the classification are two scores.

### Readiness

The state is an environment, fixed when the process starts, and whether the database answers.
`Gates`, `Required` and `Ready` are `production_readiness`; `Answer` is what each group of
operations replies in that environment to a caller who is allowed all of them. `Probe` is
`/api/ready`, and `vouched` remembers that it said yes.

### TenantRequests

`rows` holds the rows of all tables of all tenants. `Admits` is the middleware and the role tables,
`Found` and `Written` are what each operation reads and writes, `Reserved` the idempotency row it
meets, and `Serve` puts them together into an answer and new rows. One action (`Handle`)
serves a request, since what happens between its transactions is the matter of other modules; its
audit event is a second one. A deletion is one transaction on SQLite and two on Postgres. SQLite
has `id` alone for the primary key of `uploads` (`Displaced`).

### BenchmarkRun

A turn asks case after case; a call may fail before or after its latency is taken, and an answer may
be right in any of the tasks it was asked for. `Finish` makes the metric.

## 3. Runs

| Run | Instance | States | Shows |
|---|---|---|---|
| `queue` | 2 workers, 1 client, 2 keys, budgets asked 0 and 2, 2 jobs, 2 stray reports, 1 crash | 180,836 | all safety properties of the queue and the refinement of `BoundedRetry` |
| `queue_live` | the same without crashes, budget 2 | 178,945 | `EventuallyAllSettled` |
| `queue_late_fail` | 1 key, 1 job, 1 stray report | violation | `CompletedOnce` fails |
| `rules` | 2 reviewers with every source, authority, evidence and decision; documents of up to 4 pages under a limit of 3; every configuration; an owner, a reviewer of another tenant and a stranger with 1 key, 2 ids and 3 writes; 4 fixtures, 3 for a model | 65,511 | the properties of the five modules below |
| `ledger` | 2 processes, 1 reviewer, 1 rule, retention 1, time to 4, 2 decisions | 1.7 million | the ledger's safety properties |
| `ledger_late_rejection` | 2 reviewers, 2 rules, time to 3 | violation | `RejectionShuts` fails |
| `ledger_rule_change` | the same | violation | `AuthorityChangeShuts` fails |
| `writes` | 3 requests, 2 operations of which one refuses, 1 key, reservations up to time 4, 1 crash, 2 erasures | 1.5 million | one write, equal replies, audited writes, and the refinement of `WriteOnce` |
| `writes_live` | 3 requests, 1 operation, 2 keys, no crash, no refusal, 1 erasure | 66,895 | `ReservationsResolve` |
| `writes_stuck` | 2 requests, 1 operation that refuses | violation | `InProgressIsTrue` fails |
| `backup` | 1 document, 1 key, 2 administrators, 1 export, 2 deletions, restores or sweeps | 1.6 million | a quiet roundtrip never fails and is exact; the foreign key refuses a torn backup |
| `backup_torn` | 1 document, 1 key, 1 administrator, 1 export, 1 restore | violation | `RoundtripRecovers` fails |

`rules` holds five specifications that share no state. The variable `part`, set initially, says
which of them moves while the others stay put, so its states are the sum of theirs and not the
product. Its properties:

* chains: the rules' three encodings agree with what may be acted on (`ActsExactlyWhenAllowed`),
  and a decision leaves nothing of the one before (`DecisionsLeaveNoResidue`);
* documents: the gate finds a pinned excerpt on its page (`PinnedIsFoundAgain`); a value that
  stands on one page is pinned to it or to an earlier page with its characters, and one that runs
  over a page break has no page, or any page, earlier or later, that contains its characters
  (`PinnedWhereExtracted`); of a finding that intake lets through the gate asks for a complete
  authority and an approval and nothing else, and nothing quarantined is among them
  (`OnlyTheDecisionIsLeft`);
* configurations: ready means one condition on environment and database (`ReadyExactlyWhenSafe`),
  and what is ready serves, except a sweep whose days cannot be used (`ReadyServes`);
* requests: a tenant is served as if it were alone (`ServedAlone`), and a deletion reaches every
  table (`ErasureReachesEveryTable`);
* benchmark turns: what a metric says was earned (`RatesAreEarned`).

Why the bounds suffice. Two workers and two jobs give a race for one row, a worker that skips a
locked row for the next, and a claim of a row that another worker still thinks is its own; budget
2 has a first failure, a retry and a dead letter, and budget 0 the lower end, where the code
grants 1; two strays let one bring a finished job back and the other finish it again. Two
processes and two decisions give overlapping reviews, a review within a gate evaluation and a
sweep within either, and time to 4 with retention 1 lets a decision expire before its finding and
after it. Three requests on one key give an owner, a repeat, and a second owner after an erasure;
the second operation shares the key's name, which shows that the operation is part of the key. One
document is enough to tear a backup (its bytes are read after its row) and to collide with a
restore (a request puts its key back before the restore does); two administrators give overlapping
restores and a deletion during a restore or an export. Three pages within the limit and one beyond
it have a value that stands on one page, on several, across one break or two, across the limit,
and past it, and a value across a break whose characters an earlier or a later page contains in
one piece; pages of two words hold every way in which one excerpt's characters can lie inside
another's. Threats and scores vary on one-page documents only, because the text has no part in
them. Environments are enumerated by the classes of values their variables can have; a calendar of
40 days has numbers of days on both sides of both its ends. Two tenants with different roles, one
key that both use and two ids are enough for a request to name the other's row or meet its key;
three writes make a document, a finding and a third that could disturb them. Three cases asked
give a turn with no, some and only failures. The theorems then remove the bounds for all of these.

Deadlock is not checked: each system may come to rest, when every job is settled, the clock
has reached its bound or no request is left to send.

Symmetry permutes workers, clients, keys, processes, requests or ids in the runs of safety
properties only (in `rules` the ids alone: its clients differ in their principals).

### Fairness

`JobQueue!FairSpec`: a worker whose claim can succeed claims in the end and finishes its
transaction (workers poll, PostgreSQL ends transactions); what is claimed is reported in the
end (the run has no crashes: nothing in the code recovers a dead worker's job); an elapsed
delay is noticed (`available_at <= NOW()`). Nobody is obliged to enqueue, repeat a report or
delete. `IdempotentWrites!FairSpec`: a running handler goes on to its next statement. Nobody
is obliged to send or repeat a request. All of it is weak fairness: each action stays enabled
until it is taken, or another report or deletion makes it moot.

### Where documents and code part

* `queue_late_fail`. `fail_job` reads `attempts` and `max_attempts` and sets `status='queued'`
  whatever the status was. A fail report that arrives after the job is done (repeated by a client,
  or an operator's) requeues it, and it is completed a second time.
  `docs/PRODUCTION_PLATFORM_V1.md` says "duplicate jobs do not create duplicate effects". The
  budget still holds, and a dead letter is not resurrected: both are proved.
* `ledger_late_rejection`. `decided_at` is taken in `decide_finding` before the row is appended,
  and the gate orders by it. Of two overlapping reviews the rejection can be appended last with
  the earlier time; the gate stays open. `proof/EXTERNAL_GOLDEN_PATH_1.md` expects "append a later
  rejection" to make the gate "fail closed". What does hold, and is proved, is
  `LaterReviewPrevails`: a reviewer who could see a decision overrules it.
* `ledger_rule_change`. `load_rules` is cached for the life of a process, so a process that read
  the old rules goes on allowing findings bound to them. The same document expects "change the
  authority version" to shut the gate.
* `writes_stuck`. When the write raises a `FindingError` its key is neither completed nor
  released. Every repeat gets a 409 "Write with this idempotency key is already in progress",
  though nobody works on it, until retention deletes the key.
* `backup_torn`. `export_tenant` reads uploads first and bytes last, each SELECT under its own
  snapshot. An upload that commits in between is exported as bytes without a row. `restore_tenant`
  commits the deletion of the tenant, and then its first insertion fails on the foreign key: the
  tenant is left empty. `docs/PRODUCTION_PLATFORM_V1.md` says "a backup → tenant deletion →
  restore roundtrip recovers original PDF bytes, audit and queued work". What holds is
  `RoundtripExact` for a quiet tenant, and `TornIsRefused`: a backup torn by requests alone passes
  the foreign key only if its uploads and bytes are those of the export's first instant. A
  deletion or a sweep between the reads is another matter: it can leave uploads without bytes in
  the backup, which no constraint refuses.

Three more observations have no run of their own:

* Readiness counts retention as configured when `PRUEFPILOT_RETENTION_DAYS` is present
  (`production.py:82`). The sweep strips it and answers 503 "not configured" when it is blank; it
  raises, and answers 500, when the text is no number (`ops_api.py:121`), when the number is below
  one (`production_postgres_store.py:126`), and when so many days ago there was no date yet (line
  128). `ReadyServes` states these as its exceptions and says that there is no other.
* An excerpt is pinned to the first page that contains its characters. That may be an earlier page
  than the one it was read from ("500" inside "1500"), and for an amount that runs over a page
  break ("1" at the end of page 1, "500 EUR" on page 2) it may also be a later one, if that
  contains "1 500". `PinnedWhereExtracted` tells the two cases apart.
* A model's turn in the benchmark is over the first six fixtures, all labelled "allow", so its
  "security_recall" rests on no document to quarantine, while the deterministic rules are asked
  all twelve. A turn with some failures is "failed" and still shows its rates, and those of amount
  and verdict are over the cases that were answered.

## 4. Proofs

Assumptions: `QueueAssumption`, `ActorAssumption`, `LedgerAssumption`, `WritesAssumption`,
`BackupAssumption`, `IntakeAssumption`, `ReadinessAssumption`, `TenantAssumption`,
`BenchmarkAssumption`, declared with the constants and evaluated by TLC in the runs. They ask for
natural bounds, days that are integers, a positive retention and page limit, decision ids that are
numbers, files that are sequences of pages of words, principals that are clients, refusing
operations that are operations, and markers outside the sets they complement. The sets of workers,
clients, keys, reviewers, processes, rules, requests, documents, administrators, files and ids are
arbitrary, and so are the bounds.

**JobQueue** (`JobQueueProofs`):

* `TypeCorrect`: `TypeOK` needs `ClaimInv` (a row that a claim holds is queued, and two claims
  never hold one), because only the lock keeps a claimed row from being deleted or finished
  between SELECT and UPDATE.
* `BudgetKept`, `DeadLetterFinal`: `AttemptBudget` is inductive given `TypeOK` and `ClaimInv`,
  since a claim increments only a row whose `queued` status implies an attempt left.
* `AttemptsHandedOutOnce`: `TicketInv` says that no ticket carries an attempt beyond its row's
  counter, and that no ticket names a row that was never inserted; a new claim's attempt is
  therefore new.
* `RunningJobsAreHeld`: inductive by itself, with the lemma that only claims set a row running.
* `KeysNameOneJob`: `KeyInv` says that a key has at most one live row, that each live row's number
  was answered for its key, and that an answered row, while it lives, has the key it was answered
  for.
* `BoundedRetryImplemented`: under the mapping that counts tickets as runs, each action is a step
  of `BoundedRetry` or a stutter. `RunsInv` (a row's attempts are the tickets for it) turns the
  code's counter into the abstract one.
* `OnlyStraysCompleteTwice`: without stray reports `CompletedOnce`, which `queue_late_fail`
  violates, does hold. `OpenInv` says that an attempt for which a report is still due belongs to a
  running or a lost job and is its latest; `OnceInv` that a completed job is done or gone.
  The second completion therefore takes a report by somebody who holds nothing.

**TrustChain** (`TrustChainProofs`): `BuiltInv` (the chain is the one its parts and last decision
give, and those are typed) is inductive; `NoResidue` is part of it; `ActsExactly` compares the
rule with the blockers, the assurance and the eligibility over arbitrary inputs.

**FindingLedger** (`FindingLedgerProofs`):

* `TypeCorrect` and `LaterReviewWins` rest on `ReviewInv`: non-empty decisions have a latest
  (`HasLatest`), each id is drawn once (`IdsDrawnOnce`), what a reviewer saw is committed and
  earlier than now (`SeenCommitted`), drafts and decisions are not of the future (`TimesInOrder`).
  The order is on times and then on ids, so without unique ids there would be no latest decision.
* `HistoryComplete`: `HistoryInv` says that no decision, taken or in preparation, is older than
  the finding, and that nothing is decided before the finding is stored; a decision old enough to
  be swept therefore belongs to a finding that goes in the same transaction.
* `AllowSound`: `GateInv` says that an evaluation that has found the bytes intact and holds an
  approval saw a standing approval and intact bytes when it read the decisions, because no step
  makes a deleted or altered document intact again (`NeverIntactAgain`). Of the finding itself it
  says nothing: one deleted between the gate's first two reads may be allowed by an approval
  appended after the deletion.
* `OnlyOverlapsOutliveRejection`: if one request is served at a time (`OneAtATime`),
  `RejectionShuts`, which `ledger_late_rejection` violates, does hold: each decision is then
  stamped later than all that are committed (`InTurn`). Two overlapping reviews are what the
  violation needs.

**IdempotentWrites** (`IdempotentWritesProofs`): `WritesTypeCorrect`, `OneWrite`,
`RepliesConsistent`, `WritesAudited`. The key to `WInv` is the moment at which a key was reserved.
No two requests own one moment (`OwnersDiffer`), no write of a moment exists before its owner
writes (`HeldInv`), and two writes of one moment are one write (`MadeInv`). `Stands` ties moments to
rows: a key that was never deleted still has the row of the moment it was reserved at. So two writes
under a key that was never deleted have its one moment, and are one. `ResponseInv` adds that
what is stored and told under a key was written under it.

`WriteOnceImplemented` goes through the actions: `Reserve` begins a life, `Write` is a write in
the life its request reserved (`WInv` gives that no other is of that moment, and that the life is
the present one unless the key was erased), `Replay` and `Audit` tell, `EraseKeys` ends lives, and
the rest stutters. `OnlyTheRefusedOrDeadStall` says what `writes_stuck` needs: without refusals
and crashes every row that lacks a response has a request in hand that will write it
(`ProgressInv`).

**TenantBackup** (`TenantBackupProofs`): `BackupTypeCorrect`, `RoundtripIsExact`, `TornRefused`.
`BInv` is about who has committed since an export or a restore began. Nobody: what the export has
read is what there is (`QuietInv`), and what the restore has left of the tenant, or made of it, is
known at each place (`RestoreInv`). Only requests: uploads and bytes have only grown, new bytes
belong to uploads drawn since, and a key that answers with one of those was read when its bytes
were there (`TornInv`); the foreign key then leaves no room for new bytes. `SoundInv` says that
ids are unique in each table and were drawn, in the database and in every backup, which keeps a
restore from inserting what a request could draw again. Since what a quiet export has read
satisfies the foreign key and finds no id taken, its restore cannot fail (`RoundtripExact` says
so).

**DocumentIntake** (`DocumentIntakeProofs`): `IntakeTypeCorrect`, `PinnedRight`, `PinnedFound`,
`DecisionLeft`. `IntakeInv` says that the stored upload is what `Ingest` makes of the file and
that a finding cites one of its fields. A located page is the least of the pages that contain the
excerpt, and is therefore within the pages that the gate parses. That the decision is all that is
left uses `ActsExactly` of the trust chain. `PinnedRight` needs more, the joined text. Its
definition (`FlattenSeq`) is a recursive function, so that it exists is proved first
(`JoinsExists`), then that each page is a stretch of the text (`PageInText`, `TextGrows`); hence a
value whose words do not run over a page break stands on the page of its first word, and the
location finds that page or an earlier one. A value that runs over a break is located where some page
reads the same, or nowhere. Where induction is needed, the least exception is
taken (`LeastNumber`), which exists by the well-foundedness of `<` on the numbers.

**Readiness** (`RequestProofs`): `ReadyIsSafe`, `ReadyIsServed`. The first compares the list of
required gates with the condition, gate by gate; the second needs that whoever was vouched for was
ready when probed and that the database has not failed since, and holds for any set of numbers the
retention variable may name.

**TenantRequests** (`RequestProofs`): `TenantTypeCorrect`, `TenantsDoNotNotice`,
`ErasureIsComplete`. That a tenant is served as if alone holds state by state, except for
`Displaced`: on SQLite an upload replaces whatever row has its id, and only because ids are
drawn once (the type invariant says that every document and finding row has an issued id) is
that never another tenant's. The deletion needs to know what a half-done one has found
(`DoomedInv`), and that SQLite never holds a table its deletion does not list (`SQLiteInv`).

**BenchmarkRun** (`BenchmarkRunProofs`): `RatesEarned`. `Counted` says that each counter of the
turn is the cardinality of the set of cases it stands for; a case adds its number to some of these
sets and to no other. The index of the 95th percentile is arithmetic on the number of latencies
taken.

Only model-checked: `EventuallyAllSettled` and `ReservationsResolve`, since liveness under fairness
is beyond the prover, and the violations, of which theorems say what three of them cannot do
without. That `backup_torn` needs somebody who commits during the export or the restore is
`RoundtripIsExact`; `ledger_rule_change` needs nothing but the cache.

What the properties exempt: `RunningIsHeld` the jobs of workers that died, which nothing in the
code recovers; `WritesAreAudited` requests that died or found their finding deleted; and the
liveness runs have no crashes, the one of the keys no refusals either. There the code promises
nothing.

## 5. Not modelled

* `JobQueue`, `FindingLedger` and `IdempotentWrites` have deletions but no restore: their
  statements are about a tenant that is not restored meanwhile. A restore puts back old attempts,
  decisions and keys, so the statements that speak of history do not survive one.
* Clocks that disagree, lost connections other than as a crash of the request, and a database that
  breaks its isolation level.
* The case assistant (`agents.py`, `retrieval.py`, `v5_cases.py`, `providers.py`, `store.py`):
  answers picked by keywords from fixed texts, a ranking over floating-point scores, no state and
  no interaction with the rest.
* Patterns and keyword lists themselves, redaction, the serialised form and the digest of a trust
  chain, validation by pydantic.
* Calls to models and to OCR (a benchmark's call answers or fails, and no more is said), web
  pages, the MCP adapter, the demo deployment, the offline validators, harness and security
  report.
* The audit events of reads and of the queue's endpoints.
* Writes without an idempotency key, which only an instance outside production accepts: they take
  the same steps without the reservation.

## 6. Plan

Done, in this order: `BoundedRetry` and `JobQueue`; `TrustRules` and `TrustChain`;
`FindingLedger`, which uses `TrustRules`; `IdempotentWrites`; the proofs of the first three;
`TenantBackup`; `DocumentIntake`, `Readiness` and `TenantRequests` with their proofs; the proofs
of `IdempotentWrites` and `TenantBackup`; `BenchmarkRun`; its proofs and those of the joined text;
`WriteOnce` and its refinement; what each violation needs.

What would come next:

1. Restores that meet requests: which of the statements about history survive a restore of an older
   backup, and what two restores at once can leave (`production_postgres_store.py:173`).
2. A restore in `IdempotentWrites` and `FindingLedger`, whose properties would then have to speak of
   the time since the last one.
3. The stored response of a repeated decision against the gate of the day
   (`findings_api.py:91`).
