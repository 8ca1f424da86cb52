------------------------------ MODULE JobQueue ------------------------------
(***************************************************************************)
(* The durable job queue of one tenant (app/postgres_store.py,             *)
(* app/production_postgres_store.py, the endpoints of app/ops_api.py).     *)
(* Every statement of the store names the tenant, so the queues of two     *)
(* tenants share no row.  A store call is one READ COMMITTED transaction;  *)
(* a call of two statements is two actions here when another transaction   *)
(* can commit between them, and one action when a row lock prevents it.    *)
(* Workers, operators and clients are outside src/: they may repeat a      *)
(* call, report late, report the opposite of what they reported, or die.   *)
(***************************************************************************)
EXTENDS Naturals, FiniteSets

CONSTANTS
  Workers, Clients, Keys,   \* processes that claim, that enqueue; idempotency keys
  NoKey,
  AskedAttempts,            \* values of max_attempts a client asks for
  MaxJobs,                  \* bound: rows ever inserted
  MaxStrays,                \* bound: repeated, late and operators' reports
  MaxCrashes                \* bound: worker crashes

ASSUME QueueAssumption ==
  /\ MaxJobs \in Nat /\ MaxStrays \in Nat /\ MaxCrashes \in Nat
  /\ AskedAttempts \subseteq Nat
  /\ NoKey \notin Keys

VARIABLES
  jobs,         \* the jobs table; rows are numbered by created_at
  nextId,       \* number of the next row (uuid4 in the code: never reused)
  claiming,     \* row a worker's claim transaction holds FOR UPDATE, or NoJob
  conflicting,  \* key whose INSERT hit a conflict and whose SELECT is due, or NoKey
  answers,      \* what clients were told: job_id per idempotency_key
  tickets,      \* every successful claim ever answered
  open,         \* tickets whose holder has not reported yet
  lost,         \* tickets whose holder died before reporting
  completions,  \* how often each job went from running to done
  strays, crashes

table == <<jobs, nextId>>
environment == <<strays, crashes>>
vars == <<jobs, nextId, claiming, conflicting, answers, tickets, open, lost,
          completions, strays, crashes>>

JobIds == 1..MaxJobs
NoJob == 0
Statuses == {"absent", "queued", "running", "done", "dead-letter"}
NoRow == [status |-> "absent", key |-> NoKey, attempts |-> 0, maxAttempts |-> 0,
          available |-> FALSE]
Row == [status : Statuses, key : Keys \cup {NoKey}, attempts : Nat, maxAttempts : Nat,
        available : BOOLEAN]
Ticket == [job : JobIds, attempt : Nat, worker : Workers]

Exists(j) == jobs[j].status # "absent"
Locked(j) == \E w \in Workers : claiming[w] = j

Init ==
  /\ jobs = [j \in JobIds |-> NoRow]
  /\ nextId = 1
  /\ claiming = [w \in Workers |-> NoJob]
  /\ conflicting = [c \in Clients |-> NoKey]
  /\ answers = {} /\ tickets = {} /\ open = {} /\ lost = {}
  /\ completions = [j \in JobIds |-> 0]
  /\ strays = 0 /\ crashes = 0

-----------------------------------------------------------------------------
(* enqueue_job *)

KeyTakenIgnored(k) == FALSE     \* mutant: no UNIQUE (tenant_id, idempotency_key)
KeyTaken(k) == \E j \in JobIds : Exists(j) /\ jobs[j].key = k

GrantedAsAsked(asked) == asked  \* mutant: the request's max_attempts taken as it is
Granted(asked) == IF asked < 1 THEN 1 ELSE asked

NewRow(k, asked) == [status |-> "queued", key |-> k, attempts |-> 0,
                     maxAttempts |-> Granted(asked), available |-> TRUE]

\* INSERT ... ON CONFLICT DO NOTHING: a new row answers at once.
EnqueueInsert(c, k, asked) ==
  /\ conflicting[c] = NoKey
  /\ \/ /\ ~KeyTaken(k)
        /\ nextId \in JobIds
        /\ jobs' = [jobs EXCEPT ![nextId] = NewRow(k, asked)]
        /\ nextId' = nextId + 1
        /\ answers' = answers \cup {[key |-> k, job |-> nextId]}
        /\ UNCHANGED conflicting
     \/ /\ KeyTaken(k)
        /\ conflicting' = [conflicting EXCEPT ![c] = k]
        /\ UNCHANGED <<table, answers>>
  /\ UNCHANGED <<claiming, tickets, open, lost, completions, environment>>

\* The SELECT sees its own snapshot: the row may be gone, and row[0] raises (500).
EnqueueSelect(c) ==
  /\ conflicting[c] # NoKey
  /\ conflicting' = [conflicting EXCEPT ![c] = NoKey]
  /\ \/ \E j \in JobIds :
          /\ Exists(j) /\ jobs[j].key = conflicting[c]
          /\ answers' = answers \cup {[key |-> conflicting[c], job |-> j]}
     \/ ~KeyTaken(conflicting[c]) /\ UNCHANGED answers
  /\ UNCHANGED <<table, claiming, tickets, open, lost, completions, environment>>

-----------------------------------------------------------------------------
(* claim_job: SELECT ... FOR UPDATE SKIP LOCKED, then UPDATE, then COMMIT *)

EligibleUnlocked(j) ==          \* mutant: a plain SELECT, no row lock
  jobs[j].status = "queued" /\ jobs[j].available
Eligible(j) ==
  jobs[j].status = "queued" /\ jobs[j].available /\ ~Locked(j)

ClaimSelect(w) ==
  /\ claiming[w] = NoJob
  /\ \E j \in JobIds :
       /\ Eligible(j)
       /\ \A i \in JobIds : Eligible(i) => j <= i
       /\ claiming' = [claiming EXCEPT ![w] = j]
  /\ UNCHANGED <<table, conflicting, answers, tickets, open, lost, completions, environment>>

ClaimedRow(row) == [row EXCEPT !.status = "running", !.attempts = row.attempts + 1]

ClaimUpdate(w) ==
  LET j == claiming[w]
      t == [job |-> j, attempt |-> jobs[j].attempts + 1, worker |-> w]
  IN /\ j # NoJob
     /\ jobs' = [jobs EXCEPT ![j] = ClaimedRow(jobs[j])]
     /\ tickets' = tickets \cup {t}
     /\ open' = open \cup {t}
     /\ claiming' = [claiming EXCEPT ![w] = NoJob]
     /\ UNCHANGED <<nextId, conflicting, answers, lost, completions, environment>>

-----------------------------------------------------------------------------
(* complete_job and fail_job: neither looks at worker_id *)

CompletedRow(row) == [row EXCEPT !.status = "done"]

CompletableAlways(j) == Exists(j)            \* mutant: no status='running' in the UPDATE
Completable(j) == jobs[j].status = "running"

\* The 404 branch ("running_job_not_found") changes nothing.
CompleteJob(j) ==
  /\ ~Locked(j)
  /\ \/ /\ Completable(j)
        /\ jobs' = [jobs EXCEPT ![j] = CompletedRow(jobs[j])]
        /\ completions' = [completions EXCEPT ![j] = @ + 1]
     \/ ~Completable(j) /\ UNCHANGED <<jobs, completions>>

ExhaustedEarly(row) == row.attempts + 1 >= row.maxAttempts  \* mutant: counts the next one
Exhausted(row) == row.attempts >= row.maxAttempts

FailedRowForgotten(row, delayed) ==          \* mutant: an exhausted job is left as it is
  IF Exhausted(row) THEN row
  ELSE [row EXCEPT !.status = "queued", !.available = ~delayed]
FailedRowRewound(row, delayed) ==            \* mutant: a retry starts counting again
  IF Exhausted(row) THEN [row EXCEPT !.status = "dead-letter"]
  ELSE [row EXCEPT !.status = "queued", !.available = ~delayed, !.attempts = 0]
FailedRow(row, delayed) ==
  IF Exhausted(row) THEN [row EXCEPT !.status = "dead-letter"]
  ELSE [row EXCEPT !.status = "queued", !.available = ~delayed]

\* No condition on the status: a done or queued job is failed like a running one.
FailJob(j, delayed) ==
  /\ ~Locked(j)
  /\ \/ Exists(j) /\ jobs' = [jobs EXCEPT ![j] = FailedRow(jobs[j], delayed)]
     \/ ~Exists(j) /\ UNCHANGED jobs
  /\ UNCHANGED completions

\* The holder of a ticket reports, once; its row may be gone or running anew by then.
Report(t) ==
  /\ t \in open
  /\ open' = open \ {t}
  /\ \/ CompleteJob(t.job)
     \/ \E delayed \in BOOLEAN : FailJob(t.job, delayed)
  /\ UNCHANGED <<nextId, claiming, conflicting, answers, tickets, lost, environment>>

\* A report repeated after a lost response, a report that contradicts an earlier one,
\* or an operator's (ops_api lets operator, admin and owner report any job).
Stray(j) ==
  /\ strays < MaxStrays
  /\ strays' = strays + 1
  /\ j < nextId
  /\ \/ CompleteJob(j)
     \/ \E delayed \in BOOLEAN : FailJob(j, delayed)
  /\ UNCHANGED <<nextId, claiming, conflicting, answers, tickets, open, lost, crashes>>

\* retry_delay_seconds pass: available_at <= NOW().
DelayElapses(j) ==
  /\ jobs[j].status = "queued" /\ ~jobs[j].available
  /\ jobs' = [jobs EXCEPT ![j] = [jobs[j] EXCEPT !.available = TRUE]]
  /\ UNCHANGED <<nextId, claiming, conflicting, answers, tickets, open, lost,
                 completions, environment>>

\* A worker dies: its transaction is rolled back, its tickets are never reported.
WorkerCrash(w) ==
  /\ crashes < MaxCrashes
  /\ crashes' = crashes + 1
  /\ claiming' = [claiming EXCEPT ![w] = NoJob]
  /\ open' = {t \in open : t.worker # w}
  /\ lost' = lost \cup {t \in open : t.worker = w}
  /\ UNCHANGED <<table, conflicting, answers, tickets, completions, strays>>

-----------------------------------------------------------------------------
(* retention_sweep and delete_tenant, whatever the status of the rows *)

Remove(S) ==
  /\ S # {}
  /\ \A j \in S : ~Locked(j)
  /\ jobs' = [j \in JobIds |-> IF j \in S THEN NoRow ELSE jobs[j]]
  /\ UNCHANGED <<nextId, claiming, conflicting, answers, tickets, open, lost,
                 completions, environment>>

\* DELETE ... WHERE created_at < cutoff
RetentionSweep(cutoff) == Remove({j \in JobIds : Exists(j) /\ j < cutoff})
DeleteTenant == Remove({j \in JobIds : Exists(j)})

-----------------------------------------------------------------------------
Next ==
  \/ \E c \in Clients : \/ \E k \in Keys, asked \in AskedAttempts : EnqueueInsert(c, k, asked)
                        \/ EnqueueSelect(c)
  \/ \E w \in Workers : ClaimSelect(w) \/ ClaimUpdate(w) \/ WorkerCrash(w)
  \/ \E t \in open : Report(t)
  \/ \E j \in JobIds : Stray(j) \/ DelayElapses(j) \/ RetentionSweep(j)
  \/ DeleteTenant

Spec == Init /\ [][Next]_vars

(* Workers poll until they get a job and report what they claimed; a transaction ends; *)
(* time passes.  Nobody is obliged to enqueue, to repeat a report or to delete.        *)
Fairness ==
  /\ \A w \in Workers : WF_vars(ClaimSelect(w)) /\ WF_vars(ClaimUpdate(w))
  /\ WF_vars(\E t \in open : Report(t))
  /\ \A j \in JobIds : WF_vars(DelayElapses(j))

FairSpec == Spec /\ Fairness

-----------------------------------------------------------------------------
(* Properties *)

TypeOK ==
  /\ jobs \in [JobIds -> Row]
  /\ \A j \in JobIds : Exists(j) => jobs[j].maxAttempts >= 1 /\ jobs[j].key \in Keys
  /\ nextId \in 1..(MaxJobs + 1)
  /\ claiming \in [Workers -> JobIds \cup {NoJob}]
  /\ conflicting \in [Clients -> Keys \cup {NoKey}]
  /\ answers \subseteq [key : Keys, job : JobIds]
  /\ tickets \subseteq Ticket /\ open \subseteq tickets /\ lost \subseteq tickets
  /\ completions \in [JobIds -> Nat]
  /\ strays \in Nat /\ crashes \in Nat

(* Whatever reports arrive, in whatever order and however often, a job that waits has an *)
(* attempt left, no job is ever attempted beyond max_attempts, and dead-letter means     *)
(* that the budget is spent (fail_job's comparison against claim_job's increment).       *)
AttemptBudget ==
  \A j \in JobIds :
    /\ jobs[j].attempts <= jobs[j].maxAttempts
    /\ jobs[j].status = "queued" => jobs[j].attempts < jobs[j].maxAttempts
    /\ jobs[j].status = "dead-letter" => jobs[j].attempts = jobs[j].maxAttempts

(* Two claims never hand out the same attempt of a job: the row lock makes a concurrent  *)
(* claim skip the row, and the counter tells a worker's attempt from a later one.        *)
OneHolderPerAttempt ==
  \A t, u \in tickets : t.job = u.job /\ t.attempt = u.attempt => t = u

(* The queue itself never strands a job: a running row's current attempt is in the hands *)
(* of somebody who has not reported yet, or of a worker that died.                       *)
RunningIsHeld ==
  \A j \in JobIds : jobs[j].status = "running" =>
    \E t \in open \cup lost : t.job = j /\ t.attempt = jobs[j].attempts

(* Two clients told different jobs for one idempotency key: the earlier row was deleted  *)
(* in between (enqueue_job's INSERT and its SELECT are separate statements).             *)
SameKeySameJob ==
  \A a, b \in answers : a.key = b.key /\ a.job < b.job => ~Exists(a.job)

(* A dead-lettered job is never resurrected by a late or repeated report: as long as its *)
(* row exists it stays dead-lettered.                                                    *)
DeadLetterIsFinal ==
  [][\A j \in JobIds : jobs[j].status = "dead-letter" =>
       jobs'[j].status \in {"dead-letter", "absent"}]_vars

(* The retries of JobQueue are the bounded retries of BoundedRetry, a run being a ticket.*)
RunsOf(j) == Cardinality({t \in tickets : t.job = j})
PhaseOf(j) ==
  IF j >= nextId THEN "new"
  ELSE CASE jobs[j].status = "absent" -> "gone"
         [] jobs[j].status = "dead-letter" -> "buried"
         [] OTHER -> "live"

Abstract == INSTANCE BoundedRetry WITH
  Jobs <- JobIds,
  Budgets <- {Granted(asked) : asked \in AskedAttempts},
  phase <- [j \in JobIds |-> PhaseOf(j)],
  budget <- [j \in JobIds |-> jobs[j].maxAttempts],
  runs <- [j \in JobIds |-> RunsOf(j)]

ImplementsBoundedRetry == Abstract!Spec

(* With workers that report and finitely many stray reports, every job ends up done,     *)
(* dead-lettered or deleted, retry delays and late failures of finished jobs included.   *)
EventuallyAllSettled ==
  <>[](\A j \in JobIds : jobs[j].status \in {"absent", "done", "dead-letter"})

(* docs/PRODUCTION_PLATFORM_V1.md: "duplicate jobs do not create duplicate effects".     *)
(* The effect of a job is its completion; a repeated report must not bring a second one. *)
CompletedOnce == \A j \in JobIds : completions[j] <= 1
=============================================================================
