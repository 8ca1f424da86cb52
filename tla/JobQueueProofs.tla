--------------------------- MODULE JobQueueProofs ---------------------------
(***************************************************************************)
(* What JobQueue guarantees for every number of workers, clients, keys,    *)
(* rows, stray reports and crashes.                                        *)
(***************************************************************************)
EXTENDS JobQueue, FiniteSetTheorems, TLAPS

-----------------------------------------------------------------------------
(* Types *)

(* A granted budget is never empty, whatever the client asked for (enqueue_job's max). *)
LEMMA GrantedPositive ==
  ASSUME NEW asked \in AskedAttempts
  PROVE  Granted(asked) \in Nat /\ Granted(asked) >= 1
BY QueueAssumption DEF Granted

LEMMA InitTypeOK == Init => TypeOK
BY QueueAssumption DEF Init, TypeOK, Row, NoRow, JobIds, NoJob, Statuses, Exists

LEMMA FailedRowTyped ==
  ASSUME NEW row \in Row, NEW delayed \in BOOLEAN
  PROVE  /\ FailedRow(row, delayed) \in Row
         /\ FailedRow(row, delayed).status =
              IF Exhausted(row) THEN "dead-letter" ELSE "queued"
         /\ FailedRow(row, delayed).attempts = row.attempts
         /\ FailedRow(row, delayed).maxAttempts = row.maxAttempts
         /\ FailedRow(row, delayed).key = row.key
BY DEF FailedRow, Row, Statuses

(* What the updates of claim_job, complete_job and a passed delay make of a row. *)
LEMMA ClaimedRowTyped ==
  ASSUME NEW row \in Row
  PROVE  /\ ClaimedRow(row) \in Row
         /\ ClaimedRow(row).status = "running"
         /\ ClaimedRow(row).attempts = row.attempts + 1
         /\ ClaimedRow(row).maxAttempts = row.maxAttempts
         /\ ClaimedRow(row).key = row.key
<1>1. row.attempts + 1 \in Nat
  BY DEF Row
<1>2. ASSUME NEW n \in Nat
      PROVE  LET r == [row EXCEPT !.status = "running", !.attempts = n]
             IN  /\ r \in Row /\ r.status = "running" /\ r.attempts = n
                 /\ r.maxAttempts = row.maxAttempts /\ r.key = row.key
  BY DEF Row, Statuses
<1>3. QED
  BY <1>1, <1>2 DEF ClaimedRow

LEMMA CompletedRowTyped ==
  ASSUME NEW row \in Row
  PROVE  /\ CompletedRow(row) \in Row
         /\ CompletedRow(row).status = "done"
         /\ CompletedRow(row).attempts = row.attempts
         /\ CompletedRow(row).maxAttempts = row.maxAttempts
         /\ CompletedRow(row).key = row.key
BY DEF CompletedRow, Row, Statuses

LEMMA AvailableRowTyped ==
  ASSUME NEW row \in Row
  PROVE  [row EXCEPT !.available = TRUE] \in Row
BY DEF Row

TableOK ==
  /\ jobs \in [JobIds -> Row]
  /\ \A j \in JobIds : Exists(j) => jobs[j].maxAttempts >= 1 /\ jobs[j].key \in Keys

(* Replacing one row by a well-typed one keeps the table well typed. *)
LEMMA RowUpdateTyped ==
  ASSUME TableOK, NEW j \in JobIds, NEW row \in Row,
         row.status # "absent" => row.maxAttempts >= 1 /\ row.key \in Keys,
         jobs' = [jobs EXCEPT ![j] = row]
  PROVE  TableOK'
BY DEF TableOK, Exists

(* The row a claim transaction holds is queued, and no two transactions hold the same  *)
(* row: every other statement on the row waits for the lock, and SKIP LOCKED passes by.*)
ClaimInv ==
  /\ \A w \in Workers : claiming[w] # NoJob => jobs[claiming[w]].status = "queued"
  /\ \A v, w \in Workers : claiming[v] = claiming[w] /\ claiming[w] # NoJob => v = w

LEMMA NextTypeOK == TypeOK /\ ClaimInv /\ [Next]_vars => TypeOK'
<1> SUFFICES ASSUME TypeOK, ClaimInv, [Next]_vars PROVE TypeOK'
  OBVIOUS
<1>0. TableOK
  BY DEF TypeOK, TableOK
<1>1. ASSUME NEW c \in Clients, NEW k \in Keys, NEW asked \in AskedAttempts,
             EnqueueInsert(c, k, asked)
      PROVE  TypeOK'
  <2>1. NewRow(k, asked) \in Row /\ NewRow(k, asked).maxAttempts >= 1
        /\ NewRow(k, asked).key \in Keys
    BY GrantedPositive DEF NewRow, Row, Statuses
  <2>2. TableOK'
    BY <1>0, <1>1, <2>1, RowUpdateTyped DEF EnqueueInsert, table, TableOK, Exists
  <2>3. nextId' \in 1..(MaxJobs + 1)
    BY <1>1, QueueAssumption DEF EnqueueInsert, table, TypeOK, JobIds
  <2>4. QED
    BY <1>1, <2>2, <2>3 DEF EnqueueInsert, table, TypeOK, TableOK, environment
<1>2. ASSUME NEW c \in Clients, EnqueueSelect(c) PROVE TypeOK'
  <2>1. conflicting[c] \in Keys
    BY <1>2 DEF EnqueueSelect, TypeOK
  <2>2. QED
    BY <1>2, <2>1 DEF EnqueueSelect, TypeOK, Exists, table, environment
<1>3. ASSUME NEW w \in Workers, ClaimSelect(w) PROVE TypeOK'
  BY <1>3 DEF ClaimSelect, TypeOK, Exists, table, environment
<1>4. ASSUME NEW w \in Workers, ClaimUpdate(w) PROVE TypeOK'
  <2> DEFINE t == [job |-> claiming[w], attempt |-> jobs[claiming[w]].attempts + 1, worker |-> w]
  <2>1. claiming[w] \in JobIds /\ jobs[claiming[w]] \in Row
    BY <1>4 DEF ClaimUpdate, TypeOK
  <2>2. t \in Ticket
    BY <2>1 DEF Row, Ticket
  <2>3. jobs[claiming[w]].maxAttempts >= 1 /\ jobs[claiming[w]].key \in Keys
    BY <1>4, <2>1 DEF ClaimUpdate, ClaimInv, TypeOK, Exists
  <2>4. TableOK'
    BY <1>0, <1>4, <2>1, <2>3, ClaimedRowTyped, RowUpdateTyped DEF ClaimUpdate
  <2>5. QED
    BY <1>4, <2>2, <2>4 DEF ClaimUpdate, TypeOK, TableOK, environment
<1>5. ASSUME NEW j \in JobIds, CompleteJob(j)
      PROVE  TableOK' /\ completions' \in [JobIds -> Nat]
  <2>1. CASE Completable(j)
    <3>1. jobs[j] \in Row /\ completions \in [JobIds -> Nat]
          /\ jobs[j].maxAttempts >= 1 /\ jobs[j].key \in Keys
      BY <2>1 DEF TypeOK, Completable, Exists
    <3>2. TableOK'
      BY <1>0, <1>5, <2>1, <3>1, CompletedRowTyped, RowUpdateTyped DEF CompleteJob
    <3>3. QED
      BY <1>5, <2>1, <3>1, <3>2 DEF CompleteJob
  <2>2. CASE ~Completable(j)
    BY <1>0, <1>5, <2>2 DEF CompleteJob, TypeOK, TableOK, Exists
  <2>3. QED BY <2>1, <2>2
<1>6. ASSUME NEW j \in JobIds, NEW delayed \in BOOLEAN, FailJob(j, delayed)
      PROVE  TableOK' /\ completions' \in [JobIds -> Nat]
  <2>1. CASE Exists(j)
    BY <1>0, <1>6, <2>1, FailedRowTyped, RowUpdateTyped DEF FailJob, TypeOK, TableOK, Exists
  <2>2. CASE ~Exists(j)
    BY <1>0, <1>6, <2>2 DEF FailJob, TypeOK, TableOK, Exists
  <2>3. QED BY <2>1, <2>2
<1>7. ASSUME NEW t \in open, Report(t) PROVE TypeOK'
  <2>1. t.job \in JobIds
    BY DEF TypeOK, Ticket
  <2>2. TableOK' /\ completions' \in [JobIds -> Nat]
    BY <1>5, <1>6, <1>7, <2>1 DEF Report
  <2>3. QED
    BY <1>7, <2>2 DEF Report, TypeOK, TableOK, environment
<1>8. ASSUME NEW j \in JobIds, Stray(j) PROVE TypeOK'
  <2>1. TableOK' /\ completions' \in [JobIds -> Nat]
    BY <1>5, <1>6, <1>8 DEF Stray
  <2>2. QED
    BY <1>8, <2>1 DEF Stray, TypeOK, TableOK, environment
<1>9. ASSUME NEW j \in JobIds, DelayElapses(j) PROVE TypeOK'
  <2>1. [jobs[j] EXCEPT !.available = TRUE] \in Row
        /\ jobs[j].maxAttempts >= 1 /\ jobs[j].key \in Keys
    BY <1>9, AvailableRowTyped DEF DelayElapses, TypeOK, Exists
  <2>2. TableOK'
    BY <1>0, <1>9, <2>1, RowUpdateTyped DEF DelayElapses, Row
  <2>3. QED
    BY <1>9, <2>2 DEF DelayElapses, TypeOK, TableOK, environment
<1>10. ASSUME NEW w \in Workers, WorkerCrash(w) PROVE TypeOK'
  BY <1>10 DEF WorkerCrash, TypeOK, table, Exists
<1>11. ASSUME NEW S \in SUBSET JobIds, Remove(S) PROVE TypeOK'
  <2>1. NoRow \in Row /\ NoRow.status = "absent"
    BY DEF NoRow, Row, Statuses
  <2>2. TableOK'
    BY <1>0, <1>11, <2>1 DEF Remove, TableOK, Exists
  <2>3. QED
    BY <1>11, <2>2 DEF Remove, TypeOK, TableOK, environment
<1>12. CASE UNCHANGED vars
  BY <1>12 DEF vars, TypeOK, Exists
<1>13. QED
  <2>1. \A j \in JobIds : RetentionSweep(j) => TypeOK'
    BY <1>11 DEF RetentionSweep
  <2>2. DeleteTenant => TypeOK'
    BY <1>11 DEF DeleteTenant
  <2>3. QED
    BY <1>1, <1>2, <1>3, <1>4, <1>7, <1>8, <1>9, <1>10, <1>12, <2>1, <2>2 DEF Next

-----------------------------------------------------------------------------
(* What one step may do to one row *)

Inserted(j) ==
  /\ j = nextId /\ nextId' = nextId + 1
  /\ jobs'[j].status = "queued" /\ jobs'[j].attempts = 0 /\ jobs'[j].maxAttempts >= 1
SameBudget(j) == jobs'[j].maxAttempts = jobs[j].maxAttempts /\ jobs'[j].key = jobs[j].key
Claimed(j) ==
  /\ jobs[j].status = "queued" /\ jobs'[j].status = "running"
  /\ jobs'[j].attempts = jobs[j].attempts + 1 /\ SameBudget(j)
Completed(j) ==
  /\ jobs[j].status = "running" /\ jobs'[j].status = "done"
  /\ jobs'[j].attempts = jobs[j].attempts /\ SameBudget(j)
Failed(j) ==
  /\ Exists(j)
  /\ jobs'[j].status = IF Exhausted(jobs[j]) THEN "dead-letter" ELSE "queued"
  /\ jobs'[j].attempts = jobs[j].attempts /\ SameBudget(j)
Delayed(j) ==
  /\ jobs[j].status = "queued" /\ jobs'[j].status = "queued"
  /\ jobs'[j].attempts = jobs[j].attempts /\ SameBudget(j)
Deleted(j) == jobs'[j] = NoRow

RowStep(j) ==
  \/ jobs'[j] = jobs[j]
  \/ Inserted(j) \/ Claimed(j) \/ Completed(j) \/ Failed(j) \/ Delayed(j) \/ Deleted(j)

LEMMA RowSteps ==
  ASSUME TypeOK, ClaimInv, [Next]_vars, NEW j \in JobIds
  PROVE  RowStep(j)
<1> USE DEF RowStep
<1>1. ASSUME NEW c \in Clients, NEW k \in Keys, NEW asked \in AskedAttempts,
             EnqueueInsert(c, k, asked)
      PROVE  RowStep(j)
  BY <1>1, GrantedPositive DEF EnqueueInsert, TypeOK, NewRow, Inserted, table
<1>2. ASSUME NEW c \in Clients, EnqueueSelect(c) PROVE RowStep(j)
  BY <1>2 DEF EnqueueSelect, table
<1>3. ASSUME NEW w \in Workers, ClaimSelect(w) PROVE RowStep(j)
  BY <1>3 DEF ClaimSelect, table
<1>4. ASSUME NEW w \in Workers, ClaimUpdate(w) PROVE RowStep(j)
  <2>1. claiming[w] \in JobIds /\ jobs[claiming[w]] \in Row
        /\ jobs[claiming[w]].status = "queued"
    BY <1>4 DEF ClaimUpdate, TypeOK, ClaimInv
  <2>2. QED BY <1>4, <2>1, ClaimedRowTyped DEF ClaimUpdate, TypeOK, Claimed, SameBudget
<1>5. ASSUME NEW i \in JobIds, CompleteJob(i) PROVE RowStep(j)
  <2>1. jobs[i] \in Row /\ jobs \in [JobIds -> Row]
    BY DEF TypeOK
  <2>2. CASE j = i /\ Completable(j)
    <3>1. jobs'[j] = CompletedRow(jobs[j])
      BY <1>5, <2>1, <2>2 DEF CompleteJob
    <3>2. Completed(j)
      BY <2>1, <2>2, <3>1, CompletedRowTyped DEF Completable, Completed, SameBudget
    <3>3. QED BY <3>2
  <2>3. CASE ~(j = i /\ Completable(j))
    BY <1>5, <2>1, <2>3 DEF CompleteJob
  <2>4. QED BY <2>2, <2>3
<1>6. ASSUME NEW i \in JobIds, NEW delayed \in BOOLEAN, FailJob(i, delayed)
      PROVE  RowStep(j)
  <2>1. jobs[i] \in Row /\ jobs \in [JobIds -> Row]
    BY DEF TypeOK
  <2>2. CASE j = i /\ Exists(j)
    <3>1. jobs'[j] = FailedRow(jobs[j], delayed)
      BY <1>6, <2>1, <2>2 DEF FailJob
    <3>2. Failed(j)
      BY <2>1, <2>2, <3>1, FailedRowTyped DEF Failed, SameBudget
    <3>3. QED BY <3>2
  <2>3. CASE ~(j = i /\ Exists(j))
    BY <1>6, <2>1, <2>3 DEF FailJob
  <2>4. QED BY <2>2, <2>3
<1>7. ASSUME NEW t \in open, Report(t) PROVE RowStep(j)
  <2>1. t.job \in JobIds
    BY DEF TypeOK, Ticket
  <2>2. QED BY <1>5, <1>6, <1>7, <2>1 DEF Report
<1>8. ASSUME NEW i \in JobIds, Stray(i) PROVE RowStep(j)
  BY <1>5, <1>6, <1>8 DEF Stray
<1>9. ASSUME NEW i \in JobIds, DelayElapses(i) PROVE RowStep(j)
  BY <1>9 DEF DelayElapses, TypeOK, Row, Delayed, SameBudget
<1>10. ASSUME NEW w \in Workers, WorkerCrash(w) PROVE RowStep(j)
  BY <1>10 DEF WorkerCrash, table
<1>11. ASSUME NEW S \in SUBSET JobIds, Remove(S) PROVE RowStep(j)
  BY <1>11 DEF Remove, Deleted
<1>12. CASE UNCHANGED vars
  BY <1>12 DEF vars
<1>13. QED
  <2>1. \A i \in JobIds : RetentionSweep(i) => RowStep(j)
    BY <1>11 DEF RetentionSweep
  <2>2. DeleteTenant => RowStep(j)
    BY <1>11 DEF DeleteTenant
  <2>3. QED
    BY <1>1, <1>2, <1>3, <1>4, <1>7, <1>8, <1>9, <1>10, <1>12, <2>1, <2>2 DEF Next

-----------------------------------------------------------------------------
(* The row locks *)

LEMMA InitClaimInv == Init => ClaimInv
BY DEF Init, ClaimInv

LEMMA NextClaimInv == TypeOK /\ ClaimInv /\ [Next]_vars => ClaimInv'
<1> SUFFICES ASSUME TypeOK, ClaimInv, [Next]_vars PROVE ClaimInv'
  OBVIOUS
<1>0. jobs \in [JobIds -> Row] /\ claiming \in [Workers -> JobIds \cup {NoJob}]
  BY DEF TypeOK
<1>1. ASSUME NEW c \in Clients, NEW k \in Keys, NEW asked \in AskedAttempts,
             EnqueueInsert(c, k, asked)
      PROVE  ClaimInv'
  BY <1>0, <1>1 DEF EnqueueInsert, NewRow, ClaimInv, table
<1>2. ASSUME NEW c \in Clients, EnqueueSelect(c) PROVE ClaimInv'
  BY <1>2 DEF EnqueueSelect, ClaimInv, table
<1>3. ASSUME NEW w \in Workers, ClaimSelect(w) PROVE ClaimInv'
  BY <1>0, <1>3 DEF ClaimSelect, Eligible, Locked, ClaimInv, table
<1>4. ASSUME NEW w \in Workers, ClaimUpdate(w) PROVE ClaimInv'
  BY <1>0, <1>4 DEF ClaimUpdate, ClaimInv
<1>5. ASSUME NEW j \in JobIds, UNCHANGED claiming,
             CompleteJob(j) \/ \E delayed \in BOOLEAN : FailJob(j, delayed)
      PROVE  ClaimInv'
  <2>1. \A w \in Workers : claiming[w] # j
    BY <1>5 DEF CompleteJob, FailJob, Locked
  <2>2. \A i \in JobIds : i # j => jobs'[i] = jobs[i]
    BY <1>0, <1>5 DEF CompleteJob, FailJob
  <2>3. QED
    BY <1>0, <1>5, <2>1, <2>2 DEF ClaimInv
<1>6. ASSUME NEW t \in open, Report(t) PROVE ClaimInv'
  <2>1. t.job \in JobIds
    BY DEF TypeOK, Ticket
  <2>2. QED BY <1>5, <1>6, <2>1 DEF Report
<1>7. ASSUME NEW j \in JobIds, Stray(j) PROVE ClaimInv'
  BY <1>5, <1>7 DEF Stray
<1>8. ASSUME NEW j \in JobIds, DelayElapses(j) PROVE ClaimInv'
  <2>1. [jobs[j] EXCEPT !.available = TRUE].status = "queued"
    BY <1>0, <1>8 DEF DelayElapses, Row
  <2>2. QED
    BY <1>0, <1>8, <2>1 DEF DelayElapses, ClaimInv
<1>9. ASSUME NEW w \in Workers, WorkerCrash(w) PROVE ClaimInv'
  BY <1>0, <1>9 DEF WorkerCrash, ClaimInv, table
<1>10. ASSUME NEW S \in SUBSET JobIds, Remove(S) PROVE ClaimInv'
  BY <1>0, <1>10 DEF Remove, Locked, ClaimInv
<1>11. CASE UNCHANGED vars
  BY <1>11 DEF vars, ClaimInv
<1>12. QED
  <2>1. \A j \in JobIds : RetentionSweep(j) => ClaimInv'
    BY <1>10 DEF RetentionSweep
  <2>2. DeleteTenant => ClaimInv'
    BY <1>10 DEF DeleteTenant
  <2>3. QED
    BY <1>1, <1>2, <1>3, <1>4, <1>6, <1>7, <1>8, <1>9, <1>11, <2>1, <2>2 DEF Next

(* Every reachable state of the queue is well typed, no live job has an empty budget,  *)
(* although a client may ask for none, and a claim between its SELECT and its UPDATE   *)
(* holds the lock of a queued row that no other claim holds (ClaimInv).                *)
THEOREM TypeCorrect == Spec => [](TypeOK /\ ClaimInv)
<1>1. QED BY InitTypeOK, NextTypeOK, InitClaimInv, NextClaimInv, PTL DEF Spec

-----------------------------------------------------------------------------
(* The attempt budget *)

LEMMA InitAttemptBudget == Init => AttemptBudget
BY DEF Init, AttemptBudget, NoRow

LEMMA NextAttemptBudget ==
  TypeOK /\ ClaimInv /\ AttemptBudget /\ [Next]_vars => AttemptBudget'
<1> SUFFICES ASSUME TypeOK, ClaimInv, AttemptBudget, [Next]_vars, NEW j \in JobIds
             PROVE  /\ jobs'[j].attempts <= jobs'[j].maxAttempts
                    /\ jobs'[j].status = "queued" => jobs'[j].attempts < jobs'[j].maxAttempts
                    /\ jobs'[j].status = "dead-letter" =>
                         jobs'[j].attempts = jobs'[j].maxAttempts
  BY DEF AttemptBudget
<1>1. jobs[j].attempts \in Nat /\ jobs[j].maxAttempts \in Nat /\ TypeOK'
  BY NextTypeOK DEF TypeOK, Row
<1>2. jobs'[j].attempts \in Nat /\ jobs'[j].maxAttempts \in Nat
  BY <1>1 DEF TypeOK, Row
<1>3. RowStep(j)
  BY RowSteps
<1>4. QED
  BY <1>1, <1>2, <1>3
     DEF AttemptBudget, RowStep, Inserted, Claimed, Completed, Failed, Delayed, Deleted,
         SameBudget, Exhausted, NoRow

(* fail_job's comparison and claim_job's increment keep the budget of every job, for   *)
(* any number of workers, crashes and stray reports.                                   *)
THEOREM BudgetKept == Spec => []AttemptBudget
<1>1. QED BY InitAttemptBudget, NextAttemptBudget, TypeCorrect, PTL DEF Spec

-----------------------------------------------------------------------------
(* Row numbers are used once *)

FreshRows == \A j \in JobIds : j >= nextId => ~Exists(j)

LEMMA InitFreshRows == Init => FreshRows
BY DEF Init, FreshRows, Exists, NoRow

LEMMA NextIdGrows ==
  ASSUME TypeOK, [Next]_vars
  PROVE  nextId' = nextId \/ nextId' = nextId + 1
BY DEF Next, EnqueueInsert, EnqueueSelect, ClaimSelect, ClaimUpdate, Report, Stray,
       DelayElapses, WorkerCrash, RetentionSweep, DeleteTenant, Remove, vars, table

LEMMA NextFreshRows == TypeOK /\ ClaimInv /\ FreshRows /\ [Next]_vars => FreshRows'
<1> SUFFICES ASSUME TypeOK, ClaimInv, FreshRows, [Next]_vars,
                    NEW j \in JobIds, j >= nextId'
             PROVE  jobs'[j].status = "absent"
  BY DEF FreshRows, Exists
<1>1. j \in Nat /\ nextId \in Nat /\ j >= nextId
  BY NextIdGrows, QueueAssumption DEF TypeOK, JobIds
<1>2. RowStep(j) /\ jobs[j].status = "absent"
  BY <1>1, RowSteps DEF FreshRows, Exists
<1>3. QED
  BY <1>1, <1>2
     DEF RowStep, Inserted, Claimed, Completed, Failed, Delayed, Deleted, NoRow, Exists

(* A row's number (the code's uuid4) was never a row's before, so a deleted job stays   *)
(* deleted and a late report of it finds nothing.                                       *)
THEOREM NumbersUsedOnce == Spec => []FreshRows
<1>1. QED BY InitFreshRows, NextFreshRows, TypeCorrect, PTL DEF Spec

(* No late or repeated report brings a dead-lettered job back. *)
THEOREM DeadLetterFinal == Spec => DeadLetterIsFinal
<1>1. TypeOK /\ ClaimInv /\ AttemptBudget /\ FreshRows /\ [Next]_vars =>
        [\A j \in JobIds : jobs[j].status = "dead-letter" =>
           jobs'[j].status \in {"dead-letter", "absent"}]_vars
  <2> SUFFICES ASSUME TypeOK, ClaimInv, AttemptBudget, FreshRows, [Next]_vars,
                      NEW j \in JobIds, jobs[j].status = "dead-letter"
               PROVE  jobs'[j].status \in {"dead-letter", "absent"}
    OBVIOUS
  <2>1. RowStep(j)
    BY RowSteps
  <2>2. jobs[j].attempts = jobs[j].maxAttempts /\ jobs[j].attempts \in Nat
    BY DEF AttemptBudget, TypeOK, Row
  <2>3. ~Inserted(j)
    BY QueueAssumption DEF Inserted, FreshRows, Exists, TypeOK, JobIds
  <2>4. QED
    BY <2>1, <2>2, <2>3
       DEF RowStep, Claimed, Completed, Failed, Delayed, Deleted, Exhausted, NoRow
<1>2. QED BY <1>1, TypeCorrect, BudgetKept, NumbersUsedOnce, PTL DEF Spec, DeadLetterIsFinal
-----------------------------------------------------------------------------
(* Tickets *)

TicketInv ==
  \A t \in tickets : /\ t.job < nextId
                     /\ Exists(t.job) => t.attempt <= jobs[t.job].attempts

(* A row that exists after a step and was not just inserted existed before it, under *)
(* the same key and with no more attempts.                                           *)
LEMMA SurvivingRow ==
  ASSUME TypeOK, ClaimInv, [Next]_vars, NEW j \in JobIds, j < nextId, (Exists(j))'
  PROVE  /\ Exists(j) /\ jobs'[j].key = jobs[j].key
         /\ jobs[j].attempts <= jobs'[j].attempts
<1>1. RowStep(j)
  BY RowSteps
<1>2. ~Inserted(j)
  BY QueueAssumption DEF Inserted, TypeOK, JobIds
<1>3. jobs[j].attempts \in Nat
  BY DEF TypeOK, Row
<1>4. QED
  BY <1>1, <1>2, <1>3 DEF RowStep, Claimed, Completed, Failed, Delayed, Deleted,
                          SameBudget, NoRow, Exists

LEMMA OnlyClaimsGiveTickets ==
  ASSUME [Next]_vars
  PROVE  tickets' = tickets \/ \E w \in Workers : ClaimUpdate(w)
BY DEF Next, EnqueueInsert, EnqueueSelect, ClaimSelect, Report, Stray, DelayElapses,
       WorkerCrash, RetentionSweep, DeleteTenant, Remove, vars

LEMMA InitTicketInv == Init => TicketInv /\ OneHolderPerAttempt
BY DEF Init, TicketInv, OneHolderPerAttempt

LEMMA NextTicketInv ==
  /\ TypeOK /\ ClaimInv /\ FreshRows /\ TicketInv /\ OneHolderPerAttempt /\ [Next]_vars
  => TicketInv' /\ OneHolderPerAttempt'
<1> SUFFICES ASSUME TypeOK, ClaimInv, FreshRows, TicketInv, OneHolderPerAttempt, [Next]_vars
             PROVE  TicketInv' /\ OneHolderPerAttempt'
  OBVIOUS
<1>0. TypeOK' /\ nextId \in Nat
  BY NextTypeOK, QueueAssumption DEF TypeOK
<1>1. CASE tickets' = tickets
  <2> SUFFICES ASSUME NEW t \in tickets
               PROVE  t.job < nextId' /\ ((Exists(t.job))' => t.attempt <= jobs'[t.job].attempts)
    BY <1>1 DEF TicketInv, OneHolderPerAttempt, Exists
  <2>1. t.job \in JobIds /\ t.job \in Nat /\ t.attempt \in Nat /\ t.job < nextId
    BY QueueAssumption DEF TypeOK, Ticket, JobIds, TicketInv
  <2>2. jobs[t.job].attempts \in Nat /\ jobs'[t.job].attempts \in Nat
    BY <1>0, <2>1 DEF TypeOK, Row
  <2>3. QED
    BY <1>0, <2>1, <2>2, NextIdGrows, SurvivingRow DEF TicketInv
<1>2. ASSUME NEW w \in Workers, ClaimUpdate(w) PROVE TicketInv' /\ OneHolderPerAttempt'
  <2> DEFINE j == claiming[w]
             new == [job |-> j, attempt |-> jobs[j].attempts + 1, worker |-> w]
  <2>1. j \in JobIds /\ jobs[j] \in Row /\ jobs[j].attempts \in Nat /\ Exists(j)
    BY <1>2 DEF ClaimUpdate, TypeOK, ClaimInv, Exists, Row
  <2>2. j < nextId
    BY <1>0, <2>1, QueueAssumption DEF FreshRows, JobIds
  <2>3. /\ tickets' = tickets \cup {new} /\ nextId' = nextId
        /\ jobs' = [jobs EXCEPT ![j] = ClaimedRow(jobs[j])]
    BY <1>2 DEF ClaimUpdate
  <2>4. jobs'[j].attempts = jobs[j].attempts + 1
    BY <2>1, <2>3, ClaimedRowTyped DEF TypeOK
  <2>5. \A t \in tickets :
          /\ t.job \in JobIds /\ t.attempt \in Nat /\ t.job < nextId
          /\ t.job = j => t.attempt < new.attempt
    BY <2>1 DEF TypeOK, Ticket, TicketInv
  <2>6. \A t \in tickets :
          (Exists(t.job))' => t.attempt <= jobs'[t.job].attempts
    BY <2>1, <2>3, <2>4, <2>5 DEF TicketInv, TypeOK, Exists
  <2>7. TicketInv'
    BY <2>2, <2>3, <2>4, <2>5, <2>6, <2>1 DEF TicketInv
  <2>8. OneHolderPerAttempt'
    BY <2>1, <2>3, <2>5 DEF OneHolderPerAttempt
  <2>9. QED BY <2>7, <2>8
<1>3. QED BY <1>1, <1>2, OnlyClaimsGiveTickets

(* Two claims never hand out the same attempt of a job. *)
THEOREM AttemptsHandedOutOnce == Spec => []OneHolderPerAttempt
<1>1. Spec => [](TicketInv /\ OneHolderPerAttempt)
  BY InitTicketInv, NextTicketInv, TypeCorrect, NumbersUsedOnce, PTL DEF Spec
<1>2. QED BY <1>1, PTL

-----------------------------------------------------------------------------
(* Running jobs are in somebody's hands *)

(* Only claim_job's UPDATE makes a row running. *)
LEMMA OnlyClaimsRun ==
  ASSUME TypeOK, ClaimInv, [Next]_vars, NEW j \in JobIds,
         jobs[j].status # "running", jobs'[j].status = "running"
  PROVE  \E w \in Workers : ClaimUpdate(w) /\ claiming[w] = j
<1>0. jobs \in [JobIds -> Row]
  BY DEF TypeOK
<1>1. ASSUME NEW c \in Clients, NEW k \in Keys, NEW asked \in AskedAttempts,
             EnqueueInsert(c, k, asked)
      PROVE  FALSE
  BY <1>0, <1>1 DEF EnqueueInsert, NewRow, table
<1>2. ASSUME NEW w \in Workers, ClaimUpdate(w)
      PROVE  claiming[w] = j
  BY <1>0, <1>2 DEF ClaimUpdate
<1>3. ASSUME NEW i \in JobIds, CompleteJob(i) PROVE FALSE
  BY <1>0, <1>3, CompletedRowTyped DEF CompleteJob, Completable
<1>4. ASSUME NEW i \in JobIds, NEW delayed \in BOOLEAN, FailJob(i, delayed) PROVE FALSE
  BY <1>0, <1>4, FailedRowTyped DEF FailJob
<1>5. ASSUME NEW t \in open, Report(t) PROVE FALSE
  <2>1. t.job \in JobIds
    BY DEF TypeOK, Ticket
  <2>2. QED BY <1>3, <1>4, <1>5, <2>1 DEF Report
<1>6. ASSUME NEW i \in JobIds, Stray(i) PROVE FALSE
  BY <1>3, <1>4, <1>6 DEF Stray
<1>7. ASSUME NEW i \in JobIds, DelayElapses(i) PROVE FALSE
  BY <1>0, <1>7 DEF DelayElapses, Row
<1>8. ASSUME NEW S \in SUBSET JobIds, Remove(S) PROVE FALSE
  BY <1>0, <1>8 DEF Remove, NoRow
<1>9. CASE \/ \E c \in Clients : EnqueueSelect(c)
           \/ \E w \in Workers : ClaimSelect(w) \/ WorkerCrash(w)
           \/ UNCHANGED vars
  BY <1>9 DEF EnqueueSelect, ClaimSelect, WorkerCrash, vars, table
<1>10. QED
  <2>1. ~DeleteTenant /\ \A i \in JobIds : ~RetentionSweep(i)
    BY <1>8 DEF RetentionSweep, DeleteTenant
  <2>2. QED
    BY <1>1, <1>2, <1>5, <1>6, <1>7, <1>9, <2>1 DEF Next

LEMMA InitHeld == Init => RunningIsHeld
BY DEF Init, RunningIsHeld, NoRow

LEMMA NextHeld == TypeOK /\ ClaimInv /\ RunningIsHeld /\ [Next]_vars => RunningIsHeld'
<1> SUFFICES ASSUME TypeOK, ClaimInv, RunningIsHeld, [Next]_vars,
                    NEW j \in JobIds, jobs'[j].status = "running"
             PROVE  \E t \in open' \cup lost' : t.job = j /\ t.attempt = jobs'[j].attempts
  BY DEF RunningIsHeld
<1>0. jobs \in [JobIds -> Row]
  BY DEF TypeOK
<1>1. ASSUME NEW w \in Workers, ClaimUpdate(w), claiming[w] = j
      PROVE  \E t \in open' \cup lost' : t.job = j /\ t.attempt = jobs'[j].attempts
  <2> DEFINE new == [job |-> j, attempt |-> jobs[j].attempts + 1, worker |-> w]
  <2>1. new \in open' /\ jobs' = [jobs EXCEPT ![j] = ClaimedRow(jobs[j])]
    BY <1>1 DEF ClaimUpdate
  <2>2. jobs'[j].attempts = jobs[j].attempts + 1
    BY <1>0, <2>1, ClaimedRowTyped
  <2>3. new.job = j /\ new.attempt = jobs'[j].attempts
    BY <2>2
  <2>4. QED BY <2>1, <2>3
<1>2. ASSUME NEW u \in open, Report(u)
      PROVE  \E t \in open' \cup lost' : t.job = j /\ t.attempt = jobs'[j].attempts
  <2>1. u.job \in JobIds
    BY DEF TypeOK, Ticket
  <2>2. j # u.job /\ jobs'[j] = jobs[j]
    <3>1. CASE CompleteJob(u.job)
      BY <1>0, <2>1, <3>1, CompletedRowTyped DEF CompleteJob, Completable
    <3>2. ASSUME NEW delayed \in BOOLEAN, FailJob(u.job, delayed)
          PROVE  j # u.job /\ jobs'[j] = jobs[j]
      BY <1>0, <2>1, <3>2, FailedRowTyped DEF FailJob, Exists
    <3>3. QED BY <1>2, <3>1, <3>2 DEF Report
  <2>3. QED
    BY <1>2, <2>2 DEF Report, RunningIsHeld
<1>3. ASSUME open \cup lost \subseteq open' \cup lost', jobs[j].status = "running"
      PROVE  \E t \in open' \cup lost' : t.job = j /\ t.attempt = jobs'[j].attempts
  <2>1. RowStep(j)
    BY RowSteps
  <2>2. jobs'[j].attempts = jobs[j].attempts
    BY <1>3, <2>1 DEF RowStep, Inserted, Claimed, Completed, Failed, Delayed, Deleted, NoRow
  <2>3. QED BY <1>3, <2>2 DEF RunningIsHeld
<1>4. CASE ~\E u \in open : Report(u)
  <2>1. open \cup lost \subseteq open' \cup lost'
    BY <1>4 DEF Next, EnqueueInsert, EnqueueSelect, ClaimSelect, ClaimUpdate, Stray,
            DelayElapses, WorkerCrash, RetentionSweep, DeleteTenant, Remove, vars
  <2>2. CASE jobs[j].status # "running"
    <3>1. Claimed(j)
      BY <2>2, RowSteps
         DEF RowStep, Inserted, Completed, Failed, Delayed, Deleted, NoRow
    <3>2. \E w \in Workers : ClaimUpdate(w) /\ claiming[w] = j
      BY <1>4, <2>2, <3>1, OnlyClaimsRun
    <3>3. QED BY <1>1, <3>2
  <2>3. QED BY <1>3, <2>1, <2>2
<1>5. QED BY <1>2, <1>4

(* The queue never strands a running job: its attempt is held, or its holder died. *)
THEOREM RunningJobsAreHeld == Spec => []RunningIsHeld
<1>1. QED BY InitHeld, NextHeld, TypeCorrect, PTL DEF Spec

-----------------------------------------------------------------------------
(* Idempotency keys *)

(* One live row per key, and every live row's number was answered for its key. *)
KeyInv ==
  /\ \A i, j \in JobIds : Exists(i) /\ Exists(j) /\ jobs[i].key = jobs[j].key => i = j
  /\ \A j \in JobIds : Exists(j) => [key |-> jobs[j].key, job |-> j] \in answers
  /\ \A a \in answers : a.job < nextId /\ (Exists(a.job) => jobs[a.job].key = a.key)

LEMMA InitKeyInv == Init => KeyInv /\ SameKeySameJob
BY DEF Init, KeyInv, SameKeySameJob, Exists, NoRow

LEMMA NextKeyInv ==
  TypeOK /\ ClaimInv /\ FreshRows /\ KeyInv /\ SameKeySameJob /\ [Next]_vars
  => KeyInv' /\ SameKeySameJob'
<1> SUFFICES ASSUME TypeOK, ClaimInv, FreshRows, KeyInv, SameKeySameJob, [Next]_vars
             PROVE  KeyInv' /\ SameKeySameJob'
  OBVIOUS
<1>0. /\ jobs \in [JobIds -> Row] /\ nextId \in Nat /\ JobIds \subseteq Nat
      /\ \A a \in answers : a.job \in JobIds /\ a.key \in Keys
      /\ \A j \in JobIds : Exists(j) => j < nextId
  BY QueueAssumption DEF TypeOK, JobIds, FreshRows
<1>1. ASSUME NEW c \in Clients, NEW k \in Keys, NEW asked \in AskedAttempts,
             EnqueueInsert(c, k, asked), ~KeyTaken(k)
      PROVE  KeyInv' /\ SameKeySameJob'
  <2> DEFINE new == [key |-> k, job |-> nextId]
  <2>1. /\ nextId \in JobIds /\ nextId' = nextId + 1
        /\ answers' = answers \cup {new}
        /\ jobs' = [jobs EXCEPT ![nextId] = NewRow(k, asked)]
    BY <1>1 DEF EnqueueInsert
  <2>2. jobs'[nextId].key = k /\ jobs'[nextId].status = "queued" /\ ~Exists(nextId)
    BY <1>0, <2>1 DEF NewRow, Exists
  <2>3. \A j \in JobIds : j # nextId => jobs'[j] = jobs[j]
    BY <1>0, <2>1
  <2>4. \A j \in JobIds : Exists(j) => jobs[j].key # k
    BY <1>1 DEF KeyTaken
  <2>5. KeyInv'
    <3>1. \A i, j \in JobIds :
            (Exists(i))' /\ (Exists(j))' /\ jobs'[i].key = jobs'[j].key => i = j
      BY <1>0, <2>2, <2>3, <2>4 DEF KeyInv, Exists
    <3>2. \A j \in JobIds : (Exists(j))' => [key |-> jobs'[j].key, job |-> j] \in answers'
      BY <2>1, <2>2, <2>3 DEF KeyInv, Exists
    <3>3. \A a \in answers' :
            a.job < nextId' /\ ((Exists(a.job))' => jobs'[a.job].key = a.key)
      <4>1. \A a \in answers :
              a.job < nextId' /\ ((Exists(a.job))' => jobs'[a.job].key = a.key)
        <5> SUFFICES ASSUME NEW a \in answers
                     PROVE  a.job < nextId' /\ ((Exists(a.job))' => jobs'[a.job].key = a.key)
          OBVIOUS
        <5>1. a.job < nextId /\ a.job \in Nat /\ a.job \in JobIds
          BY <1>0 DEF KeyInv
        <5>2. jobs'[a.job] = jobs[a.job] /\ a.job < nextId'
          BY <1>0, <2>1, <2>3, <5>1
        <5>3. QED BY <5>2 DEF KeyInv, Exists
      <4>2. new.job < nextId' /\ jobs'[new.job].key = new.key
        BY <1>0, <2>1, <2>2
      <4>3. QED BY <2>1, <4>1, <4>2
    <3>4. QED BY <3>1, <3>2, <3>3 DEF KeyInv
  <2>6. SameKeySameJob'
    <3> SUFFICES ASSUME NEW a \in answers', NEW b \in answers', a.key = b.key, a.job < b.job
                 PROVE  ~(Exists(a.job))'
      BY DEF SameKeySameJob
    <3>1. a \in answers /\ a.job # nextId
      <4>1. new.job = nextId /\ \A x \in answers' : x \in answers \/ x = new
        BY <2>1
      <4>2. \A x \in answers : x.job < nextId /\ x.job \in Nat
        BY <1>0 DEF KeyInv
      <4>3. QED BY <1>0, <4>1, <4>2
    <3>2. CASE b \in answers
      BY <1>0, <2>3, <3>1, <3>2 DEF SameKeySameJob, Exists
    <3>3. CASE b = new
      BY <1>0, <2>3, <2>4, <3>1, <3>3 DEF KeyInv, Exists
    <3>4. QED BY <2>1, <3>2, <3>3
  <2>7. QED BY <2>5, <2>6
<1>2. ASSUME answers' = answers, nextId' = nextId
      PROVE  KeyInv' /\ SameKeySameJob'
  <2>1. \A j \in JobIds : (Exists(j))' => Exists(j) /\ jobs'[j].key = jobs[j].key
    <3> SUFFICES ASSUME NEW j \in JobIds, (Exists(j))'
                 PROVE  Exists(j) /\ jobs'[j].key = jobs[j].key
      OBVIOUS
    <3>1. RowStep(j) /\ ~Inserted(j)
      BY <1>0, <1>2, RowSteps DEF Inserted
    <3>2. QED
      BY <3>1 DEF RowStep, Claimed, Completed, Failed, Delayed, Deleted, SameBudget,
                  NoRow, Exists
  <2>2. KeyInv'
    BY <1>0, <1>2, <2>1 DEF KeyInv
  <2>3. SameKeySameJob'
    BY <1>0, <1>2, <2>1 DEF SameKeySameJob
  <2>4. QED BY <2>2, <2>3
<1>3. ASSUME NEW c \in Clients, EnqueueSelect(c)
      PROVE  answers' = answers /\ nextId' = nextId
  <2>1. \A j \in JobIds : Exists(j) => [key |-> jobs[j].key, job |-> j] \in answers
    BY DEF KeyInv
  <2>2. QED BY <1>3, <2>1 DEF EnqueueSelect, table
<1>4. CASE ~\E c \in Clients : \/ EnqueueSelect(c)
                               \/ \E k \in Keys, asked \in AskedAttempts :
                                    EnqueueInsert(c, k, asked)
  <2>1. answers' = answers /\ nextId' = nextId
    BY <1>4 DEF Next, ClaimSelect, ClaimUpdate, Report, Stray, DelayElapses,
                WorkerCrash, RetentionSweep, DeleteTenant, Remove, vars, table
  <2>2. QED BY <1>2, <2>1
<1>5. ASSUME NEW c \in Clients, NEW k \in Keys, NEW asked \in AskedAttempts,
             EnqueueInsert(c, k, asked), KeyTaken(k)
      PROVE  answers' = answers /\ nextId' = nextId
  BY <1>5 DEF EnqueueInsert, table
<1>6. QED
  BY <1>1, <1>2, <1>3, <1>4, <1>5

(* Two jobs were answered for one key only if the earlier one's row is gone. *)
THEOREM KeysNameOneJob == Spec => []SameKeySameJob
<1>1. Spec => [](KeyInv /\ SameKeySameJob)
  BY InitKeyInv, NextKeyInv, TypeCorrect, NumbersUsedOnce, PTL DEF Spec
<1>2. QED BY <1>1, PTL

-----------------------------------------------------------------------------
(* Without stray reports a job is completed at most once *)

\* Who holds an open ticket of a job that exists is its only holder.
OpenInv ==
  \A t \in open : Exists(t.job) =>
    jobs[t.job].status = "running" /\ t.attempt = jobs[t.job].attempts

\* A completed job stays done, and no row that is yet to come was completed.
OnceInv ==
  \A j \in JobIds :
    /\ completions[j] \in {0, 1}
    /\ completions[j] = 1 => jobs[j].status \in {"done", "absent"} /\ j < nextId

HolderInv ==
  TypeOK /\ ClaimInv /\ FreshRows /\ TicketInv /\ OneHolderPerAttempt /\ OpenInv /\ OnceInv

LEMMA InitOnce == Init => OpenInv /\ OnceInv
BY DEF Init, OpenInv, OnceInv

\* A step that keeps the tickets and changes no row that anybody holds or completed.
LEMMA UnheldKeeps ==
  ASSUME HolderInv, nextId <= nextId', nextId' \in Nat,
         open' \subseteq open, completions' = completions,
         \A j \in JobIds : j < nextId /\ jobs[j].status \in {"running", "done", "absent"} =>
           jobs'[j] \in {jobs[j], NoRow}
  PROVE  OpenInv' /\ OnceInv'
<1>1. /\ jobs \in [JobIds -> Row] /\ nextId \in Nat /\ JobIds \subseteq Nat
      /\ \A t \in open : t.job \in JobIds /\ t.job < nextId
  BY QueueAssumption DEF HolderInv, TypeOK, Ticket, JobIds, TicketInv
<1>2. OpenInv'
  <2> SUFFICES ASSUME NEW t \in open, jobs'[t.job].status # "absent"
               PROVE  jobs'[t.job].status = "running" /\ t.attempt = jobs'[t.job].attempts
    BY DEF OpenInv, Exists
  <2>1. jobs[t.job].status \in {"running", "absent"}
    BY DEF HolderInv, OpenInv, Exists
  <2>2. jobs'[t.job] = jobs[t.job]
    BY <1>1, <2>1 DEF NoRow
  <2> QED
    BY <2>2 DEF HolderInv, OpenInv, Exists
<1>3. OnceInv'
  <2> SUFFICES ASSUME NEW j \in JobIds, completions[j] = 1
               PROVE  jobs'[j].status \in {"done", "absent"} /\ j < nextId'
    BY DEF HolderInv, OnceInv
  <2>1. jobs[j].status \in {"done", "absent"} /\ j < nextId
    BY DEF HolderInv, OnceInv
  <2>2. jobs'[j] \in {jobs[j], NoRow}
    BY <2>1
  <2> QED
    BY <1>1, <2>1, <2>2 DEF NoRow
<1> QED
  BY <1>2, <1>3

LEMMA ReportOnce ==
  ASSUME HolderInv, NEW t \in open, Report(t)
  PROVE  OpenInv' /\ OnceInv'
<1> DEFINE j == t.job
<1>1. /\ j \in JobIds /\ j < nextId /\ open' = open \ {t} /\ nextId' = nextId
      /\ jobs \in [JobIds -> Row] /\ completions \in [JobIds -> Nat]
  BY DEF Report, HolderInv, TypeOK, Ticket, TicketInv
<1>2. Exists(j) => jobs[j].status = "running" /\ completions[j] = 0
  BY <1>1 DEF HolderInv, OpenInv, OnceInv
<1>3. \A u \in open : u.job = j /\ Exists(j) => u = t
  BY DEF HolderInv, OpenInv, OneHolderPerAttempt, TypeOK
<1>4. \A i \in JobIds : i # j => jobs'[i] = jobs[i] /\ completions'[i] = completions[i]
  BY <1>1 DEF Report, CompleteJob, FailJob
<1>5. ~Exists(j) => jobs' = jobs /\ completions' = completions
  BY DEF Report, CompleteJob, FailJob, Completable, Exists
<1>6. /\ completions'[j] \in {0, 1}
      /\ completions'[j] = 1 => jobs'[j].status \in {"done", "absent"}
  <2>1. CASE ~Exists(j)
    BY <1>1, <1>5, <2>1 DEF HolderInv, OnceInv
  <2>2. CASE Exists(j) /\ CompleteJob(j)
    <3>1. jobs'[j] = CompletedRow(jobs[j]) /\ completions'[j] = 1
      BY <1>1, <1>2, <2>2 DEF CompleteJob, Completable
    <3> QED
      BY <1>1, <3>1, CompletedRowTyped
  <2>3. CASE Exists(j) /\ \E delayed \in BOOLEAN : FailJob(j, delayed)
    BY <1>2, <2>3 DEF FailJob
  <2> QED
    BY <2>1, <2>2, <2>3 DEF Report
<1>7. OpenInv'
  <2> SUFFICES ASSUME NEW u \in open, u # t, jobs'[u.job].status # "absent"
               PROVE  jobs'[u.job].status = "running" /\ u.attempt = jobs'[u.job].attempts
    BY <1>1 DEF OpenInv, Exists
  <2>1. u.job \in JobIds
    BY DEF HolderInv, TypeOK, Ticket
  <2>2. jobs'[u.job] = jobs[u.job]
    BY <1>3, <1>4, <1>5, <2>1
  <2> QED
    BY <2>2 DEF HolderInv, OpenInv, Exists
<1>8. OnceInv'
  <2> SUFFICES ASSUME NEW i \in JobIds
               PROVE  /\ completions'[i] \in {0, 1}
                      /\ completions'[i] = 1 =>
                           jobs'[i].status \in {"done", "absent"} /\ i < nextId
    BY <1>1 DEF OnceInv
  <2> QED
    BY <1>1, <1>4, <1>6 DEF HolderInv, OnceInv
<1> QED
  BY <1>7, <1>8

LEMMA ClaimOnce ==
  ASSUME HolderInv, NEW w \in Workers, ClaimUpdate(w)
  PROVE  OpenInv' /\ OnceInv'
<1> DEFINE j == claiming[w]
           new == [job |-> j, attempt |-> jobs[j].attempts + 1, worker |-> w]
<1>1. /\ j \in JobIds /\ jobs[j] \in Row /\ jobs[j].status = "queued"
      /\ jobs \in [JobIds -> Row]
  BY DEF ClaimUpdate, HolderInv, TypeOK, ClaimInv
<1>2. /\ jobs' = [jobs EXCEPT ![j] = ClaimedRow(jobs[j])] /\ open' = open \cup {new}
      /\ nextId' = nextId /\ completions' = completions
  BY DEF ClaimUpdate
<1>3. /\ jobs'[j].status = "running" /\ jobs'[j].attempts = jobs[j].attempts + 1
      /\ \A i \in JobIds : i # j => jobs'[i] = jobs[i]
  BY <1>1, <1>2, ClaimedRowTyped
<1>4. \A u \in open : u.job \in JobIds /\ u.job # j
  BY <1>1 DEF HolderInv, OpenInv, Exists, TypeOK, Ticket
<1>5. completions[j] # 1
  BY <1>1 DEF HolderInv, OnceInv
<1>6. OpenInv'
  BY <1>2, <1>3, <1>4 DEF HolderInv, OpenInv, Exists
<1>7. OnceInv'
  BY <1>2, <1>3, <1>5 DEF HolderInv, OnceInv
<1> QED
  BY <1>6, <1>7

LEMMA NextOnce ==
  ASSUME MaxStrays = 0, HolderInv, [Next]_vars
  PROVE  OpenInv' /\ OnceInv'
<1>0. /\ jobs \in [JobIds -> Row] /\ nextId \in Nat /\ strays \in Nat /\ JobIds \subseteq Nat
  BY QueueAssumption DEF HolderInv, TypeOK, JobIds
<1>1. ASSUME NEW c \in Clients, NEW k \in Keys, NEW asked \in AskedAttempts,
             EnqueueInsert(c, k, asked)
      PROVE  OpenInv' /\ OnceInv'
  <2>1. /\ nextId <= nextId' /\ nextId' \in Nat /\ open' = open /\ completions' = completions
        /\ \A j \in JobIds : j < nextId => jobs'[j] = jobs[j]
    BY <1>0, <1>1 DEF EnqueueInsert, table
  <2> QED
    BY <2>1, UnheldKeeps
<1>2. ASSUME NEW j \in JobIds, DelayElapses(j) PROVE OpenInv' /\ OnceInv'
  <2>1. /\ nextId <= nextId' /\ nextId' \in Nat /\ open' = open /\ completions' = completions
        /\ \A i \in JobIds : jobs[i].status # "queued" => jobs'[i] = jobs[i]
    BY <1>0, <1>2 DEF DelayElapses
  <2> QED
    BY <2>1, UnheldKeeps
<1>3. ASSUME NEW S \in SUBSET JobIds, Remove(S) PROVE OpenInv' /\ OnceInv'
  <2>1. /\ nextId <= nextId' /\ nextId' \in Nat /\ open' = open /\ completions' = completions
        /\ \A i \in JobIds : jobs'[i] \in {jobs[i], NoRow}
    BY <1>0, <1>3 DEF Remove
  <2> QED
    BY <2>1, UnheldKeeps
<1>4. CASE \/ \E c \in Clients : EnqueueSelect(c)
           \/ \E w \in Workers : ClaimSelect(w) \/ WorkerCrash(w)
           \/ UNCHANGED vars
  <2>1. /\ nextId <= nextId' /\ nextId' \in Nat /\ open' \subseteq open
        /\ completions' = completions /\ jobs' = jobs
    BY <1>0, <1>4 DEF EnqueueSelect, ClaimSelect, WorkerCrash, vars, table
  <2> QED
    BY <2>1, UnheldKeeps
<1>5. \A j \in JobIds : ~Stray(j)
  BY <1>0 DEF Stray
<1>6. (\A j \in JobIds : RetentionSweep(j) => OpenInv' /\ OnceInv')
      /\ (DeleteTenant => OpenInv' /\ OnceInv')
  BY <1>3 DEF RetentionSweep, DeleteTenant
<1> QED
  BY <1>1, <1>2, <1>4, <1>5, <1>6, ReportOnce, ClaimOnce DEF Next

(* A second completion of a job takes a report by somebody who does not hold it: repeated,  *)
(* late, or an operator's.  Where holders alone report, each once, whichever of them are    *)
(* slow, fail or die, no job is completed twice.                                            *)
THEOREM OnlyStraysCompleteTwice ==
  ASSUME MaxStrays = 0
  PROVE  Spec => []CompletedOnce
<1>1. Spec => [](TypeOK /\ ClaimInv /\ FreshRows /\ TicketInv /\ OneHolderPerAttempt)
  BY TypeCorrect, NumbersUsedOnce, InitTicketInv, NextTicketInv, PTL DEF Spec
<1>2. HolderInv /\ [Next]_vars => OpenInv' /\ OnceInv'
  BY NextOnce
<1>3. Spec => [](OpenInv /\ OnceInv)
  BY <1>1, <1>2, InitOnce, PTL DEF Spec, HolderInv
<1>4. OnceInv => CompletedOnce
  BY DEF OnceInv, CompletedOnce
<1> QED
  BY <1>3, <1>4, PTL

-----------------------------------------------------------------------------
(* JobQueue implements BoundedRetry *)

TicketsOf(j) == {t \in tickets : t.job = j}

RunsInv ==
  /\ IsFiniteSet(tickets)
  /\ \A j \in JobIds : Exists(j) => RunsOf(j) = jobs[j].attempts

LEMMA InitRunsInv == Init => RunsInv
BY FS_EmptySet DEF Init, RunsInv, Exists, NoRow

(* A new ticket is one more run of its job and of no other. *)
LEMMA NewTicketCounts ==
  ASSUME TypeOK, ClaimInv, TicketInv, RunsInv, NEW w \in Workers, ClaimUpdate(w)
  PROVE  /\ IsFiniteSet(tickets')
         /\ \A j \in JobIds :
              (RunsOf(j))' = IF j = claiming[w] THEN RunsOf(j) + 1 ELSE RunsOf(j)
<1> DEFINE new == [job |-> claiming[w], attempt |-> jobs[claiming[w]].attempts + 1,
                   worker |-> w]
<1>1. claiming[w] \in JobIds /\ Exists(claiming[w]) /\ jobs[claiming[w]].attempts \in Nat
  BY DEF ClaimUpdate, TypeOK, ClaimInv, Exists, Row
<1>2. tickets' = tickets \cup {new}
  BY DEF ClaimUpdate
<1>3. new \notin tickets
  BY <1>1 DEF TicketInv
<1>4. IsFiniteSet(tickets')
  BY <1>2, FS_AddElement DEF RunsInv
<1>5. ASSUME NEW j \in JobIds
      PROVE  (RunsOf(j))' = IF j = claiming[w] THEN RunsOf(j) + 1 ELSE RunsOf(j)
  <2>1. IsFiniteSet(TicketsOf(j))
    BY FS_Subset DEF TicketsOf, RunsInv
  <2>2. CASE j = claiming[w]
    <3>1. {t \in tickets' : t.job = j} = TicketsOf(j) \cup {new} /\ new \notin TicketsOf(j)
      BY <1>2, <1>3, <2>2 DEF TicketsOf
    <3>2. Cardinality(TicketsOf(j) \cup {new}) = Cardinality(TicketsOf(j)) + 1
      BY <2>1, <3>1, FS_AddElement
    <3>3. QED BY <2>2, <3>1, <3>2 DEF RunsOf, TicketsOf
  <2>3. CASE j # claiming[w]
    <3>1. {t \in tickets' : t.job = j} = {t \in tickets : t.job = j}
      BY <1>2, <2>3
    <3>2. QED BY <2>3, <3>1 DEF RunsOf
  <2>4. QED BY <2>2, <2>3
<1>6. QED BY <1>4, <1>5

LEMMA NextRunsInv ==
  /\ TypeOK /\ ClaimInv /\ FreshRows /\ TicketInv /\ RunsInv /\ [Next]_vars => RunsInv'
<1> SUFFICES ASSUME TypeOK, ClaimInv, FreshRows, TicketInv, RunsInv, [Next]_vars
             PROVE  RunsInv'
  OBVIOUS
<1>0. jobs \in [JobIds -> Row] /\ nextId \in Nat /\ JobIds \subseteq Nat
  BY QueueAssumption DEF TypeOK, JobIds
<1>1. ASSUME NEW w \in Workers, ClaimUpdate(w) PROVE RunsInv'
  <2>1. claiming[w] \in JobIds /\ Exists(claiming[w]) /\ jobs[claiming[w]] \in Row
    BY <1>1 DEF ClaimUpdate, TypeOK, ClaimInv, Exists
  <2>2. jobs' = [jobs EXCEPT ![claiming[w]] = ClaimedRow(jobs[claiming[w]])]
    BY <1>1 DEF ClaimUpdate
  <2>3. \A j \in JobIds : j # claiming[w] => jobs'[j] = jobs[j]
    BY <1>0, <2>2
  <2>4. jobs'[claiming[w]].attempts = jobs[claiming[w]].attempts + 1
    BY <1>0, <2>1, <2>2, ClaimedRowTyped
  <2>5. QED
    BY <1>1, <2>1, <2>3, <2>4, NewTicketCounts DEF RunsInv, Exists
<1>2. CASE ~\E w \in Workers : ClaimUpdate(w)
  <2>1. tickets' = tickets
    BY <1>2, OnlyClaimsGiveTickets
  <2> SUFFICES ASSUME NEW j \in JobIds, (Exists(j))'
               PROVE  RunsOf(j) = jobs'[j].attempts
    BY <2>1 DEF RunsInv, RunsOf
  <2>2. ~Claimed(j)
    BY <1>2, OnlyClaimsRun DEF Claimed
  <2>3. CASE Inserted(j)
    <3>1. TicketsOf(j) = {}
      BY <1>0, <2>3 DEF TicketsOf, TicketInv, Inserted
    <3>2. QED BY <2>3, <3>1, FS_EmptySet DEF RunsOf, TicketsOf, Inserted
  <2>4. CASE ~Inserted(j)
    <3>1. Exists(j) /\ jobs'[j].attempts = jobs[j].attempts
      BY <2>2, <2>4, RowSteps
         DEF RowStep, Completed, Failed, Delayed, Deleted, NoRow, Exists
    <3>2. QED BY <3>1 DEF RunsInv
  <2>5. QED BY <2>3, <2>4
<1>3. QED BY <1>1, <1>2

(* A run of a job is a ticket: max_attempts bounds how often a job was handed out. *)
THEOREM RunsAreAttempts == Spec => []RunsInv
<1>1. Spec => []TicketInv
  <2>1. Spec => [](TicketInv /\ OneHolderPerAttempt)
    BY InitTicketInv, NextTicketInv, TypeCorrect, NumbersUsedOnce, PTL DEF Spec
  <2>2. QED BY <2>1, PTL
<1>2. QED
  BY <1>1, InitRunsInv, NextRunsInv, TypeCorrect, NumbersUsedOnce, PTL DEF Spec
RefinementInv == TypeOK /\ ClaimInv /\ AttemptBudget /\ FreshRows /\ TicketInv /\ RunsInv

LEMMA InitMapped == Init => Abstract!Init
<1> SUFFICES ASSUME Init PROVE Abstract!Init
  OBVIOUS
<1>1. \A j \in JobIds : PhaseOf(j) = "new" /\ jobs[j].maxAttempts = 0
  BY QueueAssumption DEF Init, PhaseOf, JobIds, NoRow
<1>2. \A j \in JobIds : {t \in tickets : t.job = j} = {}
  BY DEF Init
<1>3. \A j \in JobIds : RunsOf(j) = 0
  BY <1>2, FS_EmptySet DEF RunsOf
<1>4. QED BY <1>1, <1>3 DEF Abstract!Init

(* A step that gives no ticket and leaves every phase and budget alone is invisible. *)
LEMMA Invisible ==
  ASSUME tickets' = tickets,
         \A j \in JobIds : (PhaseOf(j))' = PhaseOf(j)
                           /\ jobs'[j].maxAttempts = jobs[j].maxAttempts
  PROVE  UNCHANGED Abstract!vars
<1>1. \A j \in JobIds : (RunsOf(j))' = RunsOf(j)
  BY DEF RunsOf
<1>2. QED BY <1>1 DEF Abstract!vars

LEMMA InsertMapped ==
  ASSUME RefinementInv, NEW c \in Clients, NEW k \in Keys, NEW asked \in AskedAttempts,
         EnqueueInsert(c, k, asked), ~KeyTaken(k)
  PROVE  Abstract!Next
<1>0. /\ nextId \in JobIds /\ nextId' = nextId + 1 /\ JobIds \subseteq Nat
      /\ jobs' = [jobs EXCEPT ![nextId] = NewRow(k, asked)]
      /\ tickets' = tickets /\ jobs \in [JobIds -> Row]
  BY QueueAssumption DEF EnqueueInsert, RefinementInv, TypeOK, JobIds
<1>1. jobs'[nextId].status = "queued" /\ jobs'[nextId].maxAttempts = Granted(asked)
  BY <1>0 DEF NewRow
<1>2. \A j \in JobIds : j # nextId => jobs'[j] = jobs[j] /\ (j >= nextId' <=> j >= nextId)
  BY <1>0
<1>3. PhaseOf(nextId) = "new"
  BY <1>0 DEF PhaseOf
<1>4. \A j \in JobIds : (PhaseOf(j))' = IF j = nextId THEN "live" ELSE PhaseOf(j)
  BY <1>0, <1>1, <1>2 DEF PhaseOf
<1>5. \A j \in JobIds :
        jobs'[j].maxAttempts = IF j = nextId THEN Granted(asked) ELSE jobs[j].maxAttempts
  BY <1>1, <1>2
<1>6. \A j \in JobIds : (RunsOf(j))' = RunsOf(j)
  BY <1>0 DEF RunsOf
<1>7. Abstract!Create(nextId, Granted(asked))
  BY <1>0, <1>3, <1>4, <1>5, <1>6, GrantedPositive DEF Abstract!Create
<1>8. QED BY <1>0, <1>7 DEF Abstract!Next

LEMMA ClaimMapped ==
  ASSUME RefinementInv, NEW w \in Workers, ClaimUpdate(w)
  PROVE  Abstract!Next
<1> DEFINE j == claiming[w]
<1>0. /\ j \in JobIds /\ jobs[j] \in Row /\ jobs[j].status = "queued"
      /\ jobs' = [jobs EXCEPT ![j] = ClaimedRow(jobs[j])] /\ nextId' = nextId
      /\ jobs \in [JobIds -> Row] /\ JobIds \subseteq Nat /\ nextId \in Nat
  BY QueueAssumption DEF ClaimUpdate, RefinementInv, TypeOK, ClaimInv, JobIds
<1>1. j < nextId
  <2>1. Exists(j)
    BY <1>0 DEF Exists
  <2>2. \A i \in JobIds : Exists(i) => i < nextId
    BY <1>0 DEF RefinementInv, FreshRows
  <2>3. QED BY <1>0, <2>1, <2>2
<1>2. \A i \in JobIds : i # j => jobs'[i] = jobs[i]
  BY <1>0
<1>3. jobs'[j].status = "running" /\ jobs'[j].maxAttempts = jobs[j].maxAttempts
  BY <1>0, ClaimedRowTyped
<1>4. \A i \in JobIds : (PhaseOf(i))' = PhaseOf(i)
                        /\ jobs'[i].maxAttempts = jobs[i].maxAttempts
  BY <1>0, <1>2, <1>3 DEF PhaseOf
<1>5. PhaseOf(j) = "live" /\ RunsOf(j) < jobs[j].maxAttempts
  BY <1>0, <1>1 DEF PhaseOf, RefinementInv, AttemptBudget, RunsInv, Exists
<1>6. \A i \in JobIds : (RunsOf(i))' = IF i = j THEN RunsOf(i) + 1 ELSE RunsOf(i)
  BY NewTicketCounts DEF RefinementInv
<1>7. Abstract!HandOut(j)
  BY <1>0, <1>4, <1>5, <1>6 DEF Abstract!HandOut
<1>8. QED BY <1>0, <1>7 DEF Abstract!Next

LEMMA ReportMapped ==
  ASSUME RefinementInv, NEW j \in JobIds, tickets' = tickets, nextId' = nextId,
         CompleteJob(j) \/ \E delayed \in BOOLEAN : FailJob(j, delayed)
  PROVE  Abstract!Next \/ UNCHANGED Abstract!vars
<1>0. /\ jobs[j] \in Row /\ jobs \in [JobIds -> Row] /\ JobIds \subseteq Nat /\ nextId \in Nat
      /\ jobs[j].attempts \in Nat /\ jobs[j].maxAttempts \in Nat
  BY QueueAssumption DEF RefinementInv, TypeOK, JobIds, Row
<1>1. \A i \in JobIds : i # j => jobs'[i] = jobs[i]
  BY <1>0 DEF CompleteJob, FailJob
<1>2. CASE jobs'[j] = jobs[j]
  BY <1>1, <1>2, Invisible DEF PhaseOf
<1>3. CASE Completable(j) /\ jobs'[j] = CompletedRow(jobs[j])
  <2>1. /\ jobs[j].status = "running" /\ jobs'[j].status = "done"
        /\ jobs'[j].maxAttempts = jobs[j].maxAttempts
    BY <1>0, <1>3, CompletedRowTyped DEF Completable
  <2>2. (PhaseOf(j))' = PhaseOf(j)
    BY <2>1 DEF PhaseOf
  <2>3. QED BY <1>1, <2>1, <2>2, Invisible DEF PhaseOf
<1>4. ASSUME NEW delayed \in BOOLEAN, Exists(j), jobs'[j] = FailedRow(jobs[j], delayed)
      PROVE  Abstract!Next \/ UNCHANGED Abstract!vars
  <2>0. j < nextId
    BY <1>0, <1>4 DEF RefinementInv, FreshRows
  <2>1. /\ jobs'[j].maxAttempts = jobs[j].maxAttempts
        /\ jobs'[j].status = IF Exhausted(jobs[j]) THEN "dead-letter" ELSE "queued"
    BY <1>0, <1>4, FailedRowTyped
  <2>2. CASE Exhausted(jobs[j]) /\ jobs[j].status # "dead-letter"
    <3>1. PhaseOf(j) = "live"
      BY <1>0, <1>4, <2>0, <2>2 DEF PhaseOf, Exists
    <3>2. \A i \in JobIds : (PhaseOf(i))' = IF i = j THEN "buried" ELSE PhaseOf(i)
      BY <1>0, <1>1, <2>0, <2>1, <2>2 DEF PhaseOf
    <3>3. RunsOf(j) = jobs[j].maxAttempts
      BY <1>0, <1>4, <2>2 DEF RefinementInv, RunsInv, AttemptBudget, Exhausted
    <3>4. \A i \in JobIds : (RunsOf(i))' = RunsOf(i)
                            /\ jobs'[i].maxAttempts = jobs[i].maxAttempts
      BY <1>1, <2>1 DEF RunsOf
    <3>5. Abstract!Bury(j)
      BY <3>1, <3>2, <3>3, <3>4 DEF Abstract!Bury
    <3>6. QED BY <3>5 DEF Abstract!Next
  <2>3. CASE ~(Exhausted(jobs[j]) /\ jobs[j].status # "dead-letter")
    <3>1. jobs[j].status = "dead-letter" => Exhausted(jobs[j])
      BY <1>0 DEF RefinementInv, AttemptBudget, Exhausted
    <3>2. (PhaseOf(j))' = PhaseOf(j)
      BY <1>0, <1>4, <2>0, <2>1, <2>3, <3>1 DEF PhaseOf, Exists
    <3>3. QED
      BY <1>1, <2>1, <3>2, Invisible DEF PhaseOf
  <2>4. QED BY <2>2, <2>3
<1>5. QED
  BY <1>0, <1>2, <1>3, <1>4 DEF CompleteJob, FailJob

LEMMA RemoveMapped ==
  ASSUME RefinementInv, NEW S \in SUBSET JobIds, \A j \in S : Exists(j), Remove(S)
  PROVE  Abstract!Next
<1>0. /\ jobs \in [JobIds -> Row] /\ JobIds \subseteq Nat /\ nextId \in Nat /\ nextId' = nextId
      /\ tickets' = tickets
  BY QueueAssumption DEF RefinementInv, TypeOK, JobIds, Remove
<1>1. \A j \in JobIds : jobs'[j] = IF j \in S THEN NoRow ELSE jobs[j]
  BY DEF Remove
<1>2. \A j \in S : j < nextId /\ PhaseOf(j) \in {"live", "buried"}
  BY <1>0 DEF RefinementInv, FreshRows, PhaseOf, Exists
<1>3. \A j \in JobIds : (PhaseOf(j))' = IF j \in S THEN "gone" ELSE PhaseOf(j)
  BY <1>0, <1>1, <1>2 DEF PhaseOf, NoRow
<1>4. \A j \in JobIds : jobs'[j].maxAttempts = IF j \in S THEN 0 ELSE jobs[j].maxAttempts
  BY <1>1 DEF NoRow
<1>5. \A j \in JobIds : (RunsOf(j))' = RunsOf(j)
  BY <1>0 DEF RunsOf
<1>6. Abstract!Forget(S)
  BY <1>2, <1>3, <1>4, <1>5 DEF Abstract!Forget
<1>7. QED BY <1>6 DEF Abstract!Next

LEMMA NextMapped == RefinementInv /\ [Next]_vars => [Abstract!Next]_(Abstract!vars)
<1> SUFFICES ASSUME RefinementInv, [Next]_vars
             PROVE  Abstract!Next \/ UNCHANGED Abstract!vars
  OBVIOUS
<1>0. jobs \in [JobIds -> Row]
  BY DEF RefinementInv, TypeOK
<1>1. ASSUME UNCHANGED <<jobs, nextId, tickets>> PROVE UNCHANGED Abstract!vars
  BY <1>1, Invisible DEF PhaseOf
<1>2. ASSUME NEW c \in Clients, NEW k \in Keys, NEW asked \in AskedAttempts,
             EnqueueInsert(c, k, asked)
      PROVE  Abstract!Next \/ UNCHANGED Abstract!vars
  <2>1. CASE ~KeyTaken(k)
    BY <1>2, <2>1, InsertMapped
  <2>2. CASE KeyTaken(k)
    BY <1>1, <1>2, <2>2 DEF EnqueueInsert, table
  <2>3. QED BY <2>1, <2>2
<1>3. ASSUME NEW t \in open, Report(t) PROVE Abstract!Next \/ UNCHANGED Abstract!vars
  <2>1. t.job \in JobIds
    BY DEF RefinementInv, TypeOK, Ticket
  <2>2. QED BY <1>3, <2>1, ReportMapped DEF Report
<1>4. ASSUME NEW j \in JobIds, Stray(j) PROVE Abstract!Next \/ UNCHANGED Abstract!vars
  BY <1>4, ReportMapped DEF Stray
<1>5. ASSUME NEW j \in JobIds, DelayElapses(j) PROVE UNCHANGED Abstract!vars
  <2>1. /\ jobs'[j].status = jobs[j].status /\ jobs'[j].maxAttempts = jobs[j].maxAttempts
        /\ \A i \in JobIds : i # j => jobs'[i] = jobs[i]
        /\ tickets' = tickets /\ nextId' = nextId
    BY <1>0, <1>5 DEF DelayElapses, Row
  <2>2. \A i \in JobIds : (PhaseOf(i))' = PhaseOf(i)
                          /\ jobs'[i].maxAttempts = jobs[i].maxAttempts
    BY <2>1 DEF PhaseOf
  <2>3. QED BY <2>1, <2>2, Invisible
<1>6. ASSUME NEW j \in JobIds, RetentionSweep(j) PROVE Abstract!Next
  BY <1>6, RemoveMapped DEF RetentionSweep
<1>7. CASE DeleteTenant
  BY <1>7, RemoveMapped DEF DeleteTenant
<1>8. CASE \/ \E c \in Clients : EnqueueSelect(c)
           \/ \E w \in Workers : ClaimSelect(w) \/ WorkerCrash(w)
           \/ UNCHANGED vars
  BY <1>1, <1>8 DEF EnqueueSelect, ClaimSelect, WorkerCrash, vars, table
<1>9. QED
  BY <1>2, <1>3, <1>4, <1>5, <1>6, <1>7, <1>8, ClaimMapped DEF Next

(* Every behaviour of the queue is a behaviour of BoundedRetry: handed out at most      *)
(* max_attempts times, buried only when the attempts are spent, and then for good.      *)
THEOREM BoundedRetryImplemented == Spec => ImplementsBoundedRetry
<1>1. Spec => []TicketInv
  <2>1. Spec => [](TicketInv /\ OneHolderPerAttempt)
    BY InitTicketInv, NextTicketInv, TypeCorrect, NumbersUsedOnce, PTL DEF Spec
  <2>2. QED BY <2>1, PTL
<1>2. Spec => []RefinementInv
  BY <1>1, TypeCorrect, BudgetKept, NumbersUsedOnce, RunsAreAttempts, PTL DEF RefinementInv
<1>3. QED
  BY <1>2, InitMapped, NextMapped, PTL DEF Spec, ImplementsBoundedRetry, Abstract!Spec
=============================================================================
