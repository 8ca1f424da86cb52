------------------------------ MODULE MCRules -------------------------------
(***************************************************************************)
(* Five specifications for TLC, in one run: the trust chain, the intake of *)
(* documents, readiness, the requests of several tenants, and a benchmark. *)
(* They share no state.  The initial state picks the part that moves; the  *)
(* others stay where they are put, so the run checks each of them in full. *)
(***************************************************************************)
EXTENDS TrustChain, DocumentIntake, Readiness, TenantRequests, BenchmarkRun, TLC

CONSTANTS AnnaOfA, BertOfB    \* an owner of tenant A, a reviewer of tenant B

VARIABLE part

\* Pages of up to two words, a date among them only in front or alone.
ShortPages ==
  {<<>>, <<"date">>, <<"date", "500">>}
  \cup UNION {[1..n -> Words \ {"date"}] : n \in 1..2}
Layouts ==
  {<<p>> : p \in ShortPages} \cup {<<p, q>> : p, q \in ShortPages}
  \cup {<<p, q, <<"1", "500">> >> : p, q \in ShortPages}
  \cup {<<p, q, <<"500", "EUR">> >> : p \in ShortPages, q \in {<<>>, <<"1">>, <<"500">>}}
  \cup {<<p, q, <<"1", "500">>, <<"EUR", "date">> >> : p, q \in ShortPages}
Sent(pages, threats, best, second, defects) ==
  [pages |-> pages, threats |-> threats, best |-> best, second |-> second,
   defects |-> defects]
OnePage == << <<"500", "EUR">> >>
SomeFiles ==
  {Sent(pages, {}, 2, 0, {}) : pages \in Layouts}
  \cup {Sent(OnePage, threats, score[1], score[2], {}) :
          threats \in SUBSET Threats, score \in {<<0, 0>>, <<1, 1>>, <<1, 0>>, <<3, 2>>}}
  \cup {Sent(OnePage, {}, 2, 0, defects) : defects \in SUBSET Defects}

SomeDays == {-7, 0, 1, 30, 40, 41}     \* of a calendar of 40 days

SomePrincipals ==
  AnnaOfA :> [tenant |-> "A", role |-> "owner"]
  @@ BertOfB :> [tenant |-> "B", role |-> "reviewer"]

Unbuilt == [source |-> [verified |-> FALSE, authenticity |-> "unverified"],
            authority |-> [complete |-> FALSE, status |-> "authoritative"], evidence |-> {},
            human |-> [status |-> "pending", actor |-> NoActor, dated |-> FALSE]]

ChainRests ==
  /\ built = Unbuilt
  /\ chain = Chain(Unbuilt.source, Unbuilt.authority, Unbuilt.evidence, Unbuilt.human)
IntakeRests == file = Sent(OnePage, {}, 2, 0, {}) /\ upload = NoUpload /\ finding = NoFinding
ReadinessRests ==
  /\ env = [production |-> FALSE, mode |-> "sqlite-durable", principals |-> {},
            days |-> [text |-> "unset"], flags |-> {}, wildcard |-> TRUE]
  /\ up = TRUE /\ vouched = FALSE
TenantsRest ==
  /\ mode = [production |-> FALSE, store |-> "sqlite"]
  /\ rows = {} /\ issued = {} /\ writes = 0
  /\ pending = [c \in Clients |-> "nothing"] /\ doomed = [c \in Clients |-> {}]

SomeLabels == <<{"amount", "security"}, {"security"}, {"amount"}, {"security"}>>
BenchmarkRests ==
  /\ provider = "not_configured" /\ answers = <<>> /\ metric = NoMetric
  /\ tally = [ok |-> [task \in Tasks |-> 0], total |-> [task \in Tasks |-> 0],
              latencies |-> 0, failures |-> 0]

MCInit ==
  \/ part = "chain" /\ Init /\ IntakeRests /\ ReadinessRests /\ TenantsRest /\ BenchmarkRests
  \/ part = "intake" /\ IntakeInit /\ ChainRests /\ ReadinessRests /\ TenantsRest /\ BenchmarkRests
  \/ part = "readiness" /\ ReadinessInit /\ ChainRests /\ IntakeRests /\ TenantsRest /\ BenchmarkRests
  \/ part = "tenants" /\ TenantInit /\ ChainRests /\ IntakeRests /\ ReadinessRests /\ BenchmarkRests
  \/ part = "benchmark" /\ BenchmarkInit /\ ChainRests /\ IntakeRests /\ ReadinessRests /\ TenantsRest

MCNext ==
  /\ UNCHANGED part
  /\ \/ part = "chain" /\ Next /\ UNCHANGED <<intakeVars, readinessVars, tenantVars, benchmarkVars>>
     \/ part = "intake" /\ IntakeNext /\ UNCHANGED <<vars, readinessVars, tenantVars, benchmarkVars>>
     \/ part = "readiness" /\ ReadinessNext /\ UNCHANGED <<vars, intakeVars, tenantVars, benchmarkVars>>
     \/ part = "tenants" /\ TenantNext /\ UNCHANGED <<vars, intakeVars, readinessVars, benchmarkVars>>
     \/ part = "benchmark" /\ BenchmarkNext /\ UNCHANGED <<vars, intakeVars, readinessVars, tenantVars>>

MCSpec ==
  MCInit /\ [][MCNext]_<<part, vars, intakeVars, readinessVars, tenantVars, benchmarkVars>>

Symmetry == Permutations(Ids)
=============================================================================
