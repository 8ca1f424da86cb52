---------------------------- MODULE BenchmarkRun ----------------------------
(***************************************************************************)
(* One provider's turn in a benchmark (app/benchmark.py): case after case  *)
(* it is asked for a document's type and amount and for a verdict on it,   *)
(* any call may fail, and what was counted becomes a metric.  The program's*)
(* own rules take the same turn and cannot fail.  Whether a single answer  *)
(* is right is left open.                                                  *)
(***************************************************************************)
EXTENDS Naturals, FiniteSets, Sequences

CONSTANTS
  Labels,           \* of each fixture: which of amount and verdict it has a gold label for
  SampleSize        \* fixtures a model is asked, 6 in the code

ASSUME BenchmarkAssumption ==
  /\ Labels \in Seq(SUBSET {"amount", "security"})
  /\ SampleSize \in 1..Len(Labels)

VARIABLES
  provider,         \* "deterministic", or a model that has credentials or has none
  answers,          \* of the cases so far: whether a JSON object came, and what was right in it
  tally,            \* the counters of the turn
  metric            \* NoMetric, then what the report shows

benchmarkVars == <<provider, answers, tally, metric>>

Tasks == {"type", "amount", "security", "structured"}
NoMetric == [status |-> "running"]
NoRates == [task \in {} |-> <<>>]

Cases == IF provider = "deterministic" THEN Len(Labels) ELSE SampleSize
AskedFor(n) == {"type", "structured"} \cup Labels[n]

BenchmarkInit ==
  /\ provider \in {"deterministic", "configured", "not_configured"}
  /\ answers = <<>>
  /\ tally = [ok |-> [task \in Tasks |-> 0], total |-> [task \in Tasks |-> 0],
              latencies |-> 0, failures |-> 0]
  /\ metric = NoMetric

Running == metric = NoMetric /\ provider # "not_configured" /\ Len(answers) < Cases

\* An answer that is no object has a latency and then raises at output.get.
AfterFailureIgnored(counters, answered) == counters       \* mutant: except Exception: continue
AfterFailure(counters, answered) ==
  [counters EXCEPT !.failures = counters.failures + 1,
                   !.latencies = IF answered THEN counters.latencies + 1 ELSE counters.latencies]

CallFails ==
  /\ Running /\ provider = "configured"
  /\ \E answered \in BOOLEAN : tally' = AfterFailure(tally, answered)
  /\ answers' = Append(answers, [object |-> FALSE, right |-> {}])
  /\ UNCHANGED <<provider, metric>>

Raised(counts, tasks) ==
  [task \in Tasks |-> IF task \in tasks THEN counts[task] + 1 ELSE counts[task]]

CaseAnswered ==
  /\ Running
  /\ LET asked == AskedFor(Len(answers) + 1)
     IN \E right \in SUBSET asked :
          /\ provider = "deterministic" \/ {"type", "amount", "security"} \subseteq right
               => "structured" \in right         \* right in all keys is to have them
          /\ tally' = [tally EXCEPT !.ok = Raised(tally.ok, right),
                                    !.total = Raised(tally.total, asked),
                                    !.latencies = tally.latencies + 1]
          /\ answers' = Append(answers, [object |-> TRUE, right |-> right])
  /\ UNCHANGED <<provider, metric>>

\* Type and structure are divided by all cases, the labelled tasks by those reached.
Rates ==
  [task \in Tasks |->
     <<tally.ok[task], IF task \in {"type", "structured"} THEN Cases ELSE tally.total[task]>>]

\* round(0.95 * n) - 1 within 0..n - 1; round() takes a half to the even side.
P95Index(n) ==
  LET whole == (95 * n) \div 100
      rest == (95 * n) % 100
      rounded == IF rest > 50 \/ (rest = 50 /\ whole % 2 = 1) THEN whole + 1 ELSE whole
  IN IF rounded <= 1 THEN 0 ELSE IF rounded > n THEN n - 1 ELSE rounded - 1

Finish ==
  /\ metric = NoMetric /\ ~Running
  /\ metric' =
       IF provider = "not_configured" \/ tally.failures = Cases
       THEN [status |-> IF provider = "not_configured" THEN provider ELSE "failed",
             rates |-> NoRates, p95 |-> 0]
       ELSE [status |-> IF tally.failures = 0 THEN "measured" ELSE "failed",
             rates |-> Rates, p95 |-> P95Index(tally.latencies)]
  /\ UNCHANGED <<provider, answers, tally>>

BenchmarkNext == CallFails \/ CaseAnswered \/ Finish

BenchmarkSpec == BenchmarkInit /\ [][BenchmarkNext]_benchmarkVars

-----------------------------------------------------------------------------
(* Properties *)

Answered == {n \in DOMAIN answers : answers[n].object}

(* "measured" is said of a turn in which every case was answered, and then each rate is  *)
(* over all cases with a label for it.  A turn without an answer shows no rate, and one  *)
(* with some shows what was right: a failed call counts against type and structure, and  *)
(* for amount and verdict as if the case had not been there.                             *)
RatesAreEarned ==
  metric # NoMetric =>
    /\ metric.status = "measured" <=> Cardinality(Answered) = Cases
    /\ metric.rates = NoRates <=> Answered = {}
    /\ \A task \in DOMAIN metric.rates :
         LET rate == metric.rates[task]
             labelled == {n \in 1..Cases : task \in AskedFor(n)}
         IN /\ rate[1] = Cardinality({n \in Answered : task \in answers[n].right})
            /\ rate[2] = IF task \in {"type", "structured"} THEN Cases
                         ELSE Cardinality(labelled \cap Answered)
    /\ metric.rates # NoRates => 2 * metric.p95 + 1 >= tally.latencies - 1
                                 /\ metric.p95 < tally.latencies
=============================================================================
