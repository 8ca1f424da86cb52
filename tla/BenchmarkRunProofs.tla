------------------------- MODULE BenchmarkRunProofs -------------------------
(***************************************************************************)
(* BenchmarkRun for any number of fixtures and any labels.  The counters   *)
(* of a turn are the cardinalities of sets of cases, step by step; what    *)
(* the metric says of them then follows by arithmetic.                     *)
(***************************************************************************)
EXTENDS BenchmarkRun, FiniteSetTheorems, TLAPS

Right(task) == {n \in Answered : task \in answers[n].right}
Asked(task) == {n \in Answered : task \in AskedFor(n)}

TallyTypeOK ==
  tally \in [ok : [Tasks -> Nat], total : [Tasks -> Nat], latencies : Nat, failures : Nat]
TurnTypeOK ==
  /\ provider \in {"deterministic", "configured", "not_configured"}
  /\ answers \in Seq([object : BOOLEAN, right : SUBSET Tasks])
  /\ TallyTypeOK

\* What is counted: a failure may have left a latency or none.
Counted ==
  /\ Len(answers) <= Cases /\ (provider = "not_configured" => answers = <<>>)
  /\ tally.failures + Cardinality(Answered) = Len(answers)
  /\ Cardinality(Answered) <= tally.latencies
  /\ \A task \in Tasks : /\ tally.ok[task] = Cardinality(Right(task))
                         /\ tally.total[task] = Cardinality(Asked(task))

BenchmarkInv == TurnTypeOK /\ Counted /\ RatesAreEarned

-----------------------------------------------------------------------------
LEMMA CasesPositive ==
  ASSUME TurnTypeOK
  PROVE  Cases \in Nat \ {0} /\ Cases <= Len(Labels)
BY BenchmarkAssumption DEF Cases

LEMMA InitBenchmark == BenchmarkInit => BenchmarkInv
<1> SUFFICES ASSUME BenchmarkInit PROVE BenchmarkInv
  OBVIOUS
<1>1. TurnTypeOK
  BY DEF BenchmarkInit, TurnTypeOK, TallyTypeOK
<1>2. Answered = {} /\ \A task \in Tasks : Right(task) = {} /\ Asked(task) = {}
  BY DEF BenchmarkInit, Answered, Right, Asked
<1>3. /\ Cases \in Nat /\ Len(answers) = 0 /\ answers = <<>>
      /\ tally.failures = 0 /\ tally.latencies = 0
      /\ \A task \in Tasks : tally.ok[task] = 0 /\ tally.total[task] = 0
  BY <1>1, CasesPositive DEF BenchmarkInit
<1>4. Counted
  <2>1. Cardinality(Answered) = 0
    BY <1>2, FS_EmptySet
  <2>2. \A task \in Tasks : Cardinality(Right(task)) = 0 /\ Cardinality(Asked(task)) = 0
    BY <1>2, FS_EmptySet
  <2> QED
    BY <1>3, <2>1, <2>2 DEF Counted
<1>5. RatesAreEarned
  BY DEF BenchmarkInit, RatesAreEarned
<1> QED
  BY <1>1, <1>4, <1>5 DEF BenchmarkInv

-----------------------------------------------------------------------------
(* A case *)

\* The answers after one more case, and the sets that are counted.
LEMMA OneMoreCase ==
  ASSUME BenchmarkInv, Running, NEW answer \in [object : BOOLEAN, right : SUBSET Tasks],
         answers' = Append(answers, answer), provider' = provider
  PROVE  /\ answers' \in Seq([object : BOOLEAN, right : SUBSET Tasks])
         /\ Len(answers') = Len(answers) + 1 /\ Cases' = Cases /\ Len(answers') <= Cases'
         /\ answers'[Len(answers) + 1] = answer
         /\ \A n \in 1..Len(answers) : answers'[n] = answers[n]
         /\ DOMAIN answers' = 1..(Len(answers) + 1) /\ DOMAIN answers = 1..Len(answers)
         /\ Len(answers) \in Nat /\ IsFiniteSet(Answered)
<1>1. /\ answers \in Seq([object : BOOLEAN, right : SUBSET Tasks])
      /\ Cases \in Nat /\ Len(answers) < Cases
  BY CasesPositive DEF BenchmarkInv, TurnTypeOK, Running
<1>2. Len(answers) \in Nat /\ DOMAIN answers = 1..Len(answers)
  BY <1>1
<1>3. /\ answers' \in Seq([object : BOOLEAN, right : SUBSET Tasks])
      /\ Len(answers') = Len(answers) + 1 /\ DOMAIN answers' = 1..(Len(answers) + 1)
      /\ answers'[Len(answers) + 1] = answer
      /\ \A n \in 1..Len(answers) : answers'[n] = answers[n]
  BY <1>1, <1>2
<1>4. IsFiniteSet(Answered)
  <2>1. IsFiniteSet(1..Len(answers))
    BY <1>2, FS_Interval
  <2> QED
    BY <1>2, <2>1, FS_Subset DEF Answered
<1>5. Cases' = Cases
  BY DEF Cases
<1> QED
  BY <1>1, <1>2, <1>3, <1>4, <1>5

LEMMA NothingToShowYet ==
  ASSUME metric' = NoMetric
  PROVE  RatesAreEarned'
BY DEF RatesAreEarned

LEMMA CallFailsKeeps ==
  ASSUME BenchmarkInv, CallFails
  PROVE  BenchmarkInv'
<1> DEFINE answer == [object |-> FALSE, right |-> {}]
<1>1. /\ Running /\ metric = NoMetric /\ metric' = NoMetric /\ provider' = provider
      /\ answers' = Append(answers, answer)
      /\ answer \in [object : BOOLEAN, right : SUBSET Tasks] /\ ~answer.object
  BY DEF CallFails, Running
<1>2. PICK answered \in BOOLEAN : tally' = AfterFailure(tally, answered)
  BY DEF CallFails
<1> HIDE DEF answer
<1>3. /\ TallyTypeOK /\ TallyTypeOK'
      /\ tally'.ok = tally.ok /\ tally'.total = tally.total
      /\ tally'.failures = tally.failures + 1 /\ tally'.latencies >= tally.latencies
  <2>1. TallyTypeOK
    BY DEF BenchmarkInv, TurnTypeOK
  <2>2. PICK latencies \in {tally.latencies, tally.latencies + 1} :
          tally' = [ok |-> tally.ok, total |-> tally.total, latencies |-> latencies,
                    failures |-> tally.failures + 1]
    BY <1>2, <2>1 DEF AfterFailure, TallyTypeOK
  <2> QED
    BY <2>1, <2>2 DEF TallyTypeOK
<1>4. Answered' = Answered
  BY <1>1, OneMoreCase DEF Answered
<1>5. \A task \in Tasks : Right(task)' = Right(task) /\ Asked(task)' = Asked(task)
  BY <1>1, <1>4, OneMoreCase DEF Right, Asked, Answered, AskedFor
<1>6. Cardinality(Answered) \in Nat
  BY <1>1, OneMoreCase, FS_CardinalityType
<1>7. provider' # "not_configured" /\ TurnTypeOK'
  BY <1>1, <1>3, OneMoreCase DEF BenchmarkInv, TurnTypeOK, Running
<1>8. Counted'
  <2>1. Len(answers') = Len(answers) + 1 /\ Len(answers') <= Cases' /\ Len(answers) \in Nat
    BY <1>1, OneMoreCase
  <2>2. tally.failures \in Nat /\ tally.latencies \in Nat /\ tally'.latencies \in Nat
    BY <1>3 DEF TallyTypeOK
  <2> QED
    BY <1>3, <1>4, <1>5, <1>6, <1>7, <2>1, <2>2 DEF BenchmarkInv, Counted
<1> QED
  BY <1>1, <1>7, <1>8, NothingToShowYet DEF BenchmarkInv

LEMMA CaseAnsweredKeeps ==
  ASSUME BenchmarkInv, CaseAnswered
  PROVE  BenchmarkInv'
<1> DEFINE next == Len(answers) + 1
           asked == AskedFor(next)
<1>1. PICK right \in SUBSET asked :
        /\ tally' = [tally EXCEPT !.ok = Raised(tally.ok, right),
                                  !.total = Raised(tally.total, asked),
                                  !.latencies = tally.latencies + 1]
        /\ answers' = Append(answers, [object |-> TRUE, right |-> right])
  BY DEF CaseAnswered
<1> DEFINE answer == [object |-> TRUE, right |-> right]
<1>2. Running /\ metric = NoMetric /\ metric' = NoMetric /\ provider' = provider
  BY DEF CaseAnswered, Running
<1>3. next \in 1..Len(Labels)
  BY <1>2, CasesPositive DEF Running, BenchmarkInv, TurnTypeOK
<1>4. asked \subseteq Tasks
  <2>1. Labels[next] \in SUBSET {"amount", "security"}
    BY <1>3, BenchmarkAssumption
  <2> QED
    BY <2>1 DEF AskedFor, Tasks
<1>5. answer \in [object : BOOLEAN, right : SUBSET Tasks] /\ answer.object /\ answer.right = right
  BY <1>1, <1>4
<1> HIDE DEF answer
<1>6. answers' = Append(answers, answer)
  BY <1>1 DEF answer
<1>7. /\ TallyTypeOK /\ TallyTypeOK'
      /\ tally'.failures = tally.failures /\ tally'.latencies = tally.latencies + 1
      /\ \A task \in Tasks :
           /\ tally'.ok[task] = IF task \in right THEN tally.ok[task] + 1 ELSE tally.ok[task]
           /\ tally'.total[task] = IF task \in asked THEN tally.total[task] + 1
                                   ELSE tally.total[task]
  <2>1. TallyTypeOK
    BY DEF BenchmarkInv, TurnTypeOK
  <2>2. tally' = [ok |-> Raised(tally.ok, right), total |-> Raised(tally.total, asked),
                  latencies |-> tally.latencies + 1, failures |-> tally.failures]
    BY <1>1, <2>1 DEF TallyTypeOK
  <2>3. Raised(tally.ok, right) \in [Tasks -> Nat] /\ Raised(tally.total, asked) \in [Tasks -> Nat]
    BY <2>1 DEF TallyTypeOK, Raised
  <2> QED
    BY <2>1, <2>2, <2>3 DEF TallyTypeOK, Raised
<1>8. Answered' = Answered \cup {next} /\ next \notin Answered
  BY <1>2, <1>5, <1>6, OneMoreCase DEF Answered
<1>9. \A task \in Tasks :
        /\ Right(task)' = IF task \in right THEN Right(task) \cup {next} ELSE Right(task)
        /\ Asked(task)' = IF task \in asked THEN Asked(task) \cup {next} ELSE Asked(task)
        /\ next \notin Right(task) /\ next \notin Asked(task)
  BY <1>2, <1>5, <1>6, <1>8, OneMoreCase DEF Right, Asked, Answered, AskedFor
<1>10. \A task \in Tasks : IsFiniteSet(Right(task)) /\ IsFiniteSet(Asked(task))
  <2>1. \A task \in Tasks : Right(task) \in SUBSET Answered /\ Asked(task) \in SUBSET Answered
    BY DEF Right, Asked
  <2>2. IsFiniteSet(Answered)
    BY <1>2, <1>5, <1>6, OneMoreCase
  <2> QED
    BY <2>1, <2>2, FS_Subset
<1>11. /\ Cardinality(Answered') = Cardinality(Answered) + 1 /\ Cardinality(Answered) \in Nat
       /\ \A task \in Tasks :
            /\ Cardinality(Right(task)') = IF task \in right THEN Cardinality(Right(task)) + 1
                                           ELSE Cardinality(Right(task))
            /\ Cardinality(Asked(task)') = IF task \in asked THEN Cardinality(Asked(task)) + 1
                                           ELSE Cardinality(Asked(task))
  <2>1. IsFiniteSet(Answered)
    BY <1>2, <1>5, <1>6, OneMoreCase
  <2>2. Cardinality(Answered') = Cardinality(Answered) + 1 /\ Cardinality(Answered) \in Nat
    BY <1>8, <2>1, FS_AddElement, FS_CardinalityType
  <2>3. \A task \in Tasks :
          /\ Cardinality(Right(task) \cup {next}) = Cardinality(Right(task)) + 1
          /\ Cardinality(Asked(task) \cup {next}) = Cardinality(Asked(task)) + 1
    BY <1>9, <1>10, FS_AddElement
  <2> QED
    BY <1>9, <2>2, <2>3
<1>12. provider' # "not_configured" /\ TurnTypeOK'
  BY <1>2, <1>5, <1>6, <1>7, OneMoreCase DEF BenchmarkInv, TurnTypeOK, Running
<1>13. Counted'
  <2>1. Len(answers') = Len(answers) + 1 /\ Len(answers') <= Cases' /\ Len(answers) \in Nat
    BY <1>2, <1>5, <1>6, OneMoreCase
  <2>2. tally.failures \in Nat /\ tally.latencies \in Nat
    BY <1>7 DEF TallyTypeOK
  <2>3. /\ tally'.failures + Cardinality(Answered') = Len(answers')
        /\ Cardinality(Answered') <= tally'.latencies
    BY <1>7, <1>11, <2>1, <2>2 DEF BenchmarkInv, Counted
  <2>4. \A task \in Tasks : /\ tally.ok[task] = Cardinality(Right(task))
                            /\ tally.total[task] = Cardinality(Asked(task))
    BY DEF BenchmarkInv, Counted
  <2>5. ASSUME NEW task \in Tasks
        PROVE  /\ tally'.ok[task] = Cardinality(Right(task)')
               /\ tally'.total[task] = Cardinality(Asked(task)')
    BY <1>7, <1>11, <2>4
  <2> QED
    BY <1>12, <2>1, <2>3, <2>5 DEF Counted
<1> QED
  BY <1>2, <1>12, <1>13, NothingToShowYet DEF BenchmarkInv

-----------------------------------------------------------------------------
(* The metric *)

\* The index is one of the sorted latencies' and not below their median's.
LEMMA P95WithinLatencies ==
  ASSUME NEW n \in Nat \ {0}
  PROVE  P95Index(n) \in Nat /\ P95Index(n) < n /\ 2 * P95Index(n) + 1 >= n - 1
<1> DEFINE whole == (95 * n) \div 100
           rest == (95 * n) % 100
           rounded == IF rest > 50 \/ (rest = 50 /\ whole % 2 = 1) THEN whole + 1 ELSE whole
<1>1. whole \in Nat /\ rest \in 0..99 /\ 95 * n = 100 * whole + rest
  OBVIOUS
<1>2. rounded \in {whole, whole + 1} /\ (rest < 50 => rounded = whole)
                                     /\ (rest > 50 => rounded = whole + 1)
  BY <1>1
<1>3. P95Index(n) = IF rounded <= 1 THEN 0 ELSE IF rounded > n THEN n - 1 ELSE rounded - 1
  BY DEF P95Index
<1> HIDE DEF whole, rest, rounded
<1> QED
  BY <1>1, <1>2, <1>3

LEMMA FinishKeeps ==
  ASSUME BenchmarkInv, Finish
  PROVE  BenchmarkInv'
<1>1. /\ metric = NoMetric /\ ~Running
      /\ UNCHANGED <<provider, answers, tally>>
  BY DEF Finish
<1>2. /\ Cases \in Nat \ {0} /\ Len(answers) \in Nat /\ DOMAIN answers = 1..Len(answers)
      /\ tally.failures \in Nat /\ tally.latencies \in Nat
  BY CasesPositive DEF BenchmarkInv, TurnTypeOK, TallyTypeOK
<1>3. /\ IsFiniteSet(Answered) /\ Cardinality(Answered) \in Nat
      /\ Cardinality(Answered) = 0 <=> Answered = {}
  <2>1. IsFiniteSet(1..Len(answers))
    BY <1>2, FS_Interval
  <2>2. IsFiniteSet(Answered)
    BY <1>2, <2>1, FS_Subset DEF Answered
  <2> QED
    BY <2>2, FS_CardinalityType, FS_EmptySet
<1>4. /\ TurnTypeOK' /\ Counted' /\ Answered' = Answered /\ Cases' = Cases
      /\ \A task \in Tasks : Right(task)' = Right(task)
  BY <1>1 DEF BenchmarkInv, TurnTypeOK, TallyTypeOK, Counted, Answered, Cases, Right, Asked, AskedFor
<1>5. CASE provider = "not_configured" \/ tally.failures = Cases
  <2>1. Cardinality(Answered) = 0 /\ Answered = {}
    <3>1. CASE provider = "not_configured"
      BY <3>1, <1>2, <1>3 DEF BenchmarkInv, Counted, Answered
    <3>2. CASE tally.failures = Cases
      BY <3>2, <1>2, <1>3 DEF BenchmarkInv, Counted
    <3> QED
      BY <1>5, <3>1, <3>2
  <2>2. metric'.rates = NoRates /\ metric'.status # "measured"
    BY <1>5 DEF Finish
  <2>3. DOMAIN metric'.rates = {}
    BY <2>2 DEF NoRates
  <2>4. RatesAreEarned'
    BY <1>2, <1>4, <2>1, <2>2, <2>3 DEF RatesAreEarned
  <2> QED
    BY <1>4, <2>4 DEF BenchmarkInv
<1>6. CASE ~(provider = "not_configured" \/ tally.failures = Cases)
  <2>1. Len(answers) = Cases
    <3>1. Len(answers) <= Cases /\ ~(Len(answers) < Cases)
      BY <1>1, <1>6 DEF Running, BenchmarkInv, Counted
    <3>2. Cases \in Int /\ Len(answers) \in Int
      BY <1>2
    <3> QED
      BY <3>1, <3>2
  <2>2. /\ Cardinality(Answered) > 0 /\ Answered # {} /\ tally.latencies > 0
        /\ tally.failures = 0 <=> Cardinality(Answered) = Cases
    BY <1>2, <1>3, <1>6, <2>1 DEF BenchmarkInv, Counted
  <2>3. /\ metric'.rates = Rates /\ metric'.p95 = P95Index(tally.latencies)
        /\ metric'.status = "measured" <=> tally.failures = 0
    BY <1>6 DEF Finish
  <2>4. DOMAIN Rates = Tasks /\ Rates # NoRates
    BY DEF Rates, NoRates, Tasks
  <2>5. ASSUME NEW task \in Tasks
        PROVE  /\ Rates[task][1] = Cardinality({n \in Answered : task \in answers[n].right})
               /\ Rates[task][2] =
                    IF task \in {"type", "structured"} THEN Cases
                    ELSE Cardinality({n \in 1..Cases : task \in AskedFor(n)} \cap Answered)
    <3>1. {n \in 1..Cases : task \in AskedFor(n)} \cap Answered = Asked(task)
      BY <1>2, <2>1 DEF Asked, Answered
    <3> QED
      BY <3>1 DEF Rates, BenchmarkInv, Counted, Right
  <2>6. /\ 2 * P95Index(tally.latencies) + 1 >= tally.latencies - 1
        /\ P95Index(tally.latencies) < tally.latencies
    <3>1. tally.latencies \in Nat \ {0}
      BY <1>2, <2>2
    <3> QED
      BY <3>1, P95WithinLatencies
  <2>7. /\ answers' = answers /\ tally' = tally
        /\ \A n : AskedFor(n)' = AskedFor(n)
    BY <1>1 DEF AskedFor
  <2>8. RatesAreEarned'
    BY <1>4, <2>2, <2>3, <2>4, <2>5, <2>6, <2>7 DEF RatesAreEarned
  <2> QED
    BY <1>4, <2>8 DEF BenchmarkInv
<1> QED
  BY <1>5, <1>6

LEMMA NextBenchmark ==
  ASSUME BenchmarkInv, [BenchmarkNext]_benchmarkVars
  PROVE  BenchmarkInv'
<1>1. CASE UNCHANGED benchmarkVars
  <2>1. /\ Answered' = Answered /\ Cases' = Cases /\ UNCHANGED <<provider, answers, tally, metric>>
        /\ \A task : Right(task)' = Right(task) /\ Asked(task)' = Asked(task)
        /\ \A n : AskedFor(n)' = AskedFor(n)
    BY <1>1 DEF benchmarkVars, Answered, Cases, Right, Asked, AskedFor
  <2>2. TurnTypeOK' /\ Counted'
    BY <2>1 DEF BenchmarkInv, TurnTypeOK, TallyTypeOK, Counted
  <2>3. RatesAreEarned'
    BY <2>1 DEF BenchmarkInv, RatesAreEarned
  <2> QED
    BY <2>2, <2>3 DEF BenchmarkInv
<1>2. CASE BenchmarkNext
  BY <1>2, CallFailsKeeps, CaseAnsweredKeeps, FinishKeeps DEF BenchmarkNext
<1> QED
  BY <1>1, <1>2

(* What a benchmark shows of a provider was earned, however many cases it was asked and  *)
(* in whatever order calls failed (benchmark.py): "measured" means that every case was   *)
(* answered, each rate is a count of right answers over the stated cases, and the index  *)
(* of the 95th percentile is one of the latencies taken and not below their median's.    *)
THEOREM RatesEarned == BenchmarkSpec => []RatesAreEarned
<1>1. BenchmarkInv => RatesAreEarned
  BY DEF BenchmarkInv
<1> QED
  BY <1>1, InitBenchmark, NextBenchmark, PTL DEF BenchmarkSpec
=============================================================================
