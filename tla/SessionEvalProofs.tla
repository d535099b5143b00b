--------------------------- MODULE SessionEvalProofs ---------------------------
(***************************************************************************)
(* For any number of traces, sessions, runs, workers, retries and user     *)
(* edits, any weights, negative ones too, and any numbers that annotations *)
(* spell: better signals never score lower, a run holds one score per      *)
(* session and metric however often it is retried, a completed run is      *)
(* complete, and the analytics routes agree.                               *)
(*                                                                         *)
(* The scores are sums, maxima and roots over sets of traces, compared     *)
(* with the lemmas of Sums.  For the runs the inductive invariant says     *)
(* that a run has one task, what a worker has stored for the sessions      *)
(* behind it and nothing for the ones ahead (AtWork), and bounds the rows  *)
(* of a signal by those sessions: a session's batch is committed before    *)
(* the session is done, and a trace may have been moved since.             *)
(***************************************************************************)
EXTENDS SessionEval, Sums

-----------------------------------------------------------------------------
(* Signals and risks.                                                      *)

Inputs == (Traces \X Weighed) \X Readings

\* The assumption on the constants, and the metrics a signal can be weighed for.
LEMMA Constants ==
  /\ IsFiniteSet(Traces) /\ IsFiniteSet(Sessions) /\ IsFiniteSet(Workers) /\ IsFiniteSet(Signals)
  /\ IsFiniteSet(Weighed) /\ \A wt \in Weightings, g \in Weighed : wt[g] \in Int
  /\ IsFiniteSet(Readings) /\ Readings \subseteq Int
  /\ Scale \in Nat /\ Scale # 0 /\ TopK \in Nat /\ TopK >= 1 /\ TopK <= 100
  /\ Signals \subseteq Weighed /\ "confidence" \in Weighed
<1>1. IsFiniteSet(Values) /\ Values \subseteq Int
  BY SessionEvalAssumption, FS_Interval DEF Values
<1>2. IsFiniteSet(Readings) /\ Readings \subseteq Int
  BY <1>1, SessionEvalAssumption, FS_Union DEF Readings
<1> QED BY <1>2, SessionEvalAssumption

\* The signals of a trace are the inputs that name it; there are finitely many.
LEMMA SignalsAre ==
  ASSUME NEW basis \in SUBSET Inputs, NEW t \in Traces
  PROVE  /\ SignalsOf(basis, t) \subseteq Weighed \X Readings
         /\ IsFiniteSet(SignalsOf(basis, t))
         /\ \A b \in basis : b[1][1] = t => <<b[1][2], b[2]>> \in SignalsOf(basis, t)
         /\ \A g \in SignalsOf(basis, t) : <<<<t, g[1]>>, g[2]>> \in basis
<1>1. SignalsOf(basis, t) \subseteq Weighed \X Readings
  BY DEF SignalsOf, Inputs
<1>3. IsFiniteSet(Weighed \X Readings)
  BY Constants, FS_Product
<1>4. IsFiniteSet(SignalsOf(basis, t))
  BY <1>1, <1>3, FS_Subset
<1>5. \A g \in SignalsOf(basis, t) : <<<<t, g[1]>>, g[2]>> \in basis
  BY DEF SignalsOf, Inputs
<1> QED BY <1>1, <1>4, <1>5 DEF SignalsOf

\* A risk is a weight times a distance from the best value, of either sign.
LEMMA RiskType ==
  ASSUME NEW wt \in Weightings, NEW g \in Weighed \X Readings
  PROVE  Risk(wt, g) \in Int
<1>1. PICK a \in Int, x \in Int : a = wt[g[1]] /\ x = g[2]
  BY Constants
<1>2. a * (Scale - x) \in Int
  BY Constants
<1> QED BY <1>1, <1>2 DEF Risk

\* The worse of two values of a signal, in the direction of its weight, is at higher risk.
LEMMA RiskGrows ==
  ASSUME NEW wt \in Weightings, NEW g \in Weighed \X Readings, NEW h \in Weighed \X Readings,
         h[1] = g[1], wt[g[1]] * h[2] <= wt[g[1]] * g[2]
  PROVE  Risk(wt, g) <= Risk(wt, h)
<1>1. PICK a \in Int, x \in Int, y \in Int : a = wt[g[1]] /\ x = g[2] /\ y = h[2]
  BY Constants
<1>2. a * (Scale - x) = a * Scale - a * x /\ a * (Scale - y) = a * Scale - a * y
  BY Constants
<1>3. a * y <= a * x /\ a * y \in Int /\ a * x \in Int /\ a * Scale \in Int
  BY <1>1, Constants
<1>4. a * (Scale - x) <= a * (Scale - y)
  BY <1>2, <1>3
<1> QED BY <1>1, <1>4 DEF Risk

\* The traces a metric can use are finitely many, each with a signal, and for
\* agent_consistency with the confidence.
LEMMA EvaluableAre ==
  ASSUME NEW basis \in SUBSET Inputs, NEW m \in MetricNames
  PROVE  /\ Evaluable(m, basis) \subseteq Traces /\ IsFiniteSet(Evaluable(m, basis))
         /\ \A t \in Evaluable(m, basis) :
              /\ SignalsOf(basis, t) # {}
              /\ m = "agent_consistency" => \E g \in SignalsOf(basis, t) : g[1] = "confidence"
<1>1. Evaluable(m, basis) \subseteq Traces
  BY DEF Evaluable, Inputs
<1>2. ASSUME NEW t \in Evaluable(m, basis)
      PROVE  /\ SignalsOf(basis, t) # {}
             /\ m = "agent_consistency" => \E g \in SignalsOf(basis, t) : g[1] = "confidence"
  <2>1. PICK b \in basis : b[1][1] = t /\ (m = "agent_reliability" \/ b[1][2] = "confidence")
    BY DEF Evaluable
  <2>2. <<b[1][2], b[2]>> \in SignalsOf(basis, t)
    BY <1>1, <2>1, SignalsAre
  <2>3. m = "agent_consistency" => b[1][2] = "confidence"
    BY <2>1
  <2> QED BY <2>2, <2>3
<1> QED BY <1>1, <1>2, Constants, FS_Subset

-----------------------------------------------------------------------------
(* agent_reliability.                                                      *)

Risks(wt, basis, t) == {Risk(wt, g) : g \in SignalsOf(basis, t)}

\* The risk of a step is the largest of finitely many.
LEMMA RisksAre ==
  ASSUME NEW wt \in Weightings, NEW basis \in SUBSET Inputs, NEW t \in Evaluable("agent_reliability", basis)
  PROVE  /\ IsFiniteSet(Risks(wt, basis, t)) /\ Risks(wt, basis, t) # {} /\ Risks(wt, basis, t) \subseteq Int
         /\ StepRisk(wt, basis, t) = Max(Risks(wt, basis, t)) /\ StepRisk(wt, basis, t) \in Int
<1>0. t \in Traces /\ SignalsOf(basis, t) # {}
  BY EvaluableAre DEF MetricNames
<1> DEFINE S == SignalsOf(basis, t)
           h == [g \in S |-> Risk(wt, g)]
<1>1. IsFiniteSet(S) /\ \A g \in S : Risk(wt, g) \in Int
  BY <1>0, SignalsAre, RiskType
<1>2. \A y \in Risks(wt, basis, t) : \E g \in S : y = h[g]
  BY DEF Risks
<1> HIDE DEF h
<1>3. IsFiniteSet(Risks(wt, basis, t))
  BY <1>1, <1>2, FiniteImage
<1>4. Risks(wt, basis, t) # {} /\ Risks(wt, basis, t) \subseteq Int
  BY <1>0, <1>1 DEF Risks
<1>6. Max(Risks(wt, basis, t)) \in Int
  BY <1>3, <1>4, MaxIs
<1> QED BY <1>3, <1>4, <1>6 DEF StepRisk, Risks

\* The tail has at least one trace and no more than there are.
LEMMA TailSizeIs ==
  ASSUME NEW n \in Nat \ {0}
  PROVE  TailSize(n) \in Nat /\ TailSize(n) >= 1 /\ TailSize(n) <= n
<1>1. PICK p \in Nat : p = n * TopK /\ p <= n * 100
  BY Constants, ProductGrows
<1>2. PICK q \in Nat : q = (n * TopK + 99) \div 100 /\ q <= n
  BY <1>1
<1>3. IsFiniteSet({1, q}) /\ {1, q} # {} /\ {1, q} \subseteq Int
  <2>1. {1, q} # {} /\ {1, q} \subseteq Int
    OBVIOUS
  <2> QED BY <2>1, TwoFinite
<1>4. Max({1, q}) \in {1, q} /\ 1 <= Max({1, q})
  BY <1>3, MaxIs
<1> QED BY <1>2, <1>4 DEF TailSize

Tails(risk, k) == {SumFunctionOnSet(risk, S) : S \in kSubset(k, DOMAIN risk)}

\* There is a tail of every size up to the number of traces.
LEMMA TailsAre ==
  ASSUME NEW T, IsFiniteSet(T), NEW risk, DOMAIN risk = T, \A t \in T : risk[t] \in Int,
         NEW k \in 0..Cardinality(T)
  PROVE  IsFiniteSet(Tails(risk, k)) /\ Tails(risk, k) # {} /\ Tails(risk, k) \subseteq Int
<1> DEFINE K == kSubset(k, T)
           h == [S \in K |-> SumFunctionOnSet(risk, S)]
<1>1. K \subseteq SUBSET T /\ IsFiniteSet(K)
  <2>1. K \subseteq SUBSET T
    BY DEF kSubset
  <2> QED BY <2>1, FS_SUBSET, FS_Subset
<1>2. K # {}
  BY SubsetOfSize DEF kSubset
<1>3. ASSUME NEW S \in K PROVE SumFunctionOnSet(risk, S) \in Int
  <2>1. IsFiniteSet(S) /\ \A t \in S : risk[t] \in Int /\ risk[t] <= risk[t]
    BY <1>1, FS_Subset
  <2> QED BY <2>1, SumOfIntegers
<1>4. \A y \in Tails(risk, k) : \E S \in K : y = h[S]
  BY DEF Tails
<1>5. Tails(risk, k) # {} /\ Tails(risk, k) \subseteq Int
  BY <1>2, <1>3 DEF Tails
<1> HIDE DEF K, h
<1>6. IsFiniteSet(Tails(risk, k))
  BY <1>1, <1>4, FiniteImage
<1> QED BY <1>5, <1>6

\* The penalty grows with the risks.
LEMMA PenaltyGrows ==
  ASSUME NEW T, IsFiniteSet(T), T # {},
         NEW risk, DOMAIN risk = T, \A t \in T : risk[t] \in Int,
         NEW worse, DOMAIN worse = T, \A t \in T : worse[t] \in Int /\ risk[t] <= worse[t],
         NEW k \in 1..Cardinality(T)
  PROVE  /\ Penalty(risk, k) \in Int /\ Penalty(worse, k) \in Int
         /\ Penalty(risk, k) <= Penalty(worse, k)
<1>0. Cardinality(T) \in Nat /\ k \in 0..Cardinality(T)
  BY FS_CardinalityType
<1>1. ASSUME NEW f, DOMAIN f = T, \A t \in T : f[t] \in Int
      PROVE  IsFiniteSet(Range(f)) /\ Range(f) # {} /\ Range(f) \subseteq Int
  <2>1. Range(f) # {} /\ Range(f) \subseteq Int
    BY <1>1 DEF Range
  <2>2. \A y \in Range(f) : \E t \in T : y = f[t]
    BY <1>1 DEF Range
  <2> QED BY <2>1, <2>2, FiniteImage
<1>2. PICK a, b : a = Max(Tails(risk, k)) /\ b = Max(Tails(worse, k))
  OBVIOUS
<1>3. a \in Int /\ b \in Int /\ a <= b
  <2>1. /\ IsFiniteSet(Tails(risk, k)) /\ Tails(risk, k) # {} /\ Tails(risk, k) \subseteq Int
        /\ IsFiniteSet(Tails(worse, k)) /\ Tails(worse, k) # {} /\ Tails(worse, k) \subseteq Int
    BY <1>0, TailsAre
  <2>2. ASSUME NEW x \in Tails(risk, k) PROVE \E y \in Tails(worse, k) : x <= y
    <3>1. PICK S \in kSubset(k, T) : x = SumFunctionOnSet(risk, S)
      BY DEF Tails
    <3>2. S \subseteq T /\ IsFiniteSet(S)
      BY <3>1, FS_Subset DEF kSubset
    <3>3. \A t \in S : risk[t] \in Int /\ worse[t] \in Int /\ risk[t] <= worse[t]
      BY <3>2
    <3>5. SumFunctionOnSet(risk, S) <= SumFunctionOnSet(worse, S)
      BY <3>2, <3>3, SumOfIntegers
    <3>6. SumFunctionOnSet(worse, S) \in Tails(worse, k)
      BY DEF Tails
    <3> QED BY <3>1, <3>5, <3>6
  <2>4. Max(Tails(risk, k)) <= Max(Tails(worse, k))
    BY <2>1, <2>2, MaxGrows
  <2>5. a \in Tails(risk, k) /\ b \in Tails(worse, k)
    BY <1>2, <2>1, MaxIs
  <2> QED BY <1>2, <2>1, <2>4, <2>5
<1>4. PICK c, d : c = Max(Range(risk)) /\ d = Max(Range(worse))
  OBVIOUS
<1>5. c \in Int /\ d \in Int /\ c <= d
  <2>1. /\ IsFiniteSet(Range(risk)) /\ Range(risk) # {} /\ Range(risk) \subseteq Int
        /\ IsFiniteSet(Range(worse)) /\ Range(worse) # {} /\ Range(worse) \subseteq Int
    BY <1>1
  <2>2. \A x \in Range(risk) : \E y \in Range(worse) : x <= y
    BY DEF Range
  <2>4. Max(Range(risk)) <= Max(Range(worse))
    BY <2>1, <2>2, MaxGrows
  <2>5. c \in Range(risk) /\ d \in Range(worse)
    BY <1>4, <2>1, MaxIs
  <2> QED BY <1>4, <2>1, <2>4, <2>5
<1>6. k * c \in Int /\ k * d \in Int /\ k * c <= k * d
  <2>1. PICK e \in Nat : d = c + e
    <3>1. d - c \in Nat /\ d = c + (d - c)
      BY <1>5
    <3> QED BY <3>1
  <2>2. k \in Nat /\ k * d = k * c + k * e /\ k * c \in Int
    BY <1>0, <1>5, <2>1
  <2>3. k * e \in Nat
    BY <2>1, <2>2, ProductGrows
  <2> QED BY <2>2, <2>3
<1>7. PICK x \in Int, y \in Int : x = (9 * a + k * c) * 10 /\ y = (9 * b + k * d) * 10 /\ x <= y
  <2>1. PICK p \in Int, q \in Int : p = k * c /\ q = k * d /\ p <= q
    BY <1>6
  <2>2. (9 * a + p) * 10 \in Int /\ (9 * b + q) * 10 \in Int /\ (9 * a + p) * 10 <= (9 * b + q) * 10
    BY <1>3, <2>1
  <2> QED BY <2>1, <2>2
<1>8. k * Scale \in Nat \ {0}
  BY <1>0, Constants
<1>9. x \div (k * Scale) \in Int /\ y \div (k * Scale) \in Int /\ x \div (k * Scale) <= y \div (k * Scale)
  BY <1>7, <1>8, IntQuotientGrows
<1>10. Penalty(risk, k) = x \div (k * Scale)
  BY <1>2, <1>4, <1>7 DEF Penalty, Tails
<1>11. Penalty(worse, k) = y \div (k * Scale)
  BY <1>2, <1>4, <1>7 DEF Penalty, Tails
<1> QED BY <1>9, <1>10, <1>11

\* The risks of the traces, as a function.
LEMMA RisksOf ==
  ASSUME NEW wt \in Weightings, NEW basis \in SUBSET Inputs, NEW T, T = Evaluable("agent_reliability", basis),
         NEW risk, risk = [t \in T |-> StepRisk(wt, basis, t)]
  PROVE  IsFiniteSet(T) /\ DOMAIN risk = T /\ \A t \in T : risk[t] \in Int /\ risk[t] = StepRisk(wt, basis, t)
<1>1. IsFiniteSet(T)
  BY EvaluableAre DEF MetricNames
<1>2. \A t \in T : StepRisk(wt, basis, t) \in Int
  BY RisksAre
<1> QED BY <1>1, <1>2

\* The tail of a nonempty set of traces exists.
LEMMA TailIn ==
  ASSUME NEW T, IsFiniteSet(T), T # {}
  PROVE  TailSize(Cardinality(T)) \in 1..Cardinality(T)
<1>1. Cardinality(T) \in Nat \ {0}
  BY FS_CardinalityType, FS_EmptySet
<1> QED BY <1>1, TailSizeIs

Clipped(z) == Max({0, Min({1000, z})})

\* A score is clipped to 0 and 1, which keeps the order.
LEMMA ClippedIs ==
  ASSUME NEW z \in Int
  PROVE  Clipped(z) = IF z < 0 THEN 0 ELSE IF z > 1000 THEN 1000 ELSE z
<1>1. Min({1000, z}) = IF z > 1000 THEN 1000 ELSE z
  <2>1. \E x \in {1000, z} : \A y \in {1000, z} : x <= y
    OBVIOUS
  <2>2. Min({1000, z}) \in {1000, z} /\ \A y \in {1000, z} : Min({1000, z}) <= y
    BY <2>1 DEF Min
  <2> QED BY <2>2
<1>2. PICK v \in Int : v = Min({1000, z})
  BY <1>1
<1>3. IsFiniteSet({0, v}) /\ {0, v} # {} /\ {0, v} \subseteq Int
  <2>1. IsFiniteSet({0, v})
    BY TwoFinite, Zenon
  <2> QED BY <2>1
<1>4. Max({0, v}) \in {0, v} /\ 0 <= Max({0, v}) /\ v <= Max({0, v})
  BY <1>3, MaxIs
<1>5. Clipped(z) = Max({0, v})
  BY <1>2 DEF Clipped
<1> QED BY <1>1, <1>2, <1>4, <1>5

\* agent_reliability is between 0 and 1.
LEMMA ReliabilityType ==
  ASSUME NEW wt \in Weightings, NEW basis \in SUBSET Inputs
  PROVE  Reliability(wt, basis) \in 0..1000
<1>1. PICK T : T = Evaluable("agent_reliability", basis)
  OBVIOUS
<1>2. PICK risk : risk = [t \in T |-> StepRisk(wt, basis, t)]
  OBVIOUS
<1>3. IsFiniteSet(T) /\ DOMAIN risk = T /\ \A t \in T : risk[t] \in Int /\ risk[t] <= risk[t]
  BY <1>1, <1>2, RisksOf
<1>4. CASE T = {}
  BY <1>1, <1>4 DEF Reliability
<1>5. CASE T # {}
  <2>1. PICK k \in 1..Cardinality(T) : k = TailSize(Cardinality(T))
    BY <1>3, <1>5, TailIn
  <2>2. Penalty(risk, k) \in Int
    BY <1>3, <1>5, <2>1, PenaltyGrows
  <2>3. Reliability(wt, basis) = Clipped(1000 - Penalty(risk, k))
    BY <1>1, <1>2, <1>5, <2>1 DEF Reliability, Clipped
  <2>4. PICK z \in Int : z = 1000 - Penalty(risk, k)
    BY <2>2
  <2>5. Clipped(z) \in 0..1000
    BY ClippedIs
  <2> QED BY <2>3, <2>4, <2>5
<1> QED BY <1>4, <1>5

\* c has every signal of d, each no better.
Worse(wt, c, d) ==
  \A g \in d : \E h \in c : h[1] = g[1] /\ wt[g[1][2]] * h[2] <= wt[g[1][2]] * g[2]

\* Every signal of the better input is in the worse one, with no less risk.
LEMMA WorseSignals ==
  ASSUME NEW wt \in Weightings, NEW c \in SUBSET Inputs, NEW d \in SUBSET Inputs, Worse(wt, c, d), NEW t \in Traces,
         NEW g \in SignalsOf(d, t)
  PROVE  \E h \in SignalsOf(c, t) : h[1] = g[1] /\ Risk(wt, g) <= Risk(wt, h)
<1>1. <<<<t, g[1]>>, g[2]>> \in d
  BY SignalsAre
<1>2. PICK x \in c : x[1] = <<t, g[1]>> /\ wt[g[1]] * x[2] <= wt[g[1]] * g[2]
  BY <1>1 DEF Worse
<1>3. x[1][1] = t /\ x[1][2] = g[1]
  BY <1>2
<1>4. <<g[1], x[2]>> \in SignalsOf(c, t)
  BY <1>3, SignalsAre
<1>5. PICK h \in SignalsOf(c, t) : h = <<g[1], x[2]>>
  BY <1>4
<1>6. h[1] = g[1] /\ wt[g[1]] * h[2] <= wt[g[1]] * g[2]
  BY <1>2, <1>5
<1>7. g \in Weighed \X Readings /\ h \in Weighed \X Readings
  BY SignalsAre
<1> QED BY <1>6, <1>7, RiskGrows

\* agent_reliability never falls when the signals get better.
LEMMA ReliabilityGrows ==
  ASSUME NEW wt \in Weightings, NEW c \in SUBSET Inputs, NEW d \in SUBSET Inputs, Worse(wt, c, d),
         Evaluable("agent_reliability", c) = Evaluable("agent_reliability", d)
  PROVE  Reliability(wt, c) <= Reliability(wt, d)
<1>1. PICK T : T = Evaluable("agent_reliability", c)
  OBVIOUS
<1>2. PICK risk, worse : risk = [t \in T |-> StepRisk(wt, d, t)] /\ worse = [t \in T |-> StepRisk(wt, c, t)]
  OBVIOUS
<1>3. /\ IsFiniteSet(T) /\ DOMAIN risk = T /\ \A t \in T : risk[t] \in Int /\ risk[t] = StepRisk(wt, d, t)
      /\ DOMAIN worse = T /\ \A t \in T : worse[t] \in Int /\ worse[t] = StepRisk(wt, c, t)
  BY <1>1, <1>2, RisksOf
<1>4. ASSUME NEW t \in T PROVE risk[t] <= worse[t]
  <2>1. t \in Traces
    BY <1>1, EvaluableAre DEF MetricNames
  <2>2. /\ IsFiniteSet(Risks(wt, d, t)) /\ Risks(wt, d, t) # {} /\ Risks(wt, d, t) \subseteq Int
        /\ IsFiniteSet(Risks(wt, c, t)) /\ Risks(wt, c, t) # {} /\ Risks(wt, c, t) \subseteq Int
        /\ StepRisk(wt, d, t) = Max(Risks(wt, d, t)) /\ StepRisk(wt, c, t) = Max(Risks(wt, c, t))
    BY <1>1, RisksAre
  <2>3. ASSUME NEW x \in Risks(wt, d, t) PROVE \E y \in Risks(wt, c, t) : x <= y
    <3>1. PICK g \in SignalsOf(d, t) : x = Risk(wt, g)
      BY DEF Risks
    <3>2. PICK h \in SignalsOf(c, t) : Risk(wt, g) <= Risk(wt, h)
      BY <2>1, WorseSignals
    <3> QED BY <3>1, <3>2 DEF Risks
  <2> QED BY <1>3, <2>2, <2>3, MaxGrows
<1>5. CASE T = {}
  BY <1>1, <1>5 DEF Reliability
<1>6. CASE T # {}
  <2>1. PICK k \in 1..Cardinality(T) : k = TailSize(Cardinality(T))
    BY <1>3, <1>6, TailIn
  <2>2. /\ Penalty(risk, k) \in Int /\ Penalty(worse, k) \in Int
        /\ Penalty(risk, k) <= Penalty(worse, k)
    BY <1>3, <1>4, <1>6, <2>1, PenaltyGrows
  <2>3. Reliability(wt, c) = Clipped(1000 - Penalty(worse, k)) /\ Reliability(wt, d) = Clipped(1000 - Penalty(risk, k))
    <3>1. T = Evaluable("agent_reliability", d)
      BY <1>1
    <3>2. Reliability(wt, c) = Clipped(1000 - Penalty(worse, k))
      BY <1>1, <1>2, <1>6, <2>1 DEF Reliability, Clipped
    <3>3. Reliability(wt, d) = Clipped(1000 - Penalty(risk, k))
      BY <1>2, <1>6, <2>1, <3>1 DEF Reliability, Clipped
    <3> QED BY <3>2, <3>3
  <2>4. PICK x \in Int, y \in Int : x = 1000 - Penalty(worse, k) /\ y = 1000 - Penalty(risk, k) /\ x <= y
    BY <2>2
  <2>5. Clipped(x) <= Clipped(y)
    BY <2>4, ClippedIs
  <2> QED BY <2>3, <2>4, <2>5
<1> QED BY <1>5, <1>6

-----------------------------------------------------------------------------
(* agent_consistency.                                                      *)

\* The uncertainty of a trace: the risk of its confidence, amplified by its other signals.
LEMMA UncertaintyIs ==
  ASSUME NEW wt \in Weightings, NEW basis \in SUBSET Inputs, NEW t \in Evaluable("agent_consistency", basis),
         NEW f, f = [g \in Amplifiers(basis, t) |-> Risk(wt, g)]
  PROVE  /\ t \in Traces
         /\ Amplifiers(basis, t) \subseteq SignalsOf(basis, t) /\ IsFiniteSet(Amplifiers(basis, t))
         /\ \A g \in Amplifiers(basis, t) : f[g] \in Int /\ f[g] = Risk(wt, g)
         /\ SumFunctionOnSet(f, Amplifiers(basis, t)) \in Int
         /\ Confidence(basis, t) \in SignalsOf(basis, t) /\ Confidence(basis, t)[1] = "confidence"
         /\ Risk(wt, Confidence(basis, t)) \in Int
         /\ Uncertainty(wt, basis, t)
              = (10 * Scale + SumFunctionOnSet(f, Amplifiers(basis, t))) * Risk(wt, Confidence(basis, t))
         /\ Uncertainty(wt, basis, t) \in Int
<1>1. t \in Traces /\ \E g \in SignalsOf(basis, t) : g[1] = "confidence"
  BY EvaluableAre DEF MetricNames
<1>2. PICK A : A = Amplifiers(basis, t)
  OBVIOUS
<1>3. A \subseteq SignalsOf(basis, t)
  BY <1>2 DEF Amplifiers
<1>4. IsFiniteSet(A) /\ \A g \in SignalsOf(basis, t) : Risk(wt, g) \in Int
  BY <1>1, <1>3, SignalsAre, RiskType, FS_Subset
<1>5. \A g \in A : f[g] \in Int /\ f[g] = Risk(wt, g)
  BY <1>2, <1>3, <1>4
<1>6. PICK x : x = SumFunctionOnSet(f, A)
  OBVIOUS
<1>7. x \in Int
  <2>1. \A g \in A : f[g] \in Int /\ f[g] <= f[g]
    BY <1>5
  <2> QED BY <1>4, <1>6, <2>1, SumOfIntegers
<1>8. Confidence(basis, t) \in SignalsOf(basis, t) /\ Confidence(basis, t)[1] = "confidence"
  BY <1>1 DEF Confidence
<1>9. PICK y \in Int : y = Risk(wt, Confidence(basis, t))
  BY <1>4, <1>8
<1>10. SumFunction(f) = x
  <2>1. DOMAIN f = A
    BY <1>2
  <2> QED BY <1>6, <2>1, SumWritten
<1>11. Uncertainty(wt, basis, t) = (10 * Scale + x) * y
  BY <1>9, <1>10 DEF Uncertainty
<1>12. (10 * Scale + x) * y \in Int
  <2>1. 10 * Scale + x \in Int
    BY <1>7, Constants
  <2> QED BY <2>1
<1> QED BY <1>1, <1>2, <1>3, <1>4, <1>5, <1>6, <1>7, <1>8, <1>9, <1>11, <1>12

\* At most one value for a signal of a trace.
Functional(c) == \A x, y \in c : x[1] = y[1] => x = y
\* No signal at a risk below zero.
NoneBelow(wt, c) == \A x \in c : Risk(wt, <<x[1][2], x[2]>>) >= 0

\* A trace with worse signals is no less uncertain.
LEMMA UncertaintyGrows ==
  ASSUME NEW wt \in Weightings, NEW c \in SUBSET Inputs, NEW d \in SUBSET Inputs, Worse(wt, c, d), Functional(c), Functional(d),
         NoneBelow(wt, c), NoneBelow(wt, d), NEW t \in Evaluable("agent_consistency", c), t \in Evaluable("agent_consistency", d)
  PROVE  /\ Uncertainty(wt, d, t) \in Nat /\ Uncertainty(wt, c, t) \in Nat
         /\ Uncertainty(wt, d, t) <= Uncertainty(wt, c, t)
<1>1. PICK f, e : f = [g \in Amplifiers(d, t) |-> Risk(wt, g)] /\ e = [g \in Amplifiers(c, t) |-> Risk(wt, g)]
  OBVIOUS
<1>2. t \in Traces
  BY <1>1, UncertaintyIs
<1>3. PICK A, B : A = Amplifiers(d, t) /\ B = Amplifiers(c, t)
  OBVIOUS
<1>0. ASSUME NEW b \in {c, d}, NEW g \in SignalsOf(b, t) PROVE Risk(wt, g) \in Nat
  <2>1. b \in SUBSET Inputs /\ NoneBelow(wt, b)
    OBVIOUS
  <2>2. g \in Weighed \X Readings /\ <<<<t, g[1]>>, g[2]>> \in b
    BY <1>2, <2>1, SignalsAre
  <2>3. Risk(wt, g) \in Int
    BY <2>2, RiskType
  <2>4. Risk(wt, <<g[1], g[2]>>) >= 0
    BY <2>1, <2>2 DEF NoneBelow
  <2>5. g = <<g[1], g[2]>>
    BY <2>2
  <2> QED BY <2>3, <2>4, <2>5
<1>4. /\ IsFiniteSet(A) /\ A \subseteq SignalsOf(d, t) /\ \A g \in A : f[g] \in Nat /\ f[g] = Risk(wt, g)
      /\ SumFunctionOnSet(f, A) \in Nat /\ Risk(wt, Confidence(d, t)) \in Nat
      /\ Confidence(d, t) \in SignalsOf(d, t) /\ Confidence(d, t)[1] = "confidence"
      /\ Uncertainty(wt, d, t) = (10 * Scale + SumFunctionOnSet(f, A)) * Risk(wt, Confidence(d, t))
  <2>1. /\ IsFiniteSet(A) /\ A \subseteq SignalsOf(d, t) /\ \A g \in A : f[g] = Risk(wt, g)
        /\ Confidence(d, t) \in SignalsOf(d, t) /\ Confidence(d, t)[1] = "confidence"
        /\ Uncertainty(wt, d, t) = (10 * Scale + SumFunctionOnSet(f, A)) * Risk(wt, Confidence(d, t))
    BY <1>1, <1>3, UncertaintyIs
  <2>2. \A g \in A : f[g] \in Nat
    BY <1>0, <2>1
  <2> QED BY <1>0, <2>1, <2>2, SumType
<1>5. /\ IsFiniteSet(B) /\ B \subseteq SignalsOf(c, t) /\ \A g \in B : e[g] \in Nat /\ e[g] = Risk(wt, g)
      /\ SumFunctionOnSet(e, B) \in Nat /\ Risk(wt, Confidence(c, t)) \in Nat
      /\ Confidence(c, t) \in SignalsOf(c, t) /\ Confidence(c, t)[1] = "confidence"
      /\ Uncertainty(wt, c, t) = (10 * Scale + SumFunctionOnSet(e, B)) * Risk(wt, Confidence(c, t))
  <2>1. /\ IsFiniteSet(B) /\ B \subseteq SignalsOf(c, t) /\ \A g \in B : e[g] = Risk(wt, g)
        /\ Confidence(c, t) \in SignalsOf(c, t) /\ Confidence(c, t)[1] = "confidence"
        /\ Uncertainty(wt, c, t) = (10 * Scale + SumFunctionOnSet(e, B)) * Risk(wt, Confidence(c, t))
    BY <1>1, <1>3, UncertaintyIs
  <2>2. \A g \in B : e[g] \in Nat
    BY <1>0, <2>1
  <2> QED BY <1>0, <2>1, <2>2, SumType
<1>6. ASSUME NEW b \in {c, d}, NEW g \in SignalsOf(b, t), NEW h \in SignalsOf(b, t), g[1] = h[1]
      PROVE  g = h
  <2>1. b \in SUBSET Inputs /\ Functional(b)
    OBVIOUS
  <2>2. PICK x \in b, y \in b : x = <<<<t, g[1]>>, g[2]>> /\ y = <<<<t, h[1]>>, h[2]>>
    BY <1>2, <2>1, SignalsAre
  <2>3. x = y
    BY <1>6, <2>1, <2>2 DEF Functional
  <2>4. g[2] = h[2]
    BY <2>2, <2>3
  <2>5. g \in Weighed \X Readings /\ h \in Weighed \X Readings
    BY <1>2, <2>1, SignalsAre
  <2> QED BY <1>6, <2>4, <2>5
<1>7. Risk(wt, Confidence(d, t)) <= Risk(wt, Confidence(c, t))
  <2>1. PICK h \in SignalsOf(c, t) : h[1] = "confidence" /\ Risk(wt, Confidence(d, t)) <= Risk(wt, h)
    BY <1>2, <1>4, WorseSignals
  <2>2. h = Confidence(c, t)
    BY <1>5, <1>6, <2>1
  <2> QED BY <2>1, <2>2
<1>8. SumFunctionOnSet(f, A) <= SumFunctionOnSet(e, B)
  <2> DEFINE Above(g, h) == h[1] = g[1] /\ Risk(wt, g) <= Risk(wt, h)
             up == [g \in A |-> CHOOSE h \in SignalsOf(c, t) : Above(g, h)]
  <2>1. ASSUME NEW g \in A
        PROVE  up[g] \in B /\ up[g][1] = g[1] /\ f[g] <= e[up[g]]
    <3>1. \E h \in SignalsOf(c, t) : Above(g, h)
      BY <1>2, <1>4, WorseSignals
    <3>2. up[g] \in SignalsOf(c, t) /\ Above(g, up[g])
      BY <3>1
    <3> HIDE DEF up
    <3>3. g[1] # "confidence"
      BY <1>3 DEF Amplifiers
    <3>4. up[g] \in B
      BY <1>3, <3>2, <3>3 DEF Amplifiers
    <3> QED BY <1>4, <1>5, <3>2, <3>4
  <2> HIDE DEF up
  <2>2. ASSUME NEW g \in A, NEW h \in A, up[g] = up[h] PROVE g = h
    <3>1. g[1] = h[1]
      BY <2>1, <2>2
    <3> QED BY <1>4, <1>6, <3>1
  <2> QED BY <1>4, <1>5, <2>1, <2>2, SumGrows
<1>9. PICK x \in Nat, y \in Nat : x = 10 * Scale + SumFunctionOnSet(f, A)
                               /\ y = 10 * Scale + SumFunctionOnSet(e, B) /\ x <= y
  <2>1. 10 * Scale \in Nat
    BY Constants
  <2> QED BY <1>4, <1>5, <1>8, <2>1
<1>10. /\ x * Risk(wt, Confidence(d, t)) \in Nat /\ y * Risk(wt, Confidence(c, t)) \in Nat
       /\ x * Risk(wt, Confidence(d, t)) <= y * Risk(wt, Confidence(c, t))
  BY <1>4, <1>5, <1>7, <1>9, ProductGrows
<1> QED BY <1>4, <1>5, <1>9, <1>10

\* The root of a mean is the largest number whose square is not above it.
LEMMA RootMeanIs ==
  ASSUME NEW total \in Nat, NEW n \in Nat
  PROVE  /\ One \in Nat \ {0}
         /\ RootMean(total, n) \in 0..One
         /\ RootMean(total, n) * RootMean(total, n) * n <= total
         /\ \A x \in 0..One : x * x * n <= total => x <= RootMean(total, n)
<1>1. One \in Nat \ {0}
  BY Constants DEF One
<1> DEFINE X == {x \in 0..One : x * x * n <= total}
<1>2. 0 \in X
  BY <1>1
<1>3. X \subseteq 0..One /\ IsFiniteSet(X)
  <2>1. IsFiniteSet(0..One)
    BY <1>1, FS_Interval
  <2> QED BY <2>1, FS_Subset
<1>4. X # {} /\ X \subseteq Int
  BY <1>2
<1> HIDE DEF X
<1>5. Max(X) \in X /\ \A x \in X : x <= Max(X)
  BY <1>3, <1>4, MaxIs
<1>6. RootMean(total, n) = Max(X)
  BY DEF RootMean, X
<1>7. RootMean(total, n) \in X /\ \A x \in X : x <= RootMean(total, n)
  BY <1>5, <1>6
<1> QED BY <1>1, <1>7 DEF X

Squares(wt, basis) ==
  [t \in Evaluable("agent_consistency", basis) |-> Uncertainty(wt, basis, t) * Uncertainty(wt, basis, t)]

\* The squares of the uncertainties, and their sum.
LEMMA SquaresAre ==
  ASSUME NEW wt \in Weightings, NEW basis \in SUBSET Inputs, NEW T, T = Evaluable("agent_consistency", basis)
  PROVE  /\ IsFiniteSet(T) /\ DOMAIN Squares(wt, basis) = T /\ Cardinality(T) \in Nat
         /\ \A t \in T : /\ Squares(wt, basis)[t] = Uncertainty(wt, basis, t) * Uncertainty(wt, basis, t)
                         /\ Uncertainty(wt, basis, t) \in Int /\ Squares(wt, basis)[t] \in Nat
         /\ SumFunction(Squares(wt, basis)) = SumFunctionOnSet(Squares(wt, basis), T)
         /\ SumFunction(Squares(wt, basis)) \in Nat
<1>1. IsFiniteSet(T)
  BY EvaluableAre DEF MetricNames
<1>2. \A t \in T : Uncertainty(wt, basis, t) \in Int
  BY UncertaintyIs
<1>3. PICK q : q = Squares(wt, basis)
  OBVIOUS
<1>4. DOMAIN q = T /\ \A t \in T : q[t] = Uncertainty(wt, basis, t) * Uncertainty(wt, basis, t)
  BY <1>3 DEF Squares
<1>5. \A t \in T : q[t] \in Nat
  BY <1>2, <1>4, SquareIs
<1>6. SumFunction(q) = SumFunctionOnSet(q, T)
  BY <1>4, SumWritten
<1>7. SumFunctionOnSet(q, T) \in Nat
  BY <1>1, <1>5, SumType
<1> QED BY <1>1, <1>2, <1>3, <1>4, <1>5, <1>6, <1>7, FS_CardinalityType

\* agent_consistency in terms of the root mean square.
LEMMA ConsistencyIs ==
  ASSUME NEW wt \in Weightings, NEW basis \in SUBSET Inputs, Evaluable("agent_consistency", basis) # {},
         NEW x, x = RootMean(SumFunction(Squares(wt, basis)), Cardinality(Evaluable("agent_consistency", basis)))
  PROVE  /\ x \in 0..One /\ One \in Nat \ {0} /\ Consistency(wt, basis) = ((One - x) * 1000) \div One
<1>1. x \in 0..One /\ One \in Nat \ {0}
  BY SquaresAre, RootMeanIs
<1> QED BY <1>1 DEF Consistency, Squares

\* agent_consistency is between 0 and 1.
LEMMA ConsistencyType ==
  ASSUME NEW wt \in Weightings, NEW basis \in SUBSET Inputs
  PROVE  Consistency(wt, basis) \in 0..1000
<1>1. CASE Evaluable("agent_consistency", basis) = {}
  BY <1>1 DEF Consistency
<1>2. CASE Evaluable("agent_consistency", basis) # {}
  <2>1. PICK x : x = RootMean(SumFunction(Squares(wt, basis)), Cardinality(Evaluable("agent_consistency", basis)))
    OBVIOUS
  <2>2. x \in 0..One /\ One \in Nat \ {0} /\ Consistency(wt, basis) = ((One - x) * 1000) \div One
    BY <1>2, <2>1, ConsistencyIs
  <2>3. One - x \in Nat /\ One - x <= One
    BY <2>2
  <2>4. ((One - x) * 1000) \div One \in 0..1000
    BY <2>2, <2>3, QuotientBound
  <2> QED BY <2>2, <2>4
<1> QED BY <1>1, <1>2

\* agent_consistency never falls when the signals get better.
LEMMA ConsistencyGrows ==
  ASSUME NEW wt \in Weightings, NEW c \in SUBSET Inputs, NEW d \in SUBSET Inputs, Worse(wt, c, d), Functional(c), Functional(d),
         NoneBelow(wt, c), NoneBelow(wt, d), Evaluable("agent_consistency", c) = Evaluable("agent_consistency", d)
  PROVE  Consistency(wt, c) <= Consistency(wt, d)
<1>1. PICK T : T = Evaluable("agent_consistency", c)
  OBVIOUS
<1>2. CASE T = {}
  BY <1>1, <1>2 DEF Consistency
<1>3. CASE T # {}
  <2>1. PICK p, q, n : p = Squares(wt, d) /\ q = Squares(wt, c) /\ n = Cardinality(T)
    OBVIOUS
  <2>2. /\ IsFiniteSet(T) /\ n \in Nat
        /\ \A t \in T : /\ p[t] = Uncertainty(wt, d, t) * Uncertainty(wt, d, t) /\ p[t] \in Nat
                        /\ Uncertainty(wt, d, t) \in Int
        /\ SumFunction(p) = SumFunctionOnSet(p, T) /\ SumFunction(p) \in Nat
    BY <1>1, <2>1, SquaresAre
  <2>3. /\ \A t \in T : /\ q[t] = Uncertainty(wt, c, t) * Uncertainty(wt, c, t) /\ q[t] \in Nat
                        /\ Uncertainty(wt, c, t) \in Int
        /\ SumFunction(q) = SumFunctionOnSet(q, T) /\ SumFunction(q) \in Nat
    BY <1>1, <2>1, SquaresAre
  <2>4. \A t \in T : /\ Uncertainty(wt, d, t) \in Nat /\ Uncertainty(wt, c, t) \in Nat
                    /\ Uncertainty(wt, d, t) <= Uncertainty(wt, c, t)
    BY <1>1, UncertaintyGrows
  <2>5. \A t \in T : p[t] <= q[t]
    BY <2>2, <2>3, <2>4, ProductGrows
  <2>6. SumFunction(p) <= SumFunction(q)
    <3> DEFINE id == [t \in T |-> t]
    <3>1. /\ \A t \in T : id[t] \in T /\ p[t] <= q[id[t]]
          /\ \A t, u \in T : id[t] = id[u] => t = u
      BY <2>5
    <3> HIDE DEF id
    <3>2. SumFunctionOnSet(p, T) <= SumFunctionOnSet(q, T)
      BY <2>2, <2>3, <3>1, SumGrows
    <3> QED BY <2>2, <2>3, <3>2
  <2>7. PICK x, y : x = RootMean(SumFunction(p), n) /\ y = RootMean(SumFunction(q), n)
    OBVIOUS
  <2>8. /\ x \in 0..One /\ x * x * n <= SumFunction(p) /\ One \in Nat \ {0}
        /\ y \in 0..One /\ \A z \in 0..One : z * z * n <= SumFunction(q) => z <= y
    BY <2>2, <2>3, <2>7, RootMeanIs
  <2>9. x <= y
    <3>1. PICK u \in Nat : u = x * x * n
      BY <2>2, <2>8, ProductGrows
    <3>2. u <= SumFunction(q)
      BY <2>2, <2>3, <2>6, <2>8, <3>1
    <3> QED BY <2>8, <3>1, <3>2
  <2>10. PICK a \in Nat, b \in Nat : a = (One - y) * 1000 /\ b = (One - x) * 1000 /\ a <= b
    BY <2>8, <2>9
  <2>11. a \div One <= b \div One
    BY <2>8, <2>10, QuotientGrows
  <2>12. Consistency(wt, c) = a \div One
    BY <1>1, <1>3, <2>1, <2>7, <2>10, ConsistencyIs
  <2>13. Consistency(wt, d) = b \div One
    BY <1>1, <1>3, <2>1, <2>7, <2>10, ConsistencyIs
  <2> QED BY <2>11, <2>12, <2>13
<1> QED BY <1>2, <1>3

\* A session score is between 0 and 1.
LEMMA AggregateType ==
  ASSUME NEW wt \in Weightings, NEW basis \in SUBSET Inputs, NEW m
  PROVE  Aggregate(m, wt, basis) \in 0..1000
BY ReliabilityType, ConsistencyType DEF Aggregate

\* Better signals never give a lower score: both metrics grow with every signal they are
\* given, agent_consistency as long as no risk is negative, and a signal that is missing is
\* skipped, so it cannot lower the score.
LEMMA AggregateGrows ==
  ASSUME NEW wt \in Weightings, NEW m \in MetricNames, NEW c \in Bases, NEW d \in Bases,
         Evaluable(m, c) = Evaluable(m, d), Worse(wt, c, d),
         m = "agent_consistency" => NoneBelow(wt, c) /\ NoneBelow(wt, d)
  PROVE  Aggregate(m, wt, c) <= Aggregate(m, wt, d)
<1>1. c \in SUBSET Inputs /\ d \in SUBSET Inputs /\ Functional(c) /\ Functional(d)
  BY DEF Bases, Inputs, Functional
<1>2. CASE m = "agent_reliability"
  BY <1>1, <1>2, ReliabilityGrows DEF Aggregate
<1>3. CASE m = "agent_consistency"
  BY <1>1, <1>3, ConsistencyGrows DEF Aggregate
<1> QED BY <1>2, <1>3 DEF MetricNames

\* BetterSignalsScoreHigher (agent_reliability/metric.py, agent_consistency/metric.py): of two
\* inputs about the same traces, the one with fewer or better signals scores at least as high,
\* for any weights of either sign, scale, tail and number of traces, and for signals that spell
\* any integer; of agent_consistency only the inputs without a negative risk.
THEOREM BetterScoresHigher == Spec => []BetterSignalsScoreHigher
<1>1. ASSUME NEW m \in MetricNames, NEW wt \in Weightings, NEW c \in Bases, NEW d \in Bases,
             Evaluable(m, c) = Evaluable(m, d),
             \A g \in d : \E h \in c : h[1] = g[1] /\ wt[g[1][2]] * h[2] <= wt[g[1][2]] * g[2],
             m = "agent_consistency" => \A b \in c \cup d : Risk(wt, <<b[1][2], b[2]>>) >= 0
      PROVE  Aggregate(m, wt, c) <= Aggregate(m, wt, d)
  <2>1. Worse(wt, c, d)
    BY <1>1, Zenon DEF Worse
  <2>2. m = "agent_consistency" => NoneBelow(wt, c) /\ NoneBelow(wt, d)
    BY <1>1, Zenon DEF NoneBelow
  <2> QED BY <1>1, <2>1, <2>2, AggregateGrows
<1>2. BetterSignalsScoreHigher
  BY <1>1, Zenon DEF BetterSignalsScoreHigher
<1> QED BY <1>2, PTL

-----------------------------------------------------------------------------
(* The inductive invariant.                                                *)

Message == [run : Runs, try : 0..MaxRetries]
PlanType == [sessions : SUBSET Sessions, metrics : SUBSET Metrics, weights : Weightings]
Evaluating == {"next", "signals", "metrics"}
Local == [pc : {"idle", "start", "failing", "timeout"} \cup Evaluating, task : Message \cup {None},
          todo : SUBSET Sessions, session : Sessions \cup {None}, pairs : SUBSET Pairs,
          signals : SUBSET (Pairs \X Readings), rows : SUBSET TraceScore]

\* What a worker holds: a task while it is busy, the session it is at, and, until they are
\* committed, a row for each of the pairs it has computed.
LocalOK(l) ==
  /\ l \in Local
  /\ l.pc # "idle" => l.task \in Message
  /\ l.pc \in {"signals", "metrics"} => l.session \in l.todo
  /\ l.pc # "signals" => l.rows = {}
  /\ IsFiniteSet(l.rows)
  /\ \A c \in l.rows : /\ c.run = l.task.run /\ c.pair \notin l.pairs
                        /\ c.type = "NUMERIC" /\ c.value \in Values \cup {None}
  /\ \A c, d \in l.rows : c.pair = d.pair => c = d

TraceScoreOK(c) ==
  /\ c \in TraceScore
  /\ c.type = "NUMERIC" => c.value \in Values \cup {None}
  /\ c.type # "NUMERIC" => c.status = "SUCCESS"
SessionScoreOK(c) ==
  /\ c \in SessionScore
  /\ c.value \in 0..1000 \cup {None} /\ (c.status = "SUCCESS" => c.value \in 0..1000)

Types ==
  /\ home \in [Traces -> Sessions \cup {None}]
  /\ runs \in [Runs -> Row \cup {None}]
  /\ plan \in [Runs -> PlanType]
  /\ IsFiniteSet(tscores) /\ \A c \in tscores : TraceScoreOK(c)
  /\ IsFiniteSet(sscores) /\ \A c \in sscores : SessionScoreOK(c)
  /\ queue \subseteq Message
  /\ DOMAIN work = Workers /\ \A w \in Workers : LocalOK(work[w])
  /\ edits \in 0..MaxEdits

\* A run has one task, in the queue or at a worker.
OneTask ==
  /\ \A m \in queue : plan[m.run] # NoPlan /\ \A n \in queue : m.run = n.run => m = n
  /\ \A w \in Workers : work[w].pc # "idle" =>
       /\ plan[work[w].task.run] # NoPlan
       /\ \A m \in queue : m.run # work[w].task.run
       /\ \A v \in Workers : work[v].pc # "idle" /\ work[v].task.run = work[w].task.run => v = w

\* The session scores: of the sessions and metrics of their run, one each, and in order.
SessionScores ==
  \A c \in sscores :
    /\ c.run # None => c.session \in plan[c.run].sessions /\ c.metric \in plan[c.run].metrics
    /\ \A d \in sscores :
         (c.session = d.session /\ c.metric = d.metric
           /\ (c.at = d.at \/ (c.run # None /\ c.run = d.run))) => c = d
\* A worker has stored none for the sessions it has still to do.
Remaining(l, ss, p) ==
  l.pc \in Evaluating =>
    l.todo \subseteq p.sessions /\ \A c \in ss : c.run = l.task.run => c.session \notin l.todo

\* The trace scores: of a pair, at most one for each session that is done.
StoredIn(ts, r, x) == {d \in ts : d.run = r /\ d.pair = x}
Behind(l, p) == p.sessions \ (IF l.pc = "metrics" THEN l.todo \ {l.session} ELSE l.todo)
Counted(l, ts, p) ==
  l.pc \in Evaluating =>
    \A x \in Pairs : Cardinality(StoredIn(ts, l.task.run, x)) <= Cardinality(Behind(l, p))

\* The row of the run counts the sessions that are done.
Progress(l, row, p) ==
  l.pc \in Evaluating /\ row # None =>
    row.status = "RUNNING" /\ row.evaluated = Cardinality(p.sessions \ l.todo)
\* And, if users left the data alone, the scores are those of these sessions.
Visited(h, s) == \E t \in Traces : h[t] = s
Scored(ss, r) == {<<c.session, c.metric>> : c \in {x \in ss : x.run = r}}
FailedIn(ss, r) == {x \in ss : x.run = r /\ x.status = "FAILED"}
Undisturbed(l, row, p, ss, h) ==
  l.pc \in Evaluating /\ row # None =>
    /\ l.pc # "next" => Visited(h, l.session)
    /\ Scored(ss, l.task.run) = {s \in p.sessions \ l.todo : Visited(h, s)} \X p.metrics
    /\ row.failed = Cardinality(FailedIn(ss, l.task.run))

\* All of it.
AtWork(l, row, p, ts, ss, h, e) ==
  /\ Remaining(l, ss, p) /\ Counted(l, ts, p) /\ Progress(l, row, p)
  /\ e = 0 => Undisturbed(l, row, p, ss, h)

Inv ==
  /\ Types /\ OneTask /\ SessionScores
  /\ \A r \in Runs, x \in Pairs :
       Cardinality(StoredIn(tscores, r, x)) <= Cardinality(plan[r].sessions)
  /\ \A w \in Workers : work[w].pc # "idle" =>
       AtWork(work[w], runs[work[w].task.run], plan[work[w].task.run], tscores, sscores, home, edits)

-----------------------------------------------------------------------------
(* Steps.                                                                  *)

\* The invariant, spelled out for the next state.
LEMMA Folded ==
  ASSUME home' \in [Traces -> Sessions \cup {None}], runs' \in [Runs -> Row \cup {None}],
         plan' \in [Runs -> PlanType],
         IsFiniteSet(tscores'), \A c \in tscores' : TraceScoreOK(c),
         IsFiniteSet(sscores'), \A c \in sscores' : SessionScoreOK(c),
         queue' \subseteq Message, DOMAIN work' = Workers, \A w \in Workers : LocalOK(work'[w]),
         edits' \in 0..MaxEdits,
         OneTask', SessionScores',
         \A r \in Runs, x \in Pairs :
           Cardinality(StoredIn(tscores', r, x)) <= Cardinality(plan'[r].sessions),
         \A w \in Workers : work'[w].pc # "idle" =>
           AtWork(work'[w], runs'[work'[w].task.run], plan'[work'[w].task.run], tscores', sscores',
                  home', edits')
  PROVE  Inv'
<1>1. (\A w \in Workers : LocalOK(work[w]))'
  BY DEF LocalOK
<1>2. (\A c \in tscores : TraceScoreOK(c))'
  BY DEF TraceScoreOK
<1>3. (\A c \in sscores : SessionScoreOK(c))'
  BY DEF SessionScoreOK
<1>4. Types'
  BY <1>1, <1>2, <1>3 DEF Types
<1>5. (\A r \in Runs, x \in Pairs :
        Cardinality(StoredIn(tscores, r, x)) <= Cardinality(plan[r].sessions))'
  BY DEF StoredIn
<1>6. (\A w \in Workers : work[w].pc # "idle" =>
        AtWork(work[w], runs[work[w].task.run], plan[work[w].task.run], tscores, sscores, home, edits))'
  BY DEF AtWork, Remaining, Counted, Progress, Undisturbed, StoredIn, Behind, Scored, FailedIn, Visited
<1> QED BY <1>4, <1>5, <1>6 DEF Inv

\* The invariant, spelled out.
LEMMA Unfolded ==
  ASSUME Inv
  PROVE  /\ home \in [Traces -> Sessions \cup {None}] /\ runs \in [Runs -> Row \cup {None}]
         /\ plan \in [Runs -> PlanType]
         /\ IsFiniteSet(tscores) /\ \A c \in tscores : TraceScoreOK(c)
         /\ IsFiniteSet(sscores) /\ \A c \in sscores : SessionScoreOK(c)
         /\ queue \subseteq Message /\ DOMAIN work = Workers /\ \A w \in Workers : LocalOK(work[w])
         /\ edits \in 0..MaxEdits
         /\ OneTask /\ SessionScores
         /\ \A r \in Runs, x \in Pairs :
              Cardinality(StoredIn(tscores, r, x)) <= Cardinality(plan[r].sessions)
         /\ \A w \in Workers : work[w].pc # "idle" =>
              AtWork(work[w], runs[work[w].task.run], plan[work[w].task.run], tscores, sscores, home, edits)
BY DEF Inv, Types

\* A worker does not see what changes in the rows of another run.
LEMMA OthersAtWork ==
  ASSUME NEW l, NEW row, NEW p, NEW ts, NEW ss, NEW h, NEW e,
         AtWork(l, row, p, ts, ss, h, e),
         NEW us, \A c : c.run = l.task.run => (c \in us <=> c \in ts),
         NEW vs, \A c : c.run = l.task.run => (c \in vs <=> c \in ss)
  PROVE  AtWork(l, row, p, us, vs, h, e)
<1>1. \A x : StoredIn(us, l.task.run, x) = StoredIn(ts, l.task.run, x)
  BY DEF StoredIn
<1>2. {x \in vs : x.run = l.task.run} = {x \in ss : x.run = l.task.run}
  OBVIOUS
<1>3. FailedIn(vs, l.task.run) = FailedIn(ss, l.task.run)
  BY DEF FailedIn
<1>4. Scored(vs, l.task.run) = Scored(ss, l.task.run)
  BY <1>2 DEF Scored
<1>5. Remaining(l, vs, p)
  BY DEF AtWork, Remaining
<1>6. Counted(l, us, p) /\ Progress(l, row, p)
  BY <1>1 DEF AtWork, Counted
<1>7. e = 0 => Undisturbed(l, row, p, vs, h)
  BY <1>3, <1>4 DEF AtWork, Undisturbed
<1> QED BY <1>5, <1>6, <1>7 DEF AtWork

\* A step of a worker on its task, which may end in a retry.
LEMMA TasksOfWorker ==
  ASSUME Inv, NEW w \in Workers, work[w].pc # "idle", NEW l,
         work' = [work EXCEPT ![w] = l], plan' = plan,
         l.pc # "idle" => l.task = work[w].task,
         NEW m, \/ queue' = queue
                \/ l.pc = "idle" /\ m.run = work[w].task.run /\ queue' = queue \cup {m}
  PROVE  OneTask'
<1>1. OneTask /\ DOMAIN work = Workers
  BY Unfolded
<1>2. \A v \in Workers : work'[v] = IF v = w THEN l ELSE work[v]
  BY <1>1
<1>3. ASSUME NEW v \in Workers, work'[v].pc # "idle"
      PROVE  work[v].pc # "idle" /\ work[v].task = work'[v].task
  BY <1>2, <1>3
<1>4. CASE queue' = queue
  BY <1>1, <1>3, <1>4 DEF OneTask
<1>5. CASE l.pc = "idle" /\ m.run = work[w].task.run /\ queue' = queue \cup {m}
  <2>1. ASSUME NEW n \in queue' PROVE plan'[n.run] # NoPlan /\ \A k \in queue' : n.run = k.run => n = k
    BY <1>1, <1>5, <2>1 DEF OneTask
  <2>2. ASSUME NEW v \in Workers, work'[v].pc # "idle"
        PROVE  /\ plan'[work'[v].task.run] # NoPlan
               /\ \A n \in queue' : n.run # work'[v].task.run
               /\ \A u \in Workers : work'[u].pc # "idle" /\ work'[u].task.run = work'[v].task.run => u = v
    <3>1. v # w /\ work[v].pc # "idle" /\ work[v].task = work'[v].task
      BY <1>2, <1>3, <1>5, <2>2
    <3>2. work[v].task.run # work[w].task.run
      BY <1>1, <3>1 DEF OneTask
    <3> QED BY <1>1, <1>3, <1>5, <3>1, <3>2 DEF OneTask
  <2> QED BY <2>1, <2>2 DEF OneTask
<1> QED BY <1>4, <1>5

\* A step of a worker keeps the invariant if what it changes concerns its own run.
LEMMA WorkerStep ==
  ASSUME Inv, NEW w \in Workers, work[w].pc # "idle", NEW r, r = work[w].task.run,
         NEW l, LocalOK(l), l.pc # "idle" => l.task = work[w].task,
         work' = [work EXCEPT ![w] = l], UNCHANGED <<home, plan, edits>>,
         NEW m \in Message,
         queue' = queue \/ (l.pc = "idle" /\ m.run = r /\ queue' = queue \cup {m}),
         NEW row \in Row \cup {None}, runs' = [runs EXCEPT ![r] = row],
         IsFiniteSet(tscores'), \A c \in tscores' : TraceScoreOK(c),
         \A c : c.run # r => (c \in tscores' <=> c \in tscores),
         \A x \in Pairs : Cardinality(StoredIn(tscores', r, x)) <= Cardinality(plan[r].sessions),
         IsFiniteSet(sscores'), \A c \in sscores' : SessionScoreOK(c),
         \A c : c.run # r => (c \in sscores' <=> c \in sscores),
         SessionScores',
         l.pc # "idle" => AtWork(l, row, plan[r], tscores', sscores', home, edits)
  PROVE  Inv'
<1>1. OneTask'
  BY TasksOfWorker
<1>2. r \in Runs
  BY Unfolded DEF LocalOK, Message
<1>3. runs' \in [Runs -> Row \cup {None}] /\ \A q \in Runs : runs'[q] = IF q = r THEN row ELSE runs[q]
  BY <1>2, Unfolded
<1>4. DOMAIN work' = Workers /\ \A v \in Workers : work'[v] = IF v = w THEN l ELSE work[v]
  BY Unfolded
<1>5. \A v \in Workers : LocalOK(work'[v])
  BY <1>4, Unfolded
<1>6. queue' \subseteq Message
  BY Unfolded
<1>7. ASSUME NEW q \in Runs, NEW x \in Pairs
      PROVE  Cardinality(StoredIn(tscores', q, x)) <= Cardinality(plan'[q].sessions)
  <2>1. CASE q = r
    BY <2>1
  <2>2. CASE q # r
    <3>1. StoredIn(tscores', q, x) = StoredIn(tscores, q, x)
      BY <2>2 DEF StoredIn
    <3> QED BY <3>1, Unfolded
  <2> QED BY <2>1, <2>2
<1>8. ASSUME NEW v \in Workers, work'[v].pc # "idle"
      PROVE  AtWork(work'[v], runs'[work'[v].task.run], plan'[work'[v].task.run], tscores', sscores',
                    home', edits')
  <2>1. CASE v = w
    <3>1. work'[v] = l /\ l.task.run = r /\ runs'[r] = row
      BY <1>2, <1>3, <1>4, <1>8, <2>1
    <3> QED BY <1>8, <3>1
  <2>2. CASE v # w
    <3>1. work'[v] = work[v] /\ work[v].pc # "idle"
      BY <1>4, <1>8, <2>2
    <3>2. PICK q : q = work[v].task.run
      OBVIOUS
    <3>3. q # r
      BY <2>2, <3>1, <3>2, Unfolded DEF OneTask
    <3>4. q \in Runs
      BY <3>1, <3>2, Unfolded DEF LocalOK, Message
    <3>5. runs'[q] = runs[q] /\ plan'[q] = plan[q]
      BY <1>3, <3>3, <3>4
    <3>6. AtWork(work[v], runs[q], plan[q], tscores, sscores, home, edits)
      BY <3>1, <3>2, Unfolded
    <3>7. AtWork(work[v], runs[q], plan[q], tscores', sscores', home, edits)
      <4>1. /\ \A c : c.run = work[v].task.run => (c \in tscores' <=> c \in tscores)
            /\ \A c : c.run = work[v].task.run => (c \in sscores' <=> c \in sscores)
        BY <3>2, <3>3
      <4> QED BY <3>6, <4>1, OthersAtWork
    <3> QED BY <3>1, <3>2, <3>5, <3>7
  <2> QED BY <2>1, <2>2
<1> QED BY <1>1, <1>3, <1>4, <1>5, <1>6, <1>7, <1>8, Unfolded, Folded

-----------------------------------------------------------------------------
(* Rows and places.                                                        *)

\* created_at of a new row is later than that of the rows there are.
LEMMA AfterIs ==
  ASSUME NEW S, IsFiniteSet(S), \A c \in S : c.at \in Nat
  PROVE  After(S) \in Nat /\ \A c \in S : c.at < After(S)
<1>1. CASE S = {}
  BY <1>1 DEF After
<1>2. CASE S # {}
  <2> DEFINE A == {c.at : c \in S}
             h == [c \in S |-> c.at]
  <2>1. A # {} /\ A \subseteq Nat
    BY <1>2
  <2>2. \A y \in A : \E c \in S : y = h[c]
    OBVIOUS
  <2>3. \A c \in S : c.at \in A
    OBVIOUS
  <2>4. After(S) = 1 + Max(A)
    BY <1>2 DEF After
  <2> HIDE DEF A, h
  <2>5. IsFiniteSet(A)
    BY <2>2, FiniteImage
  <2>6. A \subseteq Int
    BY <2>1
  <2>7. Max(A) \in A /\ \A y \in A : y <= Max(A)
    BY <2>1, <2>5, <2>6, MaxIs
  <2>8. Max(A) \in Nat
    BY <2>1, <2>7
  <2>9. ASSUME NEW c \in S PROVE c.at < 1 + Max(A)
    BY <2>3, <2>7, <2>8
  <2> QED BY <2>4, <2>8, <2>9
<1> QED BY <1>1, <1>2

\* The rows of a pair, committed or not, are finitely many.
LEMMA RowsFinite ==
  ASSUME Inv, NEW x
  PROVE  IsFiniteSet(RowsOf(x)) /\ \A c \in RowsOf(x) : c \in TraceScore
<1> DEFINE U == {work[w].rows : w \in Workers}
           h == [w \in Workers |-> work[w].rows]
<1>1. \A R \in U : IsFiniteSet(R) /\ R \subseteq TraceScore
  BY Unfolded DEF LocalOK, Local
<1>2. \A R \in U : \E w \in Workers : R = h[w]
  OBVIOUS
<1>3. RowsOf(x) \subseteq tscores \cup UNION U
  BY DEF RowsOf
<1> HIDE DEF U, h
<1>4. IsFiniteSet(U)
  BY <1>2, Constants, FiniteImage
<1>5. IsFiniteSet(UNION U)
  BY <1>1, <1>4, FS_UNION
<1>6. IsFiniteSet(tscores \cup UNION U)
  BY <1>5, Unfolded, FS_Union
<1>7. \A c \in tscores \cup UNION U : c \in TraceScore
  BY <1>1, Unfolded DEF TraceScoreOK
<1> QED BY <1>3, <1>6, <1>7, FS_Subset

\* A new score is dated with a number.
LEMMA NewRow ==
  ASSUME Inv, NEW x
  PROVE  After(RowsOf(x)) \in Nat
<1>1. \A c \in RowsOf(x) : c.at \in Nat
  BY RowsFinite DEF TraceScore
<1> QED BY <1>1, RowsFinite, AfterIs

\* find_existing_trace_score returns a row or nothing.
LEMMA ExistingIs ==
  ASSUME Inv, NEW w \in Workers, NEW x, Existing(w, x) # None
  PROVE  Existing(w, x) \in TraceScore
<1>1. PICK F : F = {c \in tscores \cup work[w].rows : c.pair = x /\ c.status = "SUCCESS"}
  OBVIOUS
<1>2. LocalOK(work[w])
  BY Unfolded
<1>3. IsFiniteSet(F) /\ \A c \in F : c \in TraceScore
  <2>1. F \subseteq tscores \cup work[w].rows
    BY <1>1
  <2>2. IsFiniteSet(work[w].rows) /\ work[w].rows \subseteq TraceScore
    BY <1>2 DEF LocalOK, Local
  <2>3. IsFiniteSet(tscores \cup work[w].rows)
    BY <2>2, Unfolded, FS_Union
  <2> QED BY <2>1, <2>2, <2>3, Unfolded, FS_Subset DEF TraceScoreOK
<1>4. F # {}
  BY <1>1 DEF Existing
<1>5. \E c \in F : \A d \in F : d.at <= c.at
  <2> DEFINE A == {c.at : c \in F}
             h == [c \in F |-> c.at]
  <2>1. A # {} /\ A \subseteq Int
    BY <1>3, <1>4 DEF TraceScore
  <2>2. \A y \in A : \E c \in F : y = h[c]
    OBVIOUS
  <2>3. \A c \in F : c.at \in A
    OBVIOUS
  <2>4. \A y \in A : \E c \in F : y = c.at
    OBVIOUS
  <2> HIDE DEF A, h
  <2>5. IsFiniteSet(A)
    BY <1>3, <2>2, FiniteImage
  <2>6. Max(A) \in A /\ \A y \in A : y <= Max(A)
    BY <2>1, <2>5, MaxIs
  <2>7. PICK c \in F : Max(A) = c.at
    BY <2>4, <2>6
  <2> QED BY <2>3, <2>6, <2>7
<1>6. Existing(w, x) = CHOOSE c \in F : \A d \in F : d.at <= c.at
  BY <1>1, <1>4 DEF Existing
<1>7. Existing(w, x) \in F
  BY <1>5, <1>6
<1> QED BY <1>3, <1>7

-----------------------------------------------------------------------------
(* Steps of a worker.                                                      *)

\* What a worker has at the beginning of a step.
LEMMA AtStep ==
  ASSUME Inv, NEW w \in Workers, work[w].pc # "idle", NEW r, r = work[w].task.run
  PROVE  /\ LocalOK(work[w]) /\ work[w] \in Local /\ r \in Runs /\ work[w].task \in Message
         /\ runs[r] \in Row \cup {None} /\ plan[r] \in PlanType
         /\ IsFiniteSet(plan[r].sessions)
         /\ AtWork(work[w], runs[r], plan[r], tscores, sscores, home, edits)
<1>1. LocalOK(work[w]) /\ AtWork(work[w], runs[r], plan[r], tscores, sscores, home, edits)
  BY Unfolded
<1>2. work[w] \in Local /\ work[w].task \in Message /\ r \in Runs
  BY <1>1 DEF LocalOK, Message
<1>3. runs[r] \in Row \cup {None} /\ plan[r] \in PlanType
  BY <1>2, Unfolded
<1>4. IsFiniteSet(plan[r].sessions)
  BY <1>3, Constants, FS_Subset DEF PlanType
<1> QED BY <1>1, <1>2, <1>3, <1>4

\* A worker that stops evaluating.
LEMMA StopsOK ==
  ASSUME NEW l, LocalOK(l), NEW pc \in {"failing", "timeout"}, l.pc # "idle",
         NEW k, k = [l EXCEPT !.pc = pc, !.pairs = {}, !.signals = {}, !.rows = {}]
  PROVE  /\ LocalOK(k) /\ k.pc \notin Evaluating /\ k.pc # "idle" /\ k.task = l.task
         /\ \A row, p, ts, ss, h, e : AtWork(k, row, p, ts, ss, h, e)
<1>1. k.pc = pc /\ k.task = l.task /\ k.rows = {} /\ k \in Local
  BY DEF LocalOK, Local
<1>2. LocalOK(k)
  BY <1>1, FS_EmptySet DEF LocalOK
<1>3. k.pc \notin Evaluating /\ k.pc # "idle"
  BY <1>1 DEF Evaluating
<1> QED BY <1>1, <1>2, <1>3 DEF AtWork, Remaining, Counted, Progress, Undisturbed

\* A step that changes only what the worker holds.
LEMMA LocalStep ==
  ASSUME Inv, NEW w \in Workers, work[w].pc # "idle", NEW r, r = work[w].task.run,
         NEW l, LocalOK(l), l.pc # "idle" => l.task = work[w].task,
         work' = [work EXCEPT ![w] = l],
         UNCHANGED <<home, runs, plan, tscores, sscores, queue, edits>>,
         l.pc # "idle" => AtWork(l, runs[r], plan[r], tscores, sscores, home, edits)
  PROVE  Inv'
<1>1. r \in Runs /\ work[w].task \in Message /\ runs[r] \in Row \cup {None}
  BY AtStep
<1>2. runs' = [runs EXCEPT ![r] = runs[r]]
  BY <1>1, Unfolded
<1>3. SessionScores'
  BY Unfolded DEF SessionScores
<1>4. /\ IsFiniteSet(tscores') /\ \A c \in tscores' : TraceScoreOK(c)
      /\ IsFiniteSet(sscores') /\ \A c \in sscores' : SessionScoreOK(c)
      /\ \A x \in Pairs : Cardinality(StoredIn(tscores', r, x)) <= Cardinality(plan[r].sessions)
  BY <1>1, Unfolded
<1> QED BY <1>1, <1>2, <1>3, <1>4, WorkerStep

\* RunError keeps the invariant: the attempt ends with nothing more stored.
LEMMA RunErrorOK ==
  ASSUME Inv, NEW w \in Workers, RunError(w)
  PROVE  Inv'
<1>1. work[w].pc # "idle"
  BY DEF RunError
<1>2. LocalOK(work[w])
  BY <1>1, AtStep
<1>3. PICK pc \in {"failing", "timeout"} :
        work' = [work EXCEPT ![w] = [work[w] EXCEPT !.pc = pc, !.pairs = {}, !.signals = {}, !.rows = {}]]
  <2>1. work[w] \in Local
    BY <1>2 DEF LocalOK
  <2>2. [Failing(w) EXCEPT !.pc = "timeout"]
          = [work[w] EXCEPT !.pc = "timeout", !.pairs = {}, !.signals = {}, !.rows = {}]
    BY <2>1 DEF Failing, Local
  <2> QED BY <2>2 DEF RunError, Become, Failing
<1>4. PICK l : l = [work[w] EXCEPT !.pc = pc, !.pairs = {}, !.signals = {}, !.rows = {}]
  OBVIOUS
<1>5. /\ LocalOK(l) /\ l.pc # "idle" /\ l.task = work[w].task
      /\ \A row, p, ts, ss, h, e : AtWork(l, row, p, ts, ss, h, e)
  BY <1>1, <1>2, <1>4, StopsOK
<1>6. UNCHANGED <<home, runs, plan, tscores, sscores, queue, edits>>
  BY DEF RunError
<1> QED BY <1>1, <1>3, <1>4, <1>5, <1>6, LocalStep

\* Step C: a pair is done, with a row or without.
LEMMA SignalStep ==
  ASSUME Inv, NEW w \in Workers, work[w].pc = "signals",
         NEW l, LocalOK(l), l.pc = "signals", l.task = work[w].task, l.todo = work[w].todo,
         l.session = work[w].session, work' = [work EXCEPT ![w] = l],
         UNCHANGED <<home, runs, plan, tscores, sscores, queue, edits>>
  PROVE  Inv'
<1>1. PICK r : r = work[w].task.run
  OBVIOUS
<1>2. AtWork(work[w], runs[r], plan[r], tscores, sscores, home, edits)
  BY <1>1, AtStep
<1>3. AtWork(l, runs[r], plan[r], tscores, sscores, home, edits)
  BY <1>2 DEF AtWork, Remaining, Counted, Progress, Undisturbed, Behind
<1> QED BY <1>1, <1>3, LocalStep

\* A worker that gives up in a step that changes nothing else.
LEMMA FailingStep ==
  ASSUME Inv, NEW w \in Workers, work[w].pc # "idle", work' = [work EXCEPT ![w] = Failing(w)],
         UNCHANGED <<home, runs, plan, tscores, sscores, queue, edits>>
  PROVE  Inv'
<1>1. PICK l : l = Failing(w)
  OBVIOUS
<1>2. LocalOK(work[w])
  BY AtStep
<1>3. /\ LocalOK(l) /\ l.pc # "idle" /\ l.task = work[w].task
      /\ \A row, p, ts, ss, h, e : AtWork(l, row, p, ts, ss, h, e)
  BY <1>1, <1>2, StopsOK DEF Failing
<1> QED BY <1>1, <1>3, LocalStep

\* ReuseSignal keeps the invariant: nothing is stored.
LEMMA ReuseOK ==
  ASSUME Inv, NEW w \in Workers, ReuseSignal(w)
  PROVE  Inv'
<1>1. PICK x : x = CHOOSE y \in work[w].pairs : TRUE
  OBVIOUS
<1>2. PICK c : c = Existing(w, x)
  OBVIOUS
<1>3. /\ work[w].pc = "signals" /\ work[w].pairs # {} /\ c # None /\ c.value # None
      /\ UNCHANGED <<home, runs, plan, tscores, sscores, queue, edits>>
      /\ work' = [work EXCEPT ![w] = IF c.value = Text THEN Failing(w)
                    ELSE [work[w] EXCEPT !.pairs = @ \ {x}, !.signals = @ \cup {<<x, c.value>>}]]
  BY <1>1, <1>2 DEF ReuseSignal, Become
<1>4. CASE c.value = Text
  BY <1>3, <1>4, FailingStep
<1>5. CASE c.value # Text
  <2>1. PICK l : l = [work[w] EXCEPT !.pairs = @ \ {x}, !.signals = @ \cup {<<x, c.value>>}]
    OBVIOUS
  <2>2. LocalOK(work[w]) /\ work[w] \in Local
    BY <1>3, AtStep
  <2>3. c \in TraceScore
    BY <1>2, <1>3, ExistingIs
  <2>4. c.value \in Readings
    BY <1>3, <1>5, <2>3 DEF TraceScore
  <2>5. x \in Pairs
    BY <1>1, <1>3, <2>2 DEF Local
  <2>6. l \in Local /\ l.pc = "signals" /\ l.task = work[w].task /\ l.todo = work[w].todo
        /\ l.session = work[w].session /\ l.rows = work[w].rows /\ l.pairs \subseteq work[w].pairs
    <3>1. PICK P, G : P = work[w].pairs \ {x} /\ G = work[w].signals \cup {<<x, c.value>>}
      OBVIOUS
    <3>2. P \in SUBSET Pairs /\ P \subseteq work[w].pairs /\ G \in SUBSET (Pairs \X Readings)
      BY <2>2, <2>4, <2>5, <3>1 DEF Local
    <3>3. l = [work[w] EXCEPT !.pairs = P, !.signals = G]
      BY <2>1, <3>1
    <3> QED BY <1>3, <2>2, <3>2, <3>3 DEF Local
  <2>7. LocalOK(l)
    BY <1>3, <2>2, <2>6 DEF LocalOK
  <2> QED BY <1>3, <1>5, <2>1, <2>6, <2>7, SignalStep
<1> QED BY <1>4, <1>5

\* ComputeSignal keeps the invariant: it adds one row to the batch of the session.
LEMMA ComputeOK ==
  ASSUME Inv, NEW w \in Workers, NEW v \in Outcomes, ComputeSignal(w, v)
  PROVE  Inv'
<1>1. PICK x : x = CHOOSE y \in work[w].pairs : TRUE
  OBVIOUS
<1>2. PICK row : row = [pair |-> x, type |-> "NUMERIC", value |-> v,
                        status |-> IF v = None THEN "FAILED" ELSE "SUCCESS",
                        run |-> RunOf(w), manual |-> FALSE, at |-> After(RowsOf(x))]
  OBVIOUS
<1>3. /\ work[w].pc = "signals" /\ work[w].pairs # {}
      /\ UNCHANGED <<home, runs, plan, tscores, sscores, queue, edits>>
      /\ work' = [work EXCEPT ![w] = IF home[x[1]] = None \/ runs[RunOf(w)] = None THEN Failing(w)
                    ELSE [work[w] EXCEPT !.pairs = @ \ {x}, !.rows = @ \cup {row},
                                         !.signals = IF v = None THEN @ ELSE @ \cup {<<x, v>>}]]
  BY <1>1, <1>2 DEF ComputeSignal, Become
<1>4. CASE home[x[1]] = None \/ runs[RunOf(w)] = None
  BY <1>3, <1>4, FailingStep
<1>5. CASE ~(home[x[1]] = None \/ runs[RunOf(w)] = None)
  <2>1. PICK l : l = [work[w] EXCEPT !.pairs = @ \ {x}, !.rows = @ \cup {row},
                                     !.signals = IF v = None THEN @ ELSE @ \cup {<<x, v>>}]
    OBVIOUS
  <2>2. LocalOK(work[w]) /\ work[w] \in Local /\ work[w].task \in Message
    BY <1>3, AtStep
  <2>3. x \in work[w].pairs /\ x \in Pairs
    BY <1>1, <1>3, <2>2 DEF Local
  <2>4. v \in Values \cup {None} /\ v \in Readings \cup {None}
    BY SessionEvalAssumption DEF Readings
  <2>5. row \in TraceScore
    <3>1. After(RowsOf(x)) \in Nat /\ RunOf(w) \in Runs
      BY <2>2, NewRow DEF RunOf, Message
    <3> QED BY <1>2, <2>3, <2>4, <3>1 DEF TraceScore
  <2>6. row.run = work[w].task.run /\ row.pair = x /\ row.type = "NUMERIC" /\ row.value \in Values \cup {None}
    BY <1>2, <2>4 DEF RunOf
  <2>7. l \in Local /\ l.pc = "signals" /\ l.task = work[w].task /\ l.todo = work[w].todo
        /\ l.session = work[w].session /\ l.rows = work[w].rows \cup {row}
        /\ l.pairs = work[w].pairs \ {x}
    <3>1. (IF v = None THEN work[w].signals ELSE work[w].signals \cup {<<x, v>>}) \in SUBSET (Pairs \X Readings)
      BY <2>2, <2>3, <2>4 DEF Local
    <3> QED BY <1>3, <2>1, <2>2, <2>3, <2>5, <3>1 DEF Local
  <2>8. LocalOK(l)
    <3>1. IsFiniteSet(l.rows)
      BY <2>2, <2>7, FS_AddElement DEF LocalOK
    <3>2. \A c \in l.rows : /\ c.run = l.task.run /\ c.pair \notin l.pairs
                          /\ c.type = "NUMERIC" /\ c.value \in Values \cup {None}
      BY <2>2, <2>6, <2>7 DEF LocalOK
    <3>3. \A c, d \in l.rows : c.pair = d.pair => c = d
      BY <2>2, <2>3, <2>6, <2>7 DEF LocalOK
    <3> QED BY <1>3, <2>2, <2>7, <3>1, <3>2, <3>3 DEF LocalOK
  <2> QED BY <1>3, <1>5, <2>1, <2>7, <2>8, SignalStep
<1> QED BY <1>4, <1>5

\* The rows of a session are committed: one more score for a pair, one more session done.
LEMMA CommitOK ==
  ASSUME Inv, NEW w \in Workers, CommitSignals(w)
  PROVE  Inv'
<1>1. /\ work[w].pc = "signals" /\ tscores' = tscores \cup work[w].rows
      /\ work' = [work EXCEPT ![w] = [work[w] EXCEPT !.pc = "metrics", !.rows = {}]]
      /\ UNCHANGED <<home, runs, plan, sscores, queue, edits>>
  BY DEF CommitSignals, Become
<1>2. PICK r, l : r = work[w].task.run /\ l = [work[w] EXCEPT !.pc = "metrics", !.rows = {}]
  OBVIOUS
<1>3. /\ LocalOK(work[w]) /\ work[w] \in Local /\ r \in Runs /\ work[w].task \in Message
      /\ runs[r] \in Row \cup {None} /\ IsFiniteSet(plan[r].sessions)
      /\ AtWork(work[w], runs[r], plan[r], tscores, sscores, home, edits)
  BY <1>1, <1>2, AtStep
<1>4. l \in Local /\ l.pc = "metrics" /\ l.task = work[w].task /\ l.todo = work[w].todo
      /\ l.session = work[w].session /\ l.rows = {} /\ l.pairs = work[w].pairs
  BY <1>2, <1>3 DEF Local, Evaluating
<1>5. LocalOK(l)
  BY <1>1, <1>3, <1>4, FS_EmptySet DEF LocalOK
<1>6. PICK R, s, p : R = work[w].rows /\ s = work[w].session /\ p = plan[r]
  OBVIOUS
<1>7. /\ IsFiniteSet(R) /\ s \in work[w].todo /\ \A c \in R : c.run = r /\ c \in TraceScore /\ c.type = "NUMERIC" /\ c.value \in Values \cup {None}
      /\ \A c, d \in R : c.pair = d.pair => c = d
  BY <1>1, <1>2, <1>3, <1>6 DEF LocalOK, Local
<1>8. IsFiniteSet(tscores') /\ \A c \in tscores' : TraceScoreOK(c)
  BY <1>1, <1>6, <1>7, Unfolded, FS_Union DEF TraceScoreOK
<1>9. work[w].todo \subseteq p.sessions
  BY <1>1, <1>3, <1>6 DEF AtWork, Remaining, Evaluating
<1>10. PICK B, D : B = Behind(work[w], p) /\ D = Behind(l, p)
  OBVIOUS
<1>11. D = B \cup {s} /\ s \notin B /\ B \subseteq p.sessions /\ D \subseteq p.sessions
  BY <1>1, <1>4, <1>6, <1>7, <1>9, <1>10 DEF Behind
<1>12. /\ IsFiniteSet(B) /\ Cardinality(B) \in Nat /\ Cardinality(D) = Cardinality(B) + 1
       /\ Cardinality(D) <= Cardinality(p.sessions)
  <2>1. IsFiniteSet(B) /\ IsFiniteSet(D) /\ IsFiniteSet(p.sessions)
    BY <1>3, <1>6, <1>11, FS_Subset
  <2>2. Cardinality(D) = Cardinality(B) + 1
    BY <1>11, <2>1, FS_AddElement
  <2>3. Cardinality(D) <= Cardinality(p.sessions)
    BY <1>11, <2>1, FS_Subset
  <2> QED BY <2>1, <2>2, <2>3, FS_CardinalityType
<1>13. ASSUME NEW x \in Pairs
       PROVE  Cardinality(StoredIn(tscores', r, x)) <= Cardinality(D)
  <2>1. PICK O, N : O = StoredIn(tscores, r, x) /\ N = StoredIn(tscores', r, x)
    OBVIOUS
  <2>2. O \subseteq tscores /\ IsFiniteSet(O) /\ Cardinality(O) \in Nat
    <3>1. O \subseteq tscores
      BY <2>1 DEF StoredIn
    <3> QED BY <3>1, Unfolded, FS_Subset, FS_CardinalityType
  <2>3. Cardinality(O) <= Cardinality(B)
    BY <1>1, <1>2, <1>3, <1>6, <1>10, <2>1 DEF AtWork, Counted, Evaluating
  <2>4. N = O \/ \E c : N = O \cup {c}
    <3>1. CASE \E c \in R : c.pair = x
      <4>1. PICK c \in R : c.pair = x
        BY <3>1
      <4>2. N = O \cup {c}
        BY <1>1, <1>6, <1>7, <2>1, <4>1 DEF StoredIn
      <4> QED BY <4>2
    <3>2. CASE ~\E c \in R : c.pair = x
      BY <1>1, <1>6, <2>1, <3>2 DEF StoredIn
    <3> QED BY <3>1, <3>2
  <2>5. Cardinality(N) \in Nat /\ Cardinality(N) <= Cardinality(O) + 1
    <3>1. CASE N = O
      BY <2>2, <3>1
    <3>2. ASSUME NEW c, N = O \cup {c} PROVE Cardinality(N) \in Nat /\ Cardinality(N) <= Cardinality(O) + 1
      <4>1. Cardinality(N) = IF c \in O THEN Cardinality(O) ELSE Cardinality(O) + 1
        BY <2>2, <3>2, FS_AddElement
      <4> QED BY <2>2, <4>1
    <3> QED BY <2>4, <3>1, <3>2
  <2> QED BY <1>12, <2>1, <2>2, <2>3, <2>5
<1>14. AtWork(l, runs[r], p, tscores', sscores', home, edits)
  <2>1. Remaining(l, sscores, p) /\ Progress(l, runs[r], p)
    BY <1>1, <1>3, <1>4, <1>6 DEF AtWork, Remaining, Progress, Evaluating
  <2>2. edits = 0 => Undisturbed(l, runs[r], p, sscores, home)
    BY <1>1, <1>3, <1>4, <1>6 DEF AtWork, Undisturbed, Evaluating
  <2>3. Counted(l, tscores', p)
    BY <1>2, <1>4, <1>10, <1>13 DEF Counted
  <2> QED BY <1>1, <2>1, <2>2, <2>3 DEF AtWork
<1>15. \A x \in Pairs : Cardinality(StoredIn(tscores', r, x)) <= Cardinality(plan[r].sessions)
  <2>1. ASSUME NEW x \in Pairs PROVE Cardinality(StoredIn(tscores', r, x)) <= Cardinality(plan[r].sessions)
    <3>1. IsFiniteSet(StoredIn(tscores', r, x))
      BY <1>8, FS_Subset DEF StoredIn
    <3>2. Cardinality(StoredIn(tscores', r, x)) \in Nat /\ Cardinality(D) \in Nat /\ Cardinality(p.sessions) \in Nat
      BY <1>3, <1>6, <1>12, <3>1, FS_CardinalityType
    <3> QED BY <1>6, <1>12, <1>13, <3>2
  <2> QED BY <2>1
<1>16. SessionScores' /\ IsFiniteSet(sscores') /\ \A c \in sscores' : SessionScoreOK(c)
  BY <1>1, Unfolded DEF SessionScores
<1>17. /\ \A c : c.run # r => (c \in tscores' <=> c \in tscores)
       /\ runs' = [runs EXCEPT ![r] = runs[r]]
  BY <1>1, <1>3, <1>6, <1>7, Unfolded
<1>18. work[w].pc # "idle"
  BY <1>1
<1> QED BY <1>1, <1>2, <1>3, <1>4, <1>5, <1>6, <1>8, <1>14, <1>15, <1>16, <1>17, <1>18, WorkerStep

\* update_run_status on a run that may be gone.
LEMMA UpdateIs ==
  ASSUME Inv, NEW r \in Runs, NEW row, Update(r, row)
  PROVE  runs' = [runs EXCEPT ![r] = IF runs[r] = None THEN None ELSE row]
<1>1. runs = [runs EXCEPT ![r] = runs[r]]
  BY Unfolded
<1> QED BY <1>1 DEF Update

\* A row of a run is not the absence of one.
LEMMA RowIsNot == None \notin Row
BY SessionEvalAssumption

\* Phase 0: nothing of the run is left.
LEMMA StartOK ==
  ASSUME Inv, NEW w \in Workers, Start(w)
  PROVE  Inv'
<1>1. PICK r, p : r = work[w].task.run /\ p = plan[r]
  OBVIOUS
<1>2. PICK fresh : fresh = [status |-> "RUNNING", evaluated |-> 0, failed |-> 0]
  OBVIOUS
<1>3. /\ work[w].pc = "start"
      /\ tscores' = {x \in tscores : x.run # r} /\ sscores' = {x \in sscores : x.run # r}
      /\ Update(r, fresh)
      /\ work' = [work EXCEPT ![w] = IF runs[r] = None THEN Failing(w)
                                     ELSE [work[w] EXCEPT !.pc = "next", !.todo = plan[r].sessions]]
      /\ UNCHANGED <<home, plan, queue, edits>>
  BY <1>1, <1>2 DEF Start, RunOf, Become
<1>4. /\ LocalOK(work[w]) /\ work[w] \in Local /\ r \in Runs /\ work[w].task \in Message
      /\ runs[r] \in Row \cup {None} /\ p \in PlanType /\ work[w].pc # "idle" /\ IsFiniteSet(p.sessions)
  BY <1>1, <1>3, AtStep
<1>5. PICK row : row = IF runs[r] = None THEN None ELSE fresh
  OBVIOUS
<1>6. row \in Row \cup {None} /\ runs' = [runs EXCEPT ![r] = row]
  <2>1. fresh \in Row
    BY <1>2 DEF Row
  <2> QED BY <1>3, <1>4, <1>5, <2>1, UpdateIs
<1>7. /\ IsFiniteSet(tscores') /\ \A c \in tscores' : TraceScoreOK(c)
      /\ IsFiniteSet(sscores') /\ \A c \in sscores' : SessionScoreOK(c)
      /\ \A c : c.run # r => (c \in tscores' <=> c \in tscores)
      /\ \A c : c.run # r => (c \in sscores' <=> c \in sscores)
  BY <1>3, Unfolded, FS_Subset
<1>8. SessionScores'
  BY <1>3, Unfolded DEF SessionScores
<1>9. /\ Cardinality({}) = 0 /\ Cardinality(p.sessions) \in Nat
      /\ \A x : StoredIn(tscores', r, x) = {}
  <2>1. \A x : StoredIn(tscores', r, x) = {}
    BY <1>3 DEF StoredIn
  <2> QED BY <1>4, <2>1, FS_EmptySet, FS_CardinalityType
<1>10. \A x \in Pairs : Cardinality(StoredIn(tscores', r, x)) <= Cardinality(plan[r].sessions)
  BY <1>1, <1>9
<1>11. PICK l : l = IF runs[r] = None THEN Failing(w)
                    ELSE [work[w] EXCEPT !.pc = "next", !.todo = plan[r].sessions]
  OBVIOUS
<1>12. LocalOK(l) /\ l.task = work[w].task /\ AtWork(l, row, p, tscores', sscores', home, edits)
  <2>1. CASE runs[r] = None
    BY <1>4, <1>11, <2>1, StopsOK DEF Failing
  <2>2. CASE runs[r] # None
    <3>1. /\ l \in Local /\ l.pc = "next" /\ l.task = work[w].task /\ l.todo = p.sessions
          /\ l.rows = work[w].rows /\ l.pairs = work[w].pairs
      BY <1>1, <1>4, <1>11, <2>2 DEF Local, PlanType, Evaluating
    <3>2. LocalOK(l)
      BY <1>3, <1>4, <3>1, FS_EmptySet DEF LocalOK
    <3>3. Remaining(l, sscores', p)
      BY <1>1, <1>3, <3>1 DEF Remaining
    <3>4. Behind(l, p) = {} /\ p.sessions \ l.todo = {}
      BY <3>1 DEF Behind
    <3>5. Counted(l, tscores', p)
      BY <1>1, <1>9, <3>1, <3>4 DEF Counted
    <3>6. row = fresh /\ Progress(l, row, p)
      BY <1>2, <1>5, <1>9, <2>2, <3>4 DEF Progress
    <3>7. Scored(sscores', r) = {} /\ FailedIn(sscores', r) = {}
      BY <1>3 DEF Scored, FailedIn
    <3>8. Undisturbed(l, row, p, sscores', home)
      <4>1. {s \in p.sessions \ l.todo : Visited(home, s)} \X p.metrics = {}
        BY <3>4
      <4> QED BY <1>1, <1>2, <1>9, <3>1, <3>6, <3>7, <4>1 DEF Undisturbed
    <3> QED BY <3>1, <3>2, <3>3, <3>5, <3>6, <3>8 DEF AtWork
  <2> QED BY <2>1, <2>2
<1> QED BY <1>1, <1>3, <1>4, <1>6, <1>7, <1>8, <1>10, <1>11, <1>12, WorkerStep

\* A step that changes the row of the run and what the worker holds.
LEMMA RowStep ==
  ASSUME Inv, NEW w \in Workers, work[w].pc # "idle", NEW r, r = work[w].task.run,
         NEW l, LocalOK(l), l.pc # "idle" => l.task = work[w].task,
         NEW row \in Row \cup {None}, runs' = [runs EXCEPT ![r] = row],
         work' = [work EXCEPT ![w] = l],
         NEW m \in Message,
         queue' = queue \/ (l.pc = "idle" /\ m.run = r /\ queue' = queue \cup {m}),
         UNCHANGED <<home, plan, tscores, sscores, edits>>,
         l.pc # "idle" => AtWork(l, row, plan[r], tscores, sscores, home, edits)
  PROVE  Inv'
<1>1. r \in Runs
  BY AtStep
<1>2. SessionScores'
  BY Unfolded DEF SessionScores
<1>3. /\ IsFiniteSet(tscores') /\ \A c \in tscores' : TraceScoreOK(c)
      /\ IsFiniteSet(sscores') /\ \A c \in sscores' : SessionScoreOK(c)
      /\ \A x \in Pairs : Cardinality(StoredIn(tscores', r, x)) <= Cardinality(plan[r].sessions)
  BY <1>1, Unfolded
<1> QED BY <1>2, <1>3, WorkerStep

\* A worker without a task.
LEMMA IdleOK == LocalOK(Idle) /\ Idle.pc = "idle"
BY FS_EmptySet DEF LocalOK, Local, Idle

\* CompleteRun keeps the invariant: it writes the row of a run that has no task any more.
LEMMA CompleteOK ==
  ASSUME Inv, NEW w \in Workers, CompleteRun(w)
  PROVE  Inv'
<1>1. PICK r, row : r = work[w].task.run
                 /\ row = IF runs[r] = None THEN None ELSE [runs[r] EXCEPT !.status = "COMPLETED"]
  OBVIOUS
<1>2. /\ work[w].pc # "idle" /\ Update(r, [runs[r] EXCEPT !.status = "COMPLETED"])
      /\ work' = [work EXCEPT ![w] = Idle] /\ UNCHANGED <<home, plan, tscores, sscores, queue, edits>>
  BY <1>1 DEF CompleteRun, RunOf, Become
<1>3. r \in Runs /\ work[w].task \in Message /\ runs[r] \in Row \cup {None}
  BY <1>1, <1>2, AtStep
<1>4. row \in Row \cup {None} /\ runs' = [runs EXCEPT ![r] = row]
  BY <1>1, <1>2, <1>3, UpdateIs DEF Row
<1>5. PICK l : l = Idle /\ LocalOK(l) /\ l.pc = "idle"
  BY IdleOK
<1>6. work' = [work EXCEPT ![w] = l] /\ work[w].pc # "idle"
  BY <1>2, <1>5
<1> QED BY <1>1, <1>2, <1>3, <1>4, <1>5, <1>6, RowStep

\* FailRun keeps the invariant.
LEMMA FailRunOK ==
  ASSUME Inv, NEW w \in Workers, FailRun(w)
  PROVE  Inv'
<1>1. PICK r, row, m :
        /\ r = work[w].task.run
        /\ row = IF runs[r] = None THEN None ELSE [runs[r] EXCEPT !.status = "FAILED"]
        /\ m = IF work[w].task.try < MaxRetries THEN [work[w].task EXCEPT !.try = @ + 1] ELSE work[w].task
  OBVIOUS
<1>2. /\ work[w].pc # "idle" /\ Update(r, [runs[r] EXCEPT !.status = "FAILED"])
      /\ queue' = queue \/ queue' = queue \cup {m}
      /\ work' = [work EXCEPT ![w] = Idle] /\ UNCHANGED <<home, plan, tscores, sscores, edits>>
  BY <1>1 DEF FailRun, RunOf, Become
<1>3. r \in Runs /\ work[w].task \in Message /\ runs[r] \in Row \cup {None}
  BY <1>1, <1>2, AtStep
<1>4. row \in Row \cup {None} /\ runs' = [runs EXCEPT ![r] = row]
  BY <1>1, <1>2, <1>3, UpdateIs DEF Row
<1>5. m \in Message /\ m.run = r
  BY <1>1, <1>3, SessionEvalAssumption DEF Message
<1>6. PICK l : l = Idle /\ LocalOK(l) /\ l.pc = "idle"
  BY IdleOK
<1>7. work' = [work EXCEPT ![w] = l] /\ work[w].pc # "idle"
  BY <1>2, <1>6
<1>8. /\ r = work[w].task.run /\ UNCHANGED <<home, plan, tscores, sscores, edits>>
      /\ queue' = queue \/ (l.pc = "idle" /\ m.run = r /\ queue' = queue \cup {m})
  BY <1>1, <1>2, <1>5, <1>6
<1> QED BY <1>4, <1>5, <1>6, <1>7, <1>8, RowStep

\* Steps A and B.
LEMMA LoadOK ==
  ASSUME Inv, NEW w \in Workers, NEW s \in Sessions, LoadSession(w, s)
  PROVE  Inv'
<1>1. PICK r, p : r = work[w].task.run /\ p = plan[r]
  OBVIOUS
<1>2. /\ work[w].pc = "next" /\ s \in work[w].todo
      /\ UNCHANGED <<home, plan, tscores, sscores, queue, edits>>
  BY DEF LoadSession
<1>3. /\ LocalOK(work[w]) /\ work[w] \in Local /\ r \in Runs /\ work[w].task \in Message
      /\ runs[r] \in Row \cup {None} /\ work[w].pc # "idle" /\ IsFiniteSet(p.sessions)
      /\ AtWork(work[w], runs[r], p, tscores, sscores, home, edits)
  BY <1>1, <1>2, AtStep
<1>4. TracesOf(s) = {} <=> ~Visited(home, s)
  BY DEF TracesOf, Visited
<1>5. work[w].todo \subseteq p.sessions /\ \A c \in sscores : c.run = r => c.session \notin work[w].todo
  BY <1>1, <1>2, <1>3 DEF AtWork, Remaining, Evaluating
<1>6. CASE TracesOf(s) = {}
  <2>1. PICK l, row : /\ l = [work[w] EXCEPT !.todo = @ \ {s}]
                      /\ row = IF runs[r] = None THEN None ELSE [runs[r] EXCEPT !.evaluated = @ + 1]
    OBVIOUS
  <2>2. work' = [work EXCEPT ![w] = l] /\ Update(r, [runs[r] EXCEPT !.evaluated = @ + 1])
    BY <1>1, <1>6, <2>1 DEF LoadSession, RunOf, Become
  <2>3. row \in Row \cup {None} /\ runs' = [runs EXCEPT ![r] = row]
    BY <1>3, <2>1, <2>2, UpdateIs DEF Row
  <2>4. /\ l \in Local /\ l.pc = "next" /\ l.task = work[w].task /\ l.todo = work[w].todo \ {s}
        /\ l.rows = work[w].rows /\ l.pairs = work[w].pairs
    BY <1>2, <1>3, <2>1 DEF Local
  <2>5. LocalOK(l)
    BY <1>2, <1>3, <2>4 DEF LocalOK
  <2>6. PICK O, N : O = p.sessions \ work[w].todo /\ N = p.sessions \ l.todo
    OBVIOUS
  <2>7. N = O \cup {s} /\ s \notin O /\ O \subseteq p.sessions
    BY <1>2, <1>5, <2>4, <2>6
  <2>8. /\ IsFiniteSet(O) /\ Cardinality(O) \in Nat /\ Cardinality(N) = Cardinality(O) + 1
    BY <1>3, <2>7, FS_Subset, FS_CardinalityType, FS_AddElement
  <2>9. Behind(work[w], p) = O /\ Behind(l, p) = N
    BY <1>2, <2>4, <2>6 DEF Behind
  <2>10. Remaining(l, sscores, p)
    BY <1>1, <1>5, <2>4 DEF Remaining
  <2>11. Counted(l, tscores, p)
    <3>1. ASSUME NEW x \in Pairs PROVE Cardinality(StoredIn(tscores, r, x)) <= Cardinality(N)
      <4>1. Cardinality(StoredIn(tscores, r, x)) <= Cardinality(O)
        BY <1>1, <1>2, <1>3, <2>9 DEF AtWork, Counted, Evaluating
      <4>2. IsFiniteSet(StoredIn(tscores, r, x))
        BY Unfolded, FS_Subset DEF StoredIn
      <4>3. Cardinality(StoredIn(tscores, r, x)) \in Nat
        BY <4>2, FS_CardinalityType
      <4> QED BY <2>8, <4>1, <4>3
    <3> QED BY <1>1, <2>4, <2>9, <3>1 DEF Counted
  <2>12. Progress(l, row, p)
    <3>1. SUFFICES ASSUME row # None PROVE row.status = "RUNNING" /\ row.evaluated = Cardinality(N)
      BY <2>6 DEF Progress
    <3>2. runs[r] # None /\ row = [runs[r] EXCEPT !.evaluated = @ + 1] /\ runs[r] \in Row
      BY <1>3, <2>1, <3>1
    <3>3. runs[r].status = "RUNNING" /\ runs[r].evaluated = Cardinality(O)
      BY <1>2, <1>3, <2>6, <3>2 DEF AtWork, Progress, Evaluating
    <3> QED BY <2>8, <3>2, <3>3 DEF Row
  <2>13. ASSUME edits = 0 PROVE Undisturbed(l, row, p, sscores, home)
    <3>1. SUFFICES ASSUME row # None
                   PROVE  /\ Scored(sscores, r) = {q \in N : Visited(home, q)} \X p.metrics
                          /\ row.failed = Cardinality(FailedIn(sscores, r))
      BY <1>1, <2>4, <2>6 DEF Undisturbed
    <3>2. runs[r] # None /\ row = [runs[r] EXCEPT !.evaluated = @ + 1] /\ runs[r] \in Row
      BY <1>3, <2>1, <3>1
    <3>3. /\ Scored(sscores, r) = {q \in O : Visited(home, q)} \X p.metrics
          /\ runs[r].failed = Cardinality(FailedIn(sscores, r))
      BY <1>1, <1>2, <1>3, <2>6, <2>13, <3>2 DEF AtWork, Undisturbed, Evaluating
    <3>4. {q \in N : Visited(home, q)} = {q \in O : Visited(home, q)}
      BY <1>4, <1>6, <2>7
    <3> QED BY <3>2, <3>3, <3>4 DEF Row
  <2>14. AtWork(l, row, p, tscores, sscores, home, edits)
    BY <2>10, <2>11, <2>12, <2>13 DEF AtWork
  <2> QED BY <1>1, <1>2, <1>3, <2>2, <2>3, <2>4, <2>5, <2>14, RowStep
<1>7. CASE TracesOf(s) # {}
  <2>1. PICK l, P : P = TracesOf(s) \X Signals
                 /\ l = [work[w] EXCEPT !.pc = "signals", !.session = s, !.pairs = P]
    OBVIOUS
  <2>2. work' = [work EXCEPT ![w] = l] /\ UNCHANGED runs
    BY <1>7, <2>1 DEF LoadSession, Become
  <2>3. P \in SUBSET Pairs
    BY <2>1 DEF TracesOf, Pairs
  <2>4. /\ l \in Local /\ l.pc = "signals" /\ l.task = work[w].task /\ l.todo = work[w].todo
        /\ l.session = s /\ l.rows = work[w].rows
    BY <1>3, <2>1, <2>3 DEF Local, Evaluating
  <2>5. LocalOK(l)
    BY <1>2, <1>3, <2>4 DEF LocalOK
  <2>6. AtWork(l, runs[r], p, tscores, sscores, home, edits)
    <3>1. Remaining(l, sscores, p) /\ Progress(l, runs[r], p)
      BY <1>2, <1>3, <2>4 DEF AtWork, Remaining, Progress, Evaluating
    <3>2. Counted(l, tscores, p)
      BY <1>2, <1>3, <2>4 DEF AtWork, Counted, Behind, Evaluating
    <3>3. edits = 0 => Undisturbed(l, runs[r], p, sscores, home)
      BY <1>2, <1>3, <1>4, <1>7, <2>4 DEF AtWork, Undisturbed, Evaluating
    <3> QED BY <3>1, <3>2, <3>3 DEF AtWork
  <2> QED BY <1>1, <1>2, <1>3, <2>2, <2>4, <2>5, <2>6, LocalStep
<1> QED BY <1>6, <1>7

\* The scores of a session, as steps D and E store them.
NewScore(s, r, wt, g, bad, ss, m) ==
  [session |-> s, metric |-> m, run |-> r,
   at |-> After({x \in ss : x.session = s /\ x.metric = m}),
   value |-> IF m \in bad THEN None ELSE Aggregate(m, wt, g),
   status |-> IF m \in bad THEN "FAILED" ELSE "SUCCESS",
   basis |-> IF m \in bad THEN {} ELSE g]

\* What a score is made from.
Storable(ss, s, r, wt, g, m) ==
  /\ IsFiniteSet(ss) /\ \A c \in ss : SessionScoreOK(c)
  /\ s \in Sessions /\ r \in Runs /\ m \in Metrics /\ wt \in Weightings /\ g \subseteq Pairs \X Readings

\* The score of a session and metric is typed, and later than the ones before it.
LEMMA NewScoreOK ==
  ASSUME NEW ss, NEW s, NEW r, NEW wt, NEW g, NEW m, NEW bad, Storable(ss, s, r, wt, g, m),
         NEW c, c = NewScore(s, r, wt, g, bad, ss, m)
  PROVE  /\ SessionScoreOK(c)
         /\ c.session = s /\ c.metric = m /\ c.run = r /\ (c.status = "FAILED" <=> m \in bad)
         /\ \A d \in ss : d.session = s /\ d.metric = m => d.at < c.at
<1>0. /\ IsFiniteSet(ss) /\ (\A x \in ss : SessionScoreOK(x)) /\ s \in Sessions /\ r \in Runs
      /\ m \in Metrics /\ wt \in Weightings /\ g \in SUBSET (Pairs \X Readings)
  BY DEF Storable
<1>1. PICK S : S = {x \in ss : x.session = s /\ x.metric = m}
  OBVIOUS
<1>2. IsFiniteSet(S) /\ \A x \in S : x.at \in Nat
  BY <1>0, <1>1, FS_Subset DEF SessionScoreOK, SessionScore
<1>3. PICK a \in Nat : a = After(S) /\ \A x \in S : x.at < a
  BY <1>2, AfterIs
<1>4. g \in SUBSET Inputs
  <2>1. Signals \subseteq Weighed
    BY Constants
  <2> QED BY <1>0, <2>1 DEF Inputs, Pairs
<1>5. PICK v \in 0..1000 : v = Aggregate(m, wt, g)
  BY <1>0, <1>4, AggregateType
<1>6. c = [session |-> s, metric |-> m, run |-> r, at |-> a, value |-> IF m \in bad THEN None ELSE v,
           status |-> IF m \in bad THEN "FAILED" ELSE "SUCCESS", basis |-> IF m \in bad THEN {} ELSE g]
  BY <1>1, <1>3, <1>5 DEF NewScore
<1>7. c.session = s /\ c.metric = m /\ c.run = r /\ c.at = a /\ (c.status = "FAILED" <=> m \in bad)
  BY <1>6
<1>8. SessionScoreOK(c)
  <2>1. CASE m \in bad
    BY <1>0, <1>6, <2>1 DEF SessionScoreOK, SessionScore
  <2>2. CASE m \notin bad
    BY <1>0, <1>6, <2>2 DEF SessionScoreOK, SessionScore
  <2> QED BY <2>1, <2>2
<1> QED BY <1>1, <1>3, <1>7, <1>8

\* Steps D and E: one score for each metric of the run, and one more session done.
LEMMA StoreOK ==
  ASSUME Inv, NEW w \in Workers, StoreSessionScores(w)
  PROVE  Inv'
<1>1. PICK r, p, s, g, wt : /\ r = work[w].task.run /\ p = plan[r] /\ wt = p.weights
                            /\ s = work[w].session /\ g = work[w].signals
  OBVIOUS
<1>2. /\ work[w].pc = "metrics" /\ UNCHANGED <<home, plan, tscores, queue, edits>>
  BY DEF StoreSessionScores
<1>3. /\ LocalOK(work[w]) /\ work[w] \in Local /\ r \in Runs /\ work[w].task \in Message
      /\ runs[r] \in Row \cup {None} /\ p \in PlanType /\ work[w].pc # "idle" /\ IsFiniteSet(p.sessions)
      /\ AtWork(work[w], runs[r], p, tscores, sscores, home, edits)
  BY <1>1, <1>2, AtStep
<1>4. CASE runs[r] = None
  <2>1. work' = [work EXCEPT ![w] = Failing(w)] /\ UNCHANGED <<runs, sscores>>
    BY <1>1, <1>4 DEF StoreSessionScores, RunOf, Become
  <2> QED BY <1>2, <1>3, <2>1, FailingStep
<1>5. CASE runs[r] # None
  <2>1. PICK bad \in SUBSET p.metrics :
          /\ sscores' = sscores \cup {NewScore(s, r, wt, g, bad, sscores, m) : m \in p.metrics}
          /\ Update(r, [runs[r] EXCEPT !.evaluated = @ + 1, !.failed = @ + Cardinality(bad)])
    <3>1. \E bad \in SUBSET plan[RunOf(w)].metrics :
            /\ sscores' = sscores \cup
                 {[session |-> work[w].session, metric |-> m, run |-> RunOf(w),
                   at |-> After({x \in sscores : x.session = work[w].session /\ x.metric = m}),
                   value |-> IF m \in bad THEN None ELSE Aggregate(m, plan[RunOf(w)].weights, work[w].signals),
                   status |-> IF m \in bad THEN "FAILED" ELSE "SUCCESS",
                   basis |-> IF m \in bad THEN {} ELSE work[w].signals] : m \in plan[RunOf(w)].metrics}
            /\ Update(RunOf(w), [runs[RunOf(w)] EXCEPT !.evaluated = @ + 1, !.failed = @ + Cardinality(bad)])
      <4>1. runs[RunOf(w)] # None
        BY <1>1, <1>5 DEF RunOf
      <4> QED BY <4>1, Zenon DEF StoreSessionScores
    <3>2. \E bad \in SUBSET plan[RunOf(w)].metrics :
            /\ sscores' = sscores \cup
                 {NewScore(work[w].session, RunOf(w), plan[RunOf(w)].weights, work[w].signals, bad, sscores, m) : m \in plan[RunOf(w)].metrics}
            /\ Update(RunOf(w), [runs[RunOf(w)] EXCEPT !.evaluated = @ + 1, !.failed = @ + Cardinality(bad)])
      BY <3>1, Zenon DEF NewScore
    <3>3. r = RunOf(w) /\ p = plan[RunOf(w)] /\ wt = plan[RunOf(w)].weights /\ s = work[w].session /\ g = work[w].signals
      BY <1>1 DEF RunOf
    <3> QED BY <3>2, <3>3, Zenon
  <2>2. PICK l : l = [work[w] EXCEPT !.pc = "next", !.todo = @ \ {s}, !.session = None, !.signals = {}]
    OBVIOUS
  <2>3. work' = [work EXCEPT ![w] = l]
    BY <1>1, <1>5, <2>2 DEF StoreSessionScores, RunOf, Become
  <2>4. PICK new : new = [m \in p.metrics |-> NewScore(s, r, wt, g, bad, sscores, m)]
    OBVIOUS
  <2>5. sscores' = sscores \cup {new[m] : m \in p.metrics}
    BY <2>1, <2>4
  <2>6. s \in work[w].todo /\ s \in Sessions /\ g \in SUBSET (Pairs \X Readings)
    BY <1>1, <1>2, <1>3 DEF LocalOK, Local
  <2>7. p.metrics \subseteq Metrics /\ IsFiniteSet(p.metrics) /\ IsFiniteSet(bad) /\ Cardinality(bad) \in Nat
    <3>1. IsFiniteSet(MetricNames)
      BY TwoFinite DEF MetricNames
    <3>2. p.metrics \subseteq Metrics /\ Metrics \subseteq MetricNames
      BY <1>3, SessionEvalAssumption DEF PlanType
    <3>3. p.metrics \subseteq MetricNames /\ bad \subseteq MetricNames
      BY <3>2
    <3> QED BY <3>1, <3>2, <3>3, FS_Subset, FS_CardinalityType
  <2>8. ASSUME NEW m \in p.metrics
        PROVE  /\ SessionScoreOK(new[m]) /\ new[m].session = s /\ new[m].metric = m /\ new[m].run = r
               /\ new[m].status = "FAILED" <=> m \in bad
               /\ \A d \in sscores : d.session = s /\ d.metric = m => d.at < new[m].at
    <3>1. new[m] = NewScore(s, r, wt, g, bad, sscores, m) /\ m \in Metrics /\ wt \in Weightings
      BY <1>1, <1>3, <2>4, <2>7 DEF PlanType
    <3>2. IsFiniteSet(sscores) /\ (\A c \in sscores : SessionScoreOK(c)) /\ r \in Runs
      BY <1>3, Unfolded
    <3>3. s \in Sessions /\ g \in SUBSET (Pairs \X Readings)
      BY <2>6
    <3>4. Storable(sscores, s, r, wt, g, m)
      BY <3>1, <3>2, <3>3 DEF Storable
    <3>5. \A c : c = NewScore(s, r, wt, g, bad, sscores, m) =>
            /\ SessionScoreOK(c)
            /\ c.session = s /\ c.metric = m /\ c.run = r /\ (c.status = "FAILED" <=> m \in bad)
            /\ \A d \in sscores : d.session = s /\ d.metric = m => d.at < c.at
      BY <3>4, NewScoreOK
    <3> QED BY <3>1, <3>5
  <2>9. work[w].todo \subseteq p.sessions /\ \A c \in sscores : c.run = r => c.session \notin work[w].todo
    BY <1>1, <1>2, <1>3 DEF AtWork, Remaining, Evaluating
  <2>10. IsFiniteSet(sscores') /\ \A c \in sscores' : SessionScoreOK(c)
    <3>1. \A y \in {new[m] : m \in p.metrics} : \E m \in p.metrics : y = new[m]
      OBVIOUS
    <3>2. IsFiniteSet({new[m] : m \in p.metrics})
      BY <2>7, <3>1, FiniteImage
    <3> QED BY <2>5, <2>8, <3>2, Unfolded, FS_Union
  <2>11. \A c : c.run # r => (c \in sscores' <=> c \in sscores)
    BY <2>5, <2>8
  <2>12. SessionScores'
    <3>1. None \notin Runs /\ plan' = plan
      BY <1>2, SessionEvalAssumption
    <3>2. ASSUME NEW c \in sscores' PROVE c.run # None => c.session \in plan[c.run].sessions /\ c.metric \in plan[c.run].metrics
      <4>1. CASE c \in sscores
        BY <4>1, Unfolded DEF SessionScores
      <4>2. CASE c \in {new[m] : m \in p.metrics}
        BY <1>1, <2>6, <2>8, <2>9, <4>2
      <4> QED BY <2>5, <4>1, <4>2
    <3>3. ASSUME NEW c \in sscores', NEW d \in sscores', c.session = d.session, c.metric = d.metric,
                 c.at = d.at \/ (c.run # None /\ c.run = d.run)
          PROVE  c = d
      <4>0. ASSUME NEW m \in p.metrics, NEW x \in sscores, x.session = s, x.metric = m
            PROVE  x.at # new[m].at /\ x.run # r
        <5>1. x.at < new[m].at /\ x.at \in Nat /\ new[m].at \in Nat
          BY <2>8, <4>0, Unfolded DEF SessionScoreOK, SessionScore
        <5> QED BY <2>6, <2>9, <4>0, <5>1
      <4>1. CASE c \in sscores /\ d \in sscores
        BY <3>3, <4>1, Unfolded DEF SessionScores
      <4>2. ASSUME NEW m \in p.metrics, c = new[m], d \in sscores PROVE FALSE
        BY <2>8, <3>3, <4>0, <4>2
      <4>3. ASSUME NEW m \in p.metrics, d = new[m], c \in sscores PROVE FALSE
        BY <2>8, <3>3, <4>0, <4>3
      <4>4. ASSUME NEW m \in p.metrics, NEW n \in p.metrics, c = new[m], d = new[n] PROVE c = d
        BY <2>8, <3>3, <4>4
      <4> QED BY <2>5, <4>1, <4>2, <4>3, <4>4
    <3> QED BY <3>1, <3>2, <3>3 DEF SessionScores
  <2>13. PICK row : row = [runs[r] EXCEPT !.evaluated = @ + 1, !.failed = @ + Cardinality(bad)]
    OBVIOUS
  <2>14. /\ row \in Row /\ runs' = [runs EXCEPT ![r] = row] /\ row.status = runs[r].status
         /\ row.evaluated = runs[r].evaluated + 1 /\ row.failed = runs[r].failed + Cardinality(bad)
    <3>1. runs[r] \in Row
      BY <1>3, <1>5
    <3>2. runs' = [runs EXCEPT ![r] = row]
      BY <1>3, <1>5, <2>1, <2>13, UpdateIs
    <3>3. PICK k \in Nat : k = Cardinality(bad)
      BY <2>7
    <3>4. PICK o : o = runs[r]
      OBVIOUS
    <3>5. PICK e \in Nat, f \in Nat : e = o.evaluated + 1 /\ f = o.failed + k
      BY <3>1, <3>3, <3>4 DEF Row
    <3>6. row = [o EXCEPT !.evaluated = e, !.failed = f]
      BY <2>13, <3>3, <3>4, <3>5
    <3>7. row \in Row /\ row.status = o.status /\ row.evaluated = e /\ row.failed = f
      BY <3>1, <3>4, <3>6 DEF Row
    <3> QED BY <3>2, <3>3, <3>4, <3>5, <3>7
  <2>15. /\ l \in Local /\ l.pc = "next" /\ l.task = work[w].task /\ l.todo = work[w].todo \ {s}
         /\ l.rows = work[w].rows /\ l.pairs = work[w].pairs
    BY <1>3, <2>2 DEF Local, Evaluating
  <2>16. LocalOK(l)
    BY <1>2, <1>3, <2>15 DEF LocalOK
  <2>17. Remaining(l, sscores', p)
    BY <1>1, <2>5, <2>8, <2>9, <2>15 DEF Remaining
  <2>18. Counted(l, tscores, p)
    <3>1. Behind(l, p) = Behind(work[w], p)
      BY <1>1, <1>2, <2>15 DEF Behind
    <3> QED BY <1>2, <1>3, <2>15, <3>1 DEF AtWork, Counted, Evaluating
  <2>19. PICK O, N : O = p.sessions \ work[w].todo /\ N = p.sessions \ l.todo
    OBVIOUS
  <2>20. N = O \cup {s} /\ s \notin O /\ O \subseteq p.sessions
    BY <2>6, <2>9, <2>15, <2>19
  <2>21. Progress(l, row, p)
    <3>1. /\ IsFiniteSet(O) /\ Cardinality(O) \in Nat /\ Cardinality(N) = Cardinality(O) + 1
      BY <1>3, <2>20, FS_Subset, FS_CardinalityType, FS_AddElement
    <3>2. runs[r].status = "RUNNING" /\ runs[r].evaluated = Cardinality(O)
      BY <1>2, <1>3, <1>5, <2>19 DEF AtWork, Progress, Evaluating
    <3> QED BY <2>14, <2>19, <3>1, <3>2 DEF Progress
  <2>22. ASSUME edits = 0 PROVE Undisturbed(l, row, p, sscores', home)
    <3>1. /\ Scored(sscores, r) = {q \in O : Visited(home, q)} \X p.metrics
          /\ runs[r].failed = Cardinality(FailedIn(sscores, r)) /\ Visited(home, s)
      BY <1>1, <1>2, <1>3, <1>5, <2>19, <2>22 DEF AtWork, Undisturbed, Evaluating
    <3>2. Scored(sscores', r) = Scored(sscores, r) \cup ({s} \X p.metrics)
      BY <2>5, <2>8 DEF Scored
    <3>3. {q \in N : Visited(home, q)} = {q \in O : Visited(home, q)} \cup {s}
      BY <2>20, <3>1
    <3>4. Scored(sscores', r) = {q \in N : Visited(home, q)} \X p.metrics
      BY <3>1, <3>2, <3>3
    <3>5. PICK A, B : A = FailedIn(sscores, r) /\ B = {new[m] : m \in bad}
      OBVIOUS
    <3>6. FailedIn(sscores', r) = A \cup B
      BY <2>5, <2>8, <3>5 DEF FailedIn
    <3>7. A \cap B = {}
      <4>1. \A c \in A : c.session # s
        BY <2>6, <2>9, <3>5 DEF FailedIn
      <4>2. \A c \in B : c.session = s
        BY <2>8, <3>5
      <4> QED BY <4>1, <4>2
    <3>8. IsFiniteSet(A) /\ Cardinality(A) \in Nat
      <4>1. A \subseteq sscores
        BY <3>5 DEF FailedIn
      <4> QED BY <4>1, Unfolded, FS_Subset, FS_CardinalityType
    <3>9. IsFiniteSet(B) /\ Cardinality(B) = Cardinality(bad)
      <4>1. \A y \in B : \E m \in bad : y = new[m]
        BY <3>5
      <4>2. IsFiniteSet(B) /\ Cardinality(B) \in Nat /\ Cardinality(B) <= Cardinality(bad)
        BY <2>7, <4>1, FiniteImage
      <4> DEFINE h == [c \in B |-> c.metric]
      <4>3. \A m \in bad : \E c \in B : m = h[c]
        <5>1. ASSUME NEW m \in bad PROVE \E c \in B : m = h[c]
          <6>1. new[m] \in B /\ new[m].metric = m
            BY <2>8, <3>5
          <6> QED BY <6>1
        <5> QED BY <5>1
      <4> HIDE DEF h
      <4>4. Cardinality(bad) <= Cardinality(B)
        BY <4>2, <4>3, FiniteImage
      <4> QED BY <2>7, <4>2, <4>4
    <3>10. Cardinality(A \cup B) = Cardinality(A) + Cardinality(bad)
      <4>1. Cardinality(A \cup B) = Cardinality(A) + Cardinality(B) - Cardinality(A \cap B)
        BY <3>8, <3>9, FS_Union
      <4>2. Cardinality(A \cap B) = 0
        BY <3>7, FS_EmptySet
      <4> QED BY <2>7, <3>8, <3>9, <4>1, <4>2
    <3>11. row.failed = Cardinality(FailedIn(sscores', r))
      BY <2>14, <3>1, <3>5, <3>6, <3>10
    <3> QED BY <1>1, <2>15, <2>19, <3>4, <3>11 DEF Undisturbed
  <2>23. AtWork(l, row, p, tscores, sscores', home, edits)
    BY <2>17, <2>18, <2>21, <2>22 DEF AtWork
  <2>24. /\ IsFiniteSet(tscores') /\ \A c \in tscores' : TraceScoreOK(c)
         /\ \A x \in Pairs : Cardinality(StoredIn(tscores', r, x)) <= Cardinality(plan[r].sessions)
    BY <1>2, <1>3, Unfolded
  <2> QED BY <1>1, <1>2, <1>3, <2>3, <2>10, <2>11, <2>12, <2>14, <2>15, <2>16, <2>23, <2>24, WorkerStep
<1> QED BY <1>4, <1>5

\* Nothing is asked of a worker that has not begun.
LEMMA NotEvaluating ==
  ASSUME NEW l, l.pc \notin Evaluating, NEW row, NEW p, NEW ts, NEW ss, NEW h, NEW e
  PROVE  AtWork(l, row, p, ts, ss, h, e)
BY DEF AtWork, Remaining, Counted, Progress, Undisturbed

\* A worker takes a task.
LEMMA TakeOK ==
  ASSUME Inv, NEW w \in Workers, NEW m \in queue, Take(w, m)
  PROVE  Inv'
<1>1. PICK l : l = [Idle EXCEPT !.pc = "start", !.task = m]
  OBVIOUS
<1>2. /\ work[w].pc = "idle" /\ queue' = queue \ {m} /\ work' = [work EXCEPT ![w] = l]
      /\ UNCHANGED <<home, runs, plan, tscores, sscores, edits>>
  BY <1>1 DEF Take, Become
<1>3. m \in Message /\ OneTask
  BY Unfolded
<1>4. l.pc = "start" /\ l.task = m /\ LocalOK(l)
  BY <1>1, <1>3, FS_EmptySet DEF Idle, LocalOK, Local
<1>5. DOMAIN work' = Workers /\ \A v \in Workers : work'[v] = IF v = w THEN l ELSE work[v]
  BY <1>2, Unfolded
<1>6. OneTask'
  <2>1. \A n \in queue' : plan'[n.run] # NoPlan /\ \A k \in queue' : n.run = k.run => n = k
    BY <1>2, <1>3 DEF OneTask
  <2>2. ASSUME NEW v \in Workers, work'[v].pc # "idle"
        PROVE  /\ plan'[work'[v].task.run] # NoPlan
               /\ \A n \in queue' : n.run # work'[v].task.run
               /\ \A u \in Workers : work'[u].pc # "idle" /\ work'[u].task.run = work'[v].task.run => u = v
    <3>1. \A u \in Workers : work[u].pc # "idle" => work[u].task.run # m.run
      BY <1>3 DEF OneTask
    <3>2. \A n \in queue' : n.run # m.run
      BY <1>2, <1>3 DEF OneTask
    <3>3. CASE v = w
      BY <1>2, <1>3, <1>4, <1>5, <3>1, <3>2, <3>3 DEF OneTask
    <3>4. CASE v # w
      BY <1>2, <1>3, <1>4, <1>5, <2>2, <3>1, <3>4 DEF OneTask
    <3> QED BY <3>3, <3>4
  <2> QED BY <2>1, <2>2 DEF OneTask
<1>7. SessionScores'
  BY <1>2, Unfolded DEF SessionScores
<1>8. \A r \in Runs, x \in Pairs :
        Cardinality(StoredIn(tscores', r, x)) <= Cardinality(plan'[r].sessions)
  BY <1>2, Unfolded
<1>9. ASSUME NEW v \in Workers, work'[v].pc # "idle"
      PROVE  AtWork(work'[v], runs'[work'[v].task.run], plan'[work'[v].task.run], tscores', sscores',
                    home', edits')
  <2>1. CASE v = w
    BY <1>4, <1>5, <2>1, NotEvaluating DEF Evaluating
  <2>2. CASE v # w
    BY <1>2, <1>5, <1>9, <2>2, Unfolded
  <2> QED BY <2>1, <2>2
<1>10. \A v \in Workers : LocalOK(work'[v])
  BY <1>4, <1>5, Unfolded
<1>11. queue' \subseteq Message
  BY <1>2, Unfolded
<1> QED BY <1>2, <1>5, <1>6, <1>7, <1>8, <1>9, <1>10, <1>11, Unfolded, Folded

-----------------------------------------------------------------------------
(* The requests.                                                           *)

\* A run that has no plan has no task and no scores.
LEMMA Unplanned ==
  ASSUME Inv, NEW r \in Runs, plan[r] = NoPlan
  PROVE  /\ \A m \in queue : m.run # r
         /\ \A w \in Workers : work[w].pc # "idle" => work[w].task.run # r
         /\ \A c \in sscores : c.run # r
         /\ \A x \in Pairs : Cardinality(StoredIn(tscores, r, x)) <= 0
<1>1. (\A m \in queue : m.run # r) /\ \A w \in Workers : work[w].pc # "idle" => work[w].task.run # r
  BY Unfolded DEF OneTask
<1>2. \A c \in sscores : c.run # r
  <2>1. r # None
    BY SessionEvalAssumption
  <2> QED BY <2>1, Unfolded DEF SessionScores, NoPlan
<1>3. \A x \in Pairs : Cardinality(StoredIn(tscores, r, x)) <= 0
  <2>1. \A x \in Pairs : Cardinality(StoredIn(tscores, r, x)) <= Cardinality(plan[r].sessions)
    BY Unfolded
  <2>2. Cardinality(plan[r].sessions) = 0
    BY FS_EmptySet DEF NoPlan
  <2> QED BY <2>1, <2>2
<1> QED BY <1>1, <1>2, <1>3

\* Dispatch keeps the invariant: the run is new, so nothing refers to it yet.
LEMMA DispatchOK ==
  ASSUME Inv, NEW r \in Runs, NEW p \in PlanType, p.metrics # {}, Dispatch(r, p)
  PROVE  Inv'
<1>1. PICK m, row : m = [run |-> r, try |-> 0] /\ row = [status |-> "PENDING", evaluated |-> 0, failed |-> 0]
  OBVIOUS
<1>2. /\ plan[r] = NoPlan /\ plan' = [plan EXCEPT ![r] = p] /\ runs' = [runs EXCEPT ![r] = row]
      /\ queue' = queue \cup {m} /\ UNCHANGED <<home, tscores, sscores, work, edits>>
  BY <1>1 DEF Dispatch
<1>3. m \in Message /\ m.run = r /\ row \in Row
  BY <1>1, SessionEvalAssumption DEF Message, Row
<1>4. plan' \in [Runs -> PlanType] /\ \A q \in Runs : plan'[q] = IF q = r THEN p ELSE plan[q]
  BY <1>2, Unfolded
<1>5. runs' \in [Runs -> Row \cup {None}] /\ \A q \in Runs : runs'[q] = IF q = r THEN row ELSE runs[q]
  BY <1>2, <1>3, Unfolded
<1>6. p # NoPlan
  BY DEF NoPlan
<1>7. /\ \A n \in queue : n.run # r
      /\ \A w \in Workers : work[w].pc # "idle" => work[w].task.run # r
      /\ \A c \in sscores : c.run # r
      /\ \A x \in Pairs : Cardinality(StoredIn(tscores, r, x)) <= 0
  BY <1>2, Unplanned
<1>8. (\A n \in queue : n.run \in Runs) /\ \A w \in Workers : work[w].pc # "idle" => work[w].task.run \in Runs
  BY Unfolded DEF LocalOK, Message
<1>9. OneTask'
  <2>1. \A n \in queue' : plan'[n.run] # NoPlan /\ \A k \in queue' : n.run = k.run => n = k
    BY <1>2, <1>3, <1>4, <1>6, <1>7, <1>8, Unfolded DEF OneTask
  <2>2. ASSUME NEW v \in Workers, work'[v].pc # "idle"
        PROVE  /\ plan'[work'[v].task.run] # NoPlan
               /\ \A n \in queue' : n.run # work'[v].task.run
               /\ \A u \in Workers : work'[u].pc # "idle" /\ work'[u].task.run = work'[v].task.run => u = v
    <3>1. work[v].pc # "idle" /\ work[v].task.run # r /\ work[v].task.run \in Runs /\ work' = work
      BY <1>2, <1>7, <1>8, <2>2
    <3> QED BY <1>2, <1>3, <1>4, <3>1, Unfolded DEF OneTask
  <2> QED BY <2>1, <2>2 DEF OneTask
<1>10. SessionScores'
  <2>1. ASSUME NEW c \in sscores, c.run # None PROVE plan'[c.run] = plan[c.run]
    <3>1. c.run \in Runs
      BY <2>1, Unfolded DEF SessionScoreOK, SessionScore
    <3> QED BY <1>4, <1>7, <3>1
  <2> QED BY <1>2, <2>1, Unfolded DEF SessionScores
<1>11. ASSUME NEW q \in Runs, NEW x \in Pairs
       PROVE  Cardinality(StoredIn(tscores', q, x)) <= Cardinality(plan'[q].sessions)
  <2>1. CASE q # r
    BY <1>2, <1>4, <2>1, Unfolded
  <2>2. CASE q = r
    <3>1. Cardinality(p.sessions) \in Nat
      BY Constants, FS_Subset, FS_CardinalityType DEF PlanType
    <3>2. Cardinality(StoredIn(tscores, r, x)) \in Nat
      <4>1. StoredIn(tscores, r, x) \subseteq tscores
        BY DEF StoredIn
      <4> QED BY <4>1, Unfolded, FS_Subset, FS_CardinalityType
    <3>3. Cardinality(StoredIn(tscores, r, x)) <= 0
      BY <1>7
    <3>4. Cardinality(StoredIn(tscores, r, x)) <= Cardinality(p.sessions)
      BY <3>1, <3>2, <3>3
    <3> QED BY <1>2, <1>4, <2>2, <3>4
  <2> QED BY <2>1, <2>2
<1>12. ASSUME NEW v \in Workers, work'[v].pc # "idle"
       PROVE  AtWork(work'[v], runs'[work'[v].task.run], plan'[work'[v].task.run], tscores', sscores',
                     home', edits')
  <2>1. work[v].pc # "idle" /\ work[v].task.run # r /\ work[v].task.run \in Runs /\ work' = work
    BY <1>2, <1>7, <1>8, <1>12
  <2>2. runs'[work[v].task.run] = runs[work[v].task.run] /\ plan'[work[v].task.run] = plan[work[v].task.run]
    BY <1>4, <1>5, <2>1
  <2> QED BY <1>2, <2>1, <2>2, Unfolded
<1>13. queue' \subseteq Message
  BY <1>2, <1>3, Unfolded
<1> QED BY <1>2, <1>4, <1>5, <1>9, <1>10, <1>11, <1>12, <1>13, Unfolded, Folded

\* create_session_eval_run and create_batch_session_eval_run.
LEMMA RequestOK ==
  ASSUME Inv, NEW r \in Runs, Request(r)
  PROVE  Inv'
<1>1. PICK a \in Asked : \/ CreateRun(r, a.sessions, Metrics, a.weights)
                        \/ CreateBatchRun(r, a.sessions, Metrics, a.weights)
  BY DEF Request
<1>2. PICK p : p = [sessions |-> a.sessions, metrics |-> Metrics, weights |-> a.weights]
  OBVIOUS
<1>3. Dispatch(r, p)
  BY <1>1, <1>2 DEF CreateRun, CreateBatchRun
<1>4. p \in PlanType /\ p.metrics # {}
  BY <1>2, SessionEvalAssumption DEF PlanType
<1> QED BY <1>3, <1>4, DispatchOK

\* retry_failed_session_scores.
LEMMA RetryOK ==
  ASSUME Inv, NEW r \in Runs, NEW q \in Runs, RetryFailed(r, q)
  PROVE  Inv'
<1>1. PICK F, p : /\ F = FailedScores(q)
                  /\ p = [sessions |-> {x.session : x \in F}, metrics |-> {x.metric : x \in F},
                          weights |-> plan[q].weights]
  OBVIOUS
<1>2. Dispatch(r, p) /\ F # {}
  BY <1>1 DEF RetryFailed
<1>3. \A x \in F : x.session \in Sessions /\ x.metric \in Metrics
  BY <1>1, Unfolded DEF FailedScores, SessionScoreOK, SessionScore
<1>4. p \in PlanType /\ p.metrics # {}
  BY <1>1, <1>2, <1>3, Unfolded DEF PlanType
<1> QED BY <1>2, <1>4, DispatchOK

-----------------------------------------------------------------------------
(* The users.                                                              *)

\* What users do leaves tasks and plans alone; the trace scores of runs are some of those
\* that were there, perhaps changed, and so are the session scores.
LEMMA UserStep ==
  ASSUME Inv, UNCHANGED <<plan, queue, work>>, edits < MaxEdits, edits' = edits + 1,
         home' \in [Traces -> Sessions \cup {None}], runs' \in [Runs -> Row \cup {None}],
         \A q \in Runs : runs'[q] = runs[q] \/ runs'[q] = None,
         IsFiniteSet(tscores'), \A c \in tscores' : TraceScoreOK(c),
         NEW f, \A y \in tscores' : y.run # None => \E d \in tscores : y = f[d] /\ d.run = y.run /\ d.pair = y.pair,
         IsFiniteSet(sscores'), \A c \in sscores' : SessionScoreOK(c), SessionScores',
         \A y \in sscores' : y.run # None => \E d \in sscores : d.run = y.run /\ d.session = y.session
  PROVE  Inv'
<1>1. edits' \in 0..MaxEdits /\ edits' # 0
  BY Unfolded, SessionEvalAssumption
<1>2. OneTask'
  BY Unfolded DEF OneTask
<1>3. ASSUME NEW q \in Runs, NEW x
      PROVE  /\ Cardinality(StoredIn(tscores, q, x)) \in Nat /\ Cardinality(StoredIn(tscores', q, x)) \in Nat
             /\ Cardinality(StoredIn(tscores', q, x)) <= Cardinality(StoredIn(tscores, q, x))
  <2>1. PICK A, B : A = StoredIn(tscores, q, x) /\ B = StoredIn(tscores', q, x)
    OBVIOUS
  <2>2. A \subseteq tscores
    BY <2>1 DEF StoredIn
  <2>3. IsFiniteSet(A) /\ Cardinality(A) \in Nat
    BY <2>2, Unfolded, FS_Subset, FS_CardinalityType
  <2>4. q # None
    BY SessionEvalAssumption
  <2>5. \A y \in B : \E d \in A : y = f[d]
    BY <2>1, <2>4 DEF StoredIn
  <2>6. IsFiniteSet(B) /\ Cardinality(B) \in Nat /\ Cardinality(B) <= Cardinality(A)
    BY <2>3, <2>5, FiniteImage
  <2> QED BY <2>1, <2>3, <2>6
<1>4. ASSUME NEW q \in Runs, NEW x \in Pairs
      PROVE  Cardinality(StoredIn(tscores', q, x)) <= Cardinality(plan'[q].sessions)
  <2>1. Cardinality(plan[q].sessions) \in Nat
    BY Constants, Unfolded, FS_Subset, FS_CardinalityType DEF PlanType
  <2>2. Cardinality(StoredIn(tscores, q, x)) <= Cardinality(plan[q].sessions) /\ plan' = plan
    BY Unfolded
  <2> QED BY <1>3, <2>1, <2>2
<1>5. ASSUME NEW v \in Workers, work'[v].pc # "idle"
      PROVE  AtWork(work'[v], runs'[work'[v].task.run], plan'[work'[v].task.run], tscores', sscores',
                    home', edits')
  <2>1. PICK l, r, p : l = work[v] /\ r = l.task.run /\ p = plan[r]
    OBVIOUS
  <2>2. /\ l.pc # "idle" /\ r \in Runs /\ p \in PlanType /\ IsFiniteSet(p.sessions)
        /\ AtWork(l, runs[r], p, tscores, sscores, home, edits)
    BY <1>5, <2>1, AtStep
  <2>3. r # None
    BY <2>2, SessionEvalAssumption
  <2>4. Remaining(l, sscores', p)
    <3>1. Remaining(l, sscores, p)
      BY <2>2 DEF AtWork
    <3> QED BY <2>1, <2>3, <3>1 DEF Remaining
  <2>5. Counted(l, tscores', p)
    <3>1. Counted(l, tscores, p)
      BY <2>2 DEF AtWork
    <3>2. Cardinality(Behind(l, p)) \in Nat
      <4>1. Behind(l, p) \subseteq p.sessions
        BY DEF Behind
      <4> QED BY <2>2, <4>1, FS_Subset, FS_CardinalityType
    <3>3. ASSUME NEW x \in Pairs, l.pc \in Evaluating
          PROVE  Cardinality(StoredIn(tscores', r, x)) <= Cardinality(Behind(l, p))
      <4>1. Cardinality(StoredIn(tscores, r, x)) <= Cardinality(Behind(l, p))
        BY <2>1, <3>1, <3>3 DEF Counted
      <4> QED BY <1>3, <2>2, <3>2, <4>1
    <3> QED BY <2>1, <3>3 DEF Counted
  <2>6. Progress(l, runs'[r], p)
    <3>1. Progress(l, runs[r], p)
      BY <2>2 DEF AtWork
    <3>2. runs'[r] = runs[r] \/ runs'[r] = None
      BY <2>2
    <3> QED BY <3>1, <3>2 DEF Progress
  <2>7. AtWork(l, runs'[r], p, tscores', sscores', home', edits')
    BY <1>1, <2>4, <2>5, <2>6 DEF AtWork
  <2> QED BY <2>1, <2>7
<1> QED BY <1>1, <1>2, <1>4, <1>5, Unfolded, Folded

\* Session scores that are some of those that were there.
LEMMA SomeScores ==
  ASSUME Inv, plan' = plan, sscores' \subseteq sscores
  PROVE  /\ IsFiniteSet(sscores') /\ (\A c \in sscores' : SessionScoreOK(c)) /\ SessionScores'
         /\ \A y \in sscores' : y.run # None => \E d \in sscores : d.run = y.run /\ d.session = y.session
<1>1. IsFiniteSet(sscores') /\ \A c \in sscores' : SessionScoreOK(c)
  BY Unfolded, FS_Subset
<1>2. SessionScores'
  BY Unfolded DEF SessionScores
<1> QED BY <1>1, <1>2

\* Trace scores that are some of those that were there.
LEMMA SomeTraceScores ==
  ASSUME Inv, tscores' \subseteq tscores
  PROVE  /\ IsFiniteSet(tscores') /\ (\A c \in tscores' : TraceScoreOK(c))
         /\ \E f : \A y \in tscores' :
              y.run # None => \E d \in tscores : y = f[d] /\ d.run = y.run /\ d.pair = y.pair
<1>1. IsFiniteSet(tscores') /\ \A c \in tscores' : TraceScoreOK(c)
  BY Unfolded, FS_Subset
<1>2. PICK f : f = [d \in tscores |-> d]
  OBVIOUS
<1>3. \A y \in tscores' : y.run # None => \E d \in tscores : y = f[d] /\ d.run = y.run /\ d.pair = y.pair
  BY <1>2
<1> QED BY <1>1, <1>3

\* What every operation of a user has in common.
LEMMA EditIs ==
  ASSUME NEW what, Edit(what)
  PROVE  edits < MaxEdits /\ edits' = edits + 1 /\ UNCHANGED <<plan, queue, work>>
BY DEF Edit

\* CreateScore keeps the invariant: the score belongs to no run.
LEMMA CreateScoreOK ==
  ASSUME Inv, NEW x \in Pairs, NEW type \in {"NUMERIC", "CATEGORICAL"}, NEW v, CreateScore(x, type, v)
  PROVE  Inv'
<1>1. PICK n : n = After(RowsOf(x))
  OBVIOUS
<1>2. PICK c : c = [pair |-> x, type |-> type, value |-> v, status |-> "SUCCESS", run |-> None,
                    manual |-> TRUE, at |-> n]
  OBVIOUS
<1>3. Edit("annotate") /\ v \in Accepted(type) /\ tscores' = tscores \cup {c} /\ UNCHANGED <<home, runs, sscores>>
  BY <1>1, <1>2 DEF CreateScore
<1>4. n \in Nat
  BY <1>1, NewRow
<1>5. TraceScoreOK(c) /\ c.run = None
  BY <1>2, <1>3, <1>4 DEF TraceScoreOK, TraceScore, Accepted, Readings
<1>6. IsFiniteSet(tscores') /\ \A d \in tscores' : TraceScoreOK(d)
  BY <1>3, <1>5, Unfolded, FS_AddElement
<1>7. PICK f : f = [d \in tscores |-> d]
  OBVIOUS
<1>8. \A y \in tscores' : y.run # None => \E d \in tscores : y = f[d] /\ d.run = y.run /\ d.pair = y.pair
  BY <1>3, <1>5, <1>7
<1>9. edits < MaxEdits /\ edits' = edits + 1 /\ UNCHANGED <<plan, queue, work>>
  BY <1>3, EditIs
<1>10. /\ IsFiniteSet(sscores') /\ (\A d \in sscores' : SessionScoreOK(d)) /\ SessionScores'
       /\ \A y \in sscores' : y.run # None => \E d \in sscores : d.run = y.run /\ d.session = y.session
  BY <1>3, <1>9, SomeScores
<1>11. /\ home' \in [Traces -> Sessions \cup {None}] /\ runs' \in [Runs -> Row \cup {None}]
       /\ \A q \in Runs : runs'[q] = runs[q] \/ runs'[q] = None
  BY <1>3, Unfolded
<1> QED BY <1>6, <1>8, <1>9, <1>10, <1>11, UserStep

\* UpdateScore keeps the invariant: the run and the pair of a score stay.
LEMMA UpdateScoreOK ==
  ASSUME Inv, NEW c \in tscores, NEW v, UpdateScore(c, v)
  PROVE  Inv'
<1>1. PICK e : e = [c EXCEPT !.value = v, !.status = "SUCCESS", !.manual = TRUE]
  OBVIOUS
<1>2. Edit("edit") /\ v \in Accepted(c.type) \cup {c.value} /\ tscores' = (tscores \ {c}) \cup {e} /\ UNCHANGED <<home, runs, sscores>>
  BY <1>1 DEF UpdateScore
<1>3. TraceScoreOK(c)
  BY Unfolded
<1>4. TraceScoreOK(e) /\ e.run = c.run /\ e.pair = c.pair
  BY <1>1, <1>2, <1>3 DEF TraceScoreOK, TraceScore, Accepted, Readings
<1>5. IsFiniteSet(tscores') /\ \A d \in tscores' : TraceScoreOK(d)
  <2>1. IsFiniteSet(tscores \ {c})
    BY Unfolded, FS_Subset
  <2>2. IsFiniteSet(tscores')
    BY <1>2, <2>1, FS_AddElement
  <2> QED BY <1>2, <1>4, <2>2, Unfolded
<1>6. PICK f : f = [d \in tscores |-> IF d = c THEN e ELSE d]
  OBVIOUS
<1>7. \A y \in tscores' : y.run # None => \E d \in tscores : y = f[d] /\ d.run = y.run /\ d.pair = y.pair
  BY <1>2, <1>4, <1>6
<1>8. edits < MaxEdits /\ edits' = edits + 1 /\ UNCHANGED <<plan, queue, work>>
  BY <1>2, EditIs
<1>9. /\ IsFiniteSet(sscores') /\ (\A d \in sscores' : SessionScoreOK(d)) /\ SessionScores'
      /\ \A y \in sscores' : y.run # None => \E d \in sscores : d.run = y.run /\ d.session = y.session
  BY <1>2, <1>8, SomeScores
<1>10. /\ home' \in [Traces -> Sessions \cup {None}] /\ runs' \in [Runs -> Row \cup {None}]
       /\ \A q \in Runs : runs'[q] = runs[q] \/ runs'[q] = None
  BY <1>2, Unfolded
<1> QED BY <1>5, <1>7, <1>8, <1>9, <1>10, UserStep

\* A user removes scores, or changes traces.
LEMMA RemoveOK ==
  ASSUME Inv, NEW what, Edit(what), tscores' \subseteq tscores, sscores' \subseteq sscores,
         home' \in [Traces -> Sessions \cup {None}], runs' \in [Runs -> Row \cup {None}],
         \A q \in Runs : runs'[q] = runs[q] \/ runs'[q] = None
  PROVE  Inv'
<1>1. edits < MaxEdits /\ edits' = edits + 1 /\ UNCHANGED <<plan, queue, work>>
  BY EditIs
<1>2. /\ IsFiniteSet(sscores') /\ (\A d \in sscores' : SessionScoreOK(d)) /\ SessionScores'
      /\ \A y \in sscores' : y.run # None => \E d \in sscores : d.run = y.run /\ d.session = y.session
  BY <1>1, SomeScores
<1>3. IsFiniteSet(tscores') /\ \A d \in tscores' : TraceScoreOK(d)
  BY SomeTraceScores
<1>4. PICK f : \A y \in tscores' : y.run # None => \E d \in tscores : y = f[d] /\ d.run = y.run /\ d.pair = y.pair
  BY SomeTraceScores
<1> QED BY <1>1, <1>2, <1>3, <1>4, UserStep

\* Deleting scores keeps the invariant.
LEMMA DeleteScoresOK ==
  ASSUME Inv, \/ \E c \in tscores : DeleteScore(c)
              \/ \E c \in sscores : DeleteSessionScore(c)
  PROVE  Inv'
<1>1. /\ Edit("delete") /\ tscores' \subseteq tscores /\ sscores' \subseteq sscores /\ UNCHANGED <<home, runs>>
  BY DEF DeleteScore, DeleteSessionScore
<1>2. /\ home' \in [Traces -> Sessions \cup {None}] /\ runs' \in [Runs -> Row \cup {None}]
      /\ \A q \in Runs : runs'[q] = runs[q] \/ runs'[q] = None
  BY <1>1, Unfolded
<1> QED BY <1>1, <1>2, RemoveOK

\* ChangeTrace keeps the invariant: only the exact scores depend on where a trace is, and
\* they are claimed while there is no edit.
LEMMA ChangeTraceOK ==
  ASSUME Inv, NEW t \in Traces, NEW s \in Sessions \cup {None}, ChangeTrace(t, s)
  PROVE  Inv'
<1>1. PICK what : Edit(what)
  BY DEF ChangeTrace
<1>2. /\ tscores' \subseteq tscores /\ sscores' \subseteq sscores /\ home' = [home EXCEPT ![t] = s] /\ runs' = runs
  BY DEF ChangeTrace
<1>3. /\ home' \in [Traces -> Sessions \cup {None}] /\ runs' \in [Runs -> Row \cup {None}]
      /\ \A q \in Runs : runs'[q] = runs[q] \/ runs'[q] = None
  BY <1>2, Unfolded
<1> QED BY <1>1, <1>2, <1>3, RemoveOK

\* A score that loses its run keeps the rest.
LEMMA DetachedTraceScore ==
  ASSUME NEW d, TraceScoreOK(d), NEW r, NEW q, q = (IF d.run = r THEN None ELSE d.run),
         NEW e, e = [d EXCEPT !.run = q]
  PROVE  TraceScoreOK(e) /\ e.pair = d.pair /\ e.run = q
<1>1. q \in Runs \cup {None}
  BY DEF TraceScoreOK, TraceScore
<1> QED BY <1>1 DEF TraceScoreOK, TraceScore

\* A session score whose run is set to null stays typed and keeps its place.
LEMMA DetachedSessionScore ==
  ASSUME NEW d, SessionScoreOK(d), NEW r, NEW q, q = (IF d.run = r THEN None ELSE d.run),
         NEW e, e = [d EXCEPT !.run = q]
  PROVE  /\ SessionScoreOK(e) /\ e.run = q
         /\ e.session = d.session /\ e.metric = d.metric /\ e.at = d.at
<1>1. q \in Runs \cup {None}
  BY DEF SessionScoreOK, SessionScore
<1> QED BY <1>1 DEF SessionScoreOK, SessionScore

\* DeleteRun keeps the invariant, with the scores deleted or detached.
LEMMA DeleteRunOK ==
  ASSUME Inv, NEW r \in Runs, NEW all \in BOOLEAN, DeleteRun(r, all)
  PROVE  Inv'
<1>1. Edit("delete") /\ runs' = [runs EXCEPT ![r] = None] /\ home' = home
  BY DEF DeleteRun
<1>2. /\ home' \in [Traces -> Sessions \cup {None}] /\ runs' \in [Runs -> Row \cup {None}]
      /\ \A q \in Runs : runs'[q] = runs[q] \/ runs'[q] = None
  BY <1>1, Unfolded
<1>3. CASE all
  <2>1. tscores' \subseteq tscores /\ sscores' \subseteq sscores
    BY <1>3 DEF DeleteRun
  <2> QED BY <1>1, <1>2, <2>1, RemoveOK
<1>4. CASE ~all
  <2>1. /\ tscores' = {[c EXCEPT !.run = IF @ = r THEN None ELSE @] : c \in tscores}
        /\ sscores' = {[c EXCEPT !.run = IF @ = r THEN None ELSE @] : c \in sscores}
    BY <1>4 DEF DeleteRun
  <2>2. PICK f : f = [d \in tscores |-> [d EXCEPT !.run = IF @ = r THEN None ELSE @]]
    BY Zenon
  <2>3. PICK g : g = [d \in sscores |-> [d EXCEPT !.run = IF @ = r THEN None ELSE @]]
    BY Zenon
  <2>4. (\A y \in tscores' : \E d \in tscores : y = f[d]) /\ \A y \in sscores' : \E d \in sscores : y = g[d]
    BY <2>1, <2>2, <2>3
  <2>5. ASSUME NEW d \in tscores
        PROVE  TraceScoreOK(f[d]) /\ f[d].pair = d.pair /\ f[d].run = IF d.run = r THEN None ELSE d.run
    <3>1. PICK q : q = IF d.run = r THEN None ELSE d.run
      OBVIOUS
    <3>2. f[d] = [d EXCEPT !.run = q]
      BY <2>2, <3>1
    <3>3. TraceScoreOK(d)
      BY Unfolded
    <3> QED BY <3>1, <3>2, <3>3, DetachedTraceScore
  <2>6. ASSUME NEW d \in sscores
        PROVE  /\ SessionScoreOK(g[d]) /\ g[d].run = IF d.run = r THEN None ELSE d.run
               /\ g[d].session = d.session /\ g[d].metric = d.metric /\ g[d].at = d.at
    <3>1. PICK q : q = IF d.run = r THEN None ELSE d.run
      OBVIOUS
    <3>2. g[d] = [d EXCEPT !.run = q]
      BY <2>3, <3>1
    <3>3. SessionScoreOK(d)
      BY Unfolded
    <3> QED BY <3>1, <3>2, <3>3, DetachedSessionScore
  <2>7. IsFiniteSet(tscores') /\ IsFiniteSet(sscores')
    BY <2>4, Unfolded, FiniteImage
  <2>8. /\ \A c \in tscores' : TraceScoreOK(c)
        /\ \A y \in tscores' : y.run # None => \E d \in tscores : y = f[d] /\ d.run = y.run /\ d.pair = y.pair
    BY <2>4, <2>5
  <2>9. /\ \A c \in sscores' : SessionScoreOK(c)
        /\ \A y \in sscores' : y.run # None => \E d \in sscores : d.run = y.run /\ d.session = y.session
    BY <2>4, <2>6
  <2>10. edits < MaxEdits /\ edits' = edits + 1 /\ UNCHANGED <<plan, queue, work>>
    BY <1>1, EditIs
  <2>11. SessionScores'
    <3>1. ASSUME NEW c \in sscores', c.run # None
          PROVE  c.session \in plan[c.run].sessions /\ c.metric \in plan[c.run].metrics
      BY <2>4, <2>6, <3>1, Unfolded DEF SessionScores
    <3>2. ASSUME NEW c \in sscores', NEW d \in sscores', c.session = d.session, c.metric = d.metric,
                 c.at = d.at \/ (c.run # None /\ c.run = d.run)
          PROVE  c = d
      <4>1. PICK a \in sscores, b \in sscores : c = g[a] /\ d = g[b]
        BY <2>4
      <4>2. a.session = b.session /\ a.metric = b.metric /\ (a.at = b.at \/ (a.run # None /\ a.run = b.run))
        BY <2>6, <3>2, <4>1
      <4> QED BY <4>1, <4>2, Unfolded DEF SessionScores
    <3> QED BY <2>10, <3>1, <3>2 DEF SessionScores
  <2> QED BY <1>2, <2>7, <2>8, <2>9, <2>10, <2>11, UserStep
<1> QED BY <1>3, <1>4

-----------------------------------------------------------------------------
(* The theorems.                                                           *)

\* The invariant holds when there are no runs.
LEMMA InitInv == Init => Inv
<1> SUFFICES ASSUME Init PROVE Inv
  OBVIOUS
<1>1. Types
  <2>1. \A w \in Workers : LocalOK(work[w])
    BY IdleOK DEF Init
  <2>2. NoPlan \in PlanType
    BY SessionEvalAssumption DEF NoPlan, PlanType
  <2>3. home \in [Traces -> Sessions \cup {None}]
    BY SessionEvalAssumption DEF Init
  <2>4. edits \in 0..MaxEdits
    BY SessionEvalAssumption DEF Init
  <2> QED BY <2>1, <2>2, <2>3, <2>4, FS_EmptySet DEF Init, Types
<1>2. \A w \in Workers : work[w].pc = "idle"
  BY IdleOK DEF Init
<1>3. OneTask /\ SessionScores
  BY <1>2 DEF Init, OneTask, SessionScores
<1>4. ASSUME NEW r \in Runs, NEW x \in Pairs
      PROVE  Cardinality(StoredIn(tscores, r, x)) <= Cardinality(plan[r].sessions)
  <2>1. StoredIn(tscores, r, x) = {} /\ plan[r].sessions = {}
    BY DEF Init, StoredIn, NoPlan
  <2> QED BY <2>1, FS_EmptySet
<1> QED BY <1>1, <1>2, <1>3, <1>4 DEF Inv

\* Every step keeps the invariant.
LEMMA NextInv == Inv /\ [Next]_vars => Inv'
<1> SUFFICES ASSUME Inv, [Next]_vars PROVE Inv'
  OBVIOUS
<1>1. ASSUME NEW r \in Runs, Request(r) \/ \E q \in Runs : RetryFailed(r, q) PROVE Inv'
  BY <1>1, RequestOK, RetryOK
<1>2. ASSUME NEW w \in Workers, Execute(w) \/ RunError(w) \/ \E m \in queue : Take(w, m) PROVE Inv'
  BY <1>2, StartOK, ReuseOK, CommitOK, StoreOK, CompleteOK, FailRunOK, LoadOK, ComputeOK, RunErrorOK, TakeOK
     DEF Execute
<1>3. CASE Users
  <2>1. ASSUME NEW x \in Pairs, NEW type \in {"NUMERIC", "CATEGORICAL"}, NEW v, CreateScore(x, type, v) PROVE Inv'
    BY <2>1, CreateScoreOK
  <2>2. ASSUME NEW c \in tscores, DeleteScore(c) \/ \E v : UpdateScore(c, v) PROVE Inv'
    BY <2>2, DeleteScoresOK, UpdateScoreOK
  <2>3. ASSUME NEW c \in sscores, DeleteSessionScore(c) PROVE Inv'
    BY <2>3, DeleteScoresOK
  <2>4. ASSUME NEW r \in Runs, NEW all \in BOOLEAN, DeleteRun(r, all) PROVE Inv'
    BY <2>4, DeleteRunOK
  <2>5. ASSUME NEW t \in Traces, NEW s \in Sessions \cup {None}, ChangeTrace(t, s) PROVE Inv'
    BY <2>5, ChangeTraceOK
  <2> QED BY <1>3, <2>1, <2>2, <2>3, <2>4, <2>5 DEF Users
<1>4. CASE UNCHANGED vars
  <2>1. UNCHANGED <<home, runs, plan, tscores, sscores, queue, work, edits>>
    BY <1>4 DEF vars
  <2>2. OneTask' /\ SessionScores'
    BY <2>1, Unfolded DEF OneTask, SessionScores
  <2> QED BY <2>1, <2>2, Unfolded, Folded
<1> QED BY <1>1, <1>2, <1>3, <1>4 DEF Next

\* The inductive invariant holds in every state.
LEMMA Invariance == Spec => []Inv
BY InitInv, NextInv, PTL DEF Spec

\* A run holds one score for a session and a metric, and for a signal of a trace at most
\* one per session, whatever fails, is retried, moved, edited or deleted.
THEOREM OneScore == Spec => []OneScorePerTarget
<1>1. Inv => OneScorePerTarget
  <2> SUFFICES ASSUME Inv PROVE OneScorePerTarget
    OBVIOUS
  <2>1. TypeOK
    <3>1. \A c \in sscores : c \in SessionScore /\ (c.value # None => c.value <= 1000)
      BY Unfolded DEF SessionScoreOK
    <3>2. tscores \subseteq TraceScore
      BY Unfolded DEF TraceScoreOK
    <3>3. /\ plan \in [Runs -> [sessions : SUBSET Sessions, metrics : SUBSET Metrics, weights : Weightings]]
          /\ queue \subseteq [run : Runs, try : 0..MaxRetries]
      BY Unfolded DEF PlanType, Message
    <3> QED BY <3>1, <3>2, <3>3, Unfolded DEF TypeOK
  <2>2. \A c, d \in sscores : (c.run # None /\ c.run = d.run /\ c.session = d.session
                              /\ c.metric = d.metric) => c = d
    BY Unfolded DEF SessionScores
  <2>3. ASSUME NEW c \in tscores, c.run # None
        PROVE  Cardinality({d \in tscores : d.run = c.run /\ d.pair = c.pair}) <= Cardinality(plan[c.run].sessions)
    <3>1. c.run \in Runs /\ c.pair \in Pairs
      BY <2>3, Unfolded DEF TraceScoreOK, TraceScore
    <3>2. Cardinality(StoredIn(tscores, c.run, c.pair)) <= Cardinality(plan[c.run].sessions)
      BY <3>1, Unfolded
    <3> QED BY <3>2 DEF StoredIn
  <2> QED BY <2>1, <2>2, <2>3 DEF OneScorePerTarget
<1> QED BY <1>1, Invariance, PTL

\* The row of a run becomes COMPLETED in one place only: the other updates leave it RUNNING
\* or write another status.
LEMMA OnlyCompleteRun ==
  ASSUME Inv, Next, NEW r \in Runs, runs[r] # None, runs'[r] # None,
         runs'[r].status = "COMPLETED", runs[r] # runs'[r]
  PROVE  \E w \in Workers : CompleteRun(w) /\ r = RunOf(w)
<1>1. ASSUME NEW q \in Runs, NEW p, Dispatch(q, p) PROVE FALSE
  BY <1>1, Unfolded DEF Dispatch
<1>2. ASSUME NEW q \in Runs, Request(q) \/ \E o \in Runs : RetryFailed(q, o) PROVE FALSE
  BY <1>1, <1>2 DEF Request, CreateRun, CreateBatchRun, RetryFailed
<1>3. ASSUME NEW q, NEW row, Update(q, row), row.status # "COMPLETED" PROVE FALSE
  BY <1>3, Unfolded DEF Update
<1>4. ASSUME NEW q, NEW row, Update(q, row), q # r PROVE FALSE
  BY <1>4, Unfolded DEF Update
<1>5. ASSUME NEW w \in Workers, Start(w) \/ FailRun(w) PROVE FALSE
  <2>1. CASE Start(w)
    <3>1. PICK row : row = [status |-> "RUNNING", evaluated |-> 0, failed |-> 0]
      OBVIOUS
    <3>2. Update(RunOf(w), row) /\ row.status # "COMPLETED"
      BY <2>1, <3>1 DEF Start
    <3> QED BY <1>3, <3>2
  <2>2. CASE FailRun(w)
    <3>1. CASE RunOf(w) # r
      BY <1>4, <2>2, <3>1 DEF FailRun
    <3>2. CASE RunOf(w) = r
      <4>1. PICK row : row = [runs[RunOf(w)] EXCEPT !.status = "FAILED"]
        OBVIOUS
      <4>2. runs[r] \in Row
        BY Unfolded
      <4>3. row.status = "FAILED"
        BY <3>2, <4>1, <4>2 DEF Row
      <4> QED BY <1>3, <2>2, <4>1, <4>3 DEF FailRun
    <3> QED BY <3>1, <3>2
  <2> QED BY <1>5, <2>1, <2>2
<1>6. ASSUME NEW w \in Workers, work[w].pc \in Evaluating, NEW row, Update(RunOf(w), row),
             runs[RunOf(w)] \in Row => row.status = runs[RunOf(w)].status
      PROVE  FALSE
  <2>1. CASE RunOf(w) # r
    BY <1>4, <1>6, <2>1
  <2>2. CASE RunOf(w) = r
    <3>1. runs[r] \in Row
      BY Unfolded
    <3>2. work[w].pc # "idle" /\ r = work[w].task.run
      BY <1>6, <2>2 DEF Evaluating, RunOf
    <3>3. AtWork(work[w], runs[r], plan[r], tscores, sscores, home, edits)
      BY <3>2, AtStep
    <3>4. runs[r].status = "RUNNING"
      BY <1>6, <3>3 DEF AtWork, Progress
    <3> QED BY <1>3, <1>6, <2>2, <3>1, <3>4
  <2> QED BY <2>1, <2>2
<1>7. ASSUME NEW w \in Workers, NEW s \in Sessions, LoadSession(w, s) PROVE FALSE
  <2>1. PICK row : row = [runs[RunOf(w)] EXCEPT !.evaluated = @ + 1]
    OBVIOUS
  <2>2. Update(RunOf(w), row) /\ work[w].pc \in Evaluating
    BY <1>7, <2>1 DEF LoadSession, Evaluating
  <2>3. runs[RunOf(w)] \in Row => row.status = runs[RunOf(w)].status
    BY <2>1 DEF Row
  <2> QED BY <1>6, <2>2, <2>3
<1>8. ASSUME NEW w \in Workers, StoreSessionScores(w) PROVE FALSE
  <2>1. runs[RunOf(w)] # None /\ work[w].pc \in Evaluating
    BY <1>8 DEF StoreSessionScores, Evaluating
  <2>2. PICK n : Update(RunOf(w), [runs[RunOf(w)] EXCEPT !.evaluated = @ + 1, !.failed = @ + n])
    <3>1. \E bad : Update(RunOf(w), [runs[RunOf(w)] EXCEPT !.evaluated = @ + 1, !.failed = @ + Cardinality(bad)])
      BY <1>8, <2>1, Zenon DEF StoreSessionScores
    <3> QED BY <3>1, Zenon
  <2>3. PICK o, row : o = runs[RunOf(w)] /\ row = [o EXCEPT !.evaluated = @ + 1, !.failed = @ + n]
    OBVIOUS
  <2>4. Update(RunOf(w), row)
    BY <2>2, <2>3, Zenon
  <2>5. o \in Row => row.status = o.status
    BY <2>3 DEF Row
  <2> QED BY <1>6, <2>1, <2>3, <2>4, <2>5
<1>9. ASSUME NEW w \in Workers,
             \/ ReuseSignal(w) \/ CommitSignals(w) \/ RunError(w)
             \/ (\E v \in Outcomes : ComputeSignal(w, v)) \/ \E m \in queue : Take(w, m)
      PROVE  FALSE
  <2>1. runs' = runs
    BY <1>9, Zenon DEF ReuseSignal, CommitSignals, RunError, ComputeSignal, Take
  <2> QED BY <2>1
<1>10. ASSUME Users PROVE FALSE
  <2>1. runs' = runs \/ \E q \in Runs : runs' = [runs EXCEPT ![q] = None]
    BY <1>10 DEF Users, CreateScore, UpdateScore, DeleteScore, DeleteSessionScore, DeleteRun, ChangeTrace
  <2> QED BY <2>1, Unfolded
<1>11. ASSUME NEW w \in Workers, CompleteRun(w) PROVE r = RunOf(w)
  BY <1>4, <1>11 DEF CompleteRun
<1> QED BY <1>2, <1>5, <1>7, <1>8, <1>9, <1>10, <1>11 DEF Next, Execute

\* A run that becomes COMPLETED has counted its sessions; left alone it has all its scores.
THEOREM CompletedRuns == Spec => CompletedIsComplete
<1>1. ASSUME Inv, Next, NEW r \in Runs, runs[r] # None, runs'[r] # None,
             runs'[r].status = "COMPLETED", runs[r] # runs'[r]
      PROVE  /\ runs'[r].evaluated = Cardinality(plan[r].sessions)
             /\ edits = 0 =>
                  /\ {<<c.session, c.metric>> : c \in {x \in sscores : x.run = r}}
                       = {s \in plan[r].sessions : TracesOf(s) # {}} \X plan[r].metrics
                  /\ runs'[r].failed = Cardinality(FailedScores(r))
  <2>1. PICK w \in Workers : CompleteRun(w) /\ r = RunOf(w)
    BY <1>1, OnlyCompleteRun
  <2>2. /\ work[w].pc = "next" /\ work[w].todo = {} /\ r = work[w].task.run
        /\ Update(r, [runs[r] EXCEPT !.status = "COMPLETED"])
    BY <2>1 DEF CompleteRun, RunOf
  <2>3. runs[r] \in Row /\ runs'[r] = [runs[r] EXCEPT !.status = "COMPLETED"]
    BY <1>1, <2>2, Unfolded DEF Update
  <2>4. runs'[r].evaluated = runs[r].evaluated /\ runs'[r].failed = runs[r].failed
    BY <2>3 DEF Row
  <2>5. work[w].pc # "idle" /\ work[w].pc \in Evaluating
    BY <2>2 DEF Evaluating
  <2>6. AtWork(work[w], runs[r], plan[r], tscores, sscores, home, edits)
    BY <1>1, <2>2, <2>5, AtStep
  <2>7. plan[r].sessions \ {} = plan[r].sessions
    OBVIOUS
  <2>8. runs[r].evaluated = Cardinality(plan[r].sessions)
    <3>1. Progress(work[w], runs[r], plan[r])
      BY <2>6 DEF AtWork
    <3> QED BY <1>1, <2>2, <2>5, <2>7, <3>1 DEF Progress
  <2>9. ASSUME edits = 0
        PROVE  /\ Scored(sscores, r) = {s \in plan[r].sessions : Visited(home, s)} \X plan[r].metrics
               /\ runs[r].failed = Cardinality(FailedIn(sscores, r))
    <3>1. Undisturbed(work[w], runs[r], plan[r], sscores, home)
      BY <2>6, <2>9 DEF AtWork
    <3> QED BY <1>1, <2>2, <2>5, <2>7, <3>1 DEF Undisturbed
  <2>10. {s \in plan[r].sessions : TracesOf(s) # {}} = {s \in plan[r].sessions : Visited(home, s)}
    BY DEF TracesOf, Visited
  <2>11. FailedScores(r) = FailedIn(sscores, r)
    BY DEF FailedScores, FailedIn
  <2> QED BY <2>4, <2>8, <2>9, <2>10, <2>11 DEF Scored
<1>2. Inv /\ [Next]_vars =>
        [\A r \in Runs :
          (runs[r] # None /\ runs'[r] # None /\ runs'[r].status = "COMPLETED" /\ runs[r] # runs'[r]) =>
            /\ runs'[r].evaluated = Cardinality(plan[r].sessions)
            /\ edits = 0 =>
                 /\ {<<c.session, c.metric>> : c \in {x \in sscores : x.run = r}}
                      = {s \in plan[r].sessions : TracesOf(s) # {}} \X plan[r].metrics
                 /\ runs'[r].failed = Cardinality(FailedScores(r))]_vars
  BY <1>1
<1> QED BY <1>2, Invariance, PTL DEF Spec, CompletedIsComplete

-----------------------------------------------------------------------------
(* The reports.                                                            *)

Thousandths == 0..1000
InThousandths(v) == (v * 1000) \div Scale
Bucket(v) == WidthBucket(v, 2)

\* width_bucket gives one of the buckets, or the one past the last.
LEMMA BucketIs == \A v \in Thousandths : Bucket(v) \in 1..3
<1>1. ASSUME NEW v \in Thousandths PROVE Bucket(v) \in 1..3
  <2>1. (v * 2) \div 1000 \in 0..2
    BY QuotientBound DEF Thousandths
  <2> QED BY <2>1 DEF Thousandths, Bucket, WidthBucket
<1> QED BY <1>1, Zenon

\* The value of a score, in thousandths.
LEMMA InThousandthsIs == \A v \in Values : InThousandths(v) \in Thousandths
<1>1. ASSUME NEW v \in Values PROVE (v * 1000) \div Scale \in 0..1000
  BY Constants, QuotientBound DEF Values
<1> QED BY <1>1, Zenon DEF InThousandths, Thousandths

\* The distribution of a finite set over buckets counts each of its members once.
LEMMA Distributed ==
  ASSUME NEW S, IsFiniteSet(S), NEW b, \A c \in S : b[c] \in 1..3,
         NEW f, DOMAIN f = 1..3, \A k \in 1..3 : f[k] = Cardinality({c \in S : b[c] = k})
  PROVE  SumFunction(f) = Cardinality(S)
<1>1. IsFiniteSet(1..3)
  <2>1. 1 \in Int /\ 3 \in Int
    OBVIOUS
  <2> QED BY ONLY <2>1, FS_Interval, Zenon
<1>2. \A k \in 1..3 : f[k] = Cardinality(Class(b, S, k))
  BY DEF Class
<1>3. SumFunctionOnSet(f, 1..3) = Cardinality(S)
  BY <1>1, <1>2, CountAll
<1> QED BY <1>3, SumWritten

\* A set and what is left of it.
LEMMA TwoParts ==
  ASSUME NEW S, IsFiniteSet(S), NEW A, NEW B, S = A \cup B, A \cap B = {}
  PROVE  /\ IsFiniteSet(A) /\ IsFiniteSet(B) /\ Cardinality(A) \in Nat /\ Cardinality(B) \in Nat
         /\ Cardinality(S) = Cardinality(A) + Cardinality(B)
<1>1. IsFiniteSet(A) /\ IsFiniteSet(B)
  BY FS_Subset
<1>2. Cardinality(A) \in Nat /\ Cardinality(B) \in Nat
  BY <1>1, FS_CardinalityType
<1>3. Cardinality(S) = Cardinality(A) + Cardinality(B) - Cardinality(A \cap B) /\ Cardinality(A \cap B) = 0
  BY <1>1, FS_Union, FS_EmptySet
<1> QED BY <1>1, <1>2, <1>3

\* The session scores of a metric are finitely many, and typed.
LEMMA NamedAre ==
  ASSUME Inv, NEW m
  PROVE  /\ IsFiniteSet(Named(m)) /\ IsFiniteSet(Succeeded(Named(m)))
         /\ \A c \in Named(m) : SessionScoreOK(c)
<1>1. Named(m) \subseteq sscores /\ Succeeded(Named(m)) \subseteq sscores
  BY DEF Named, Succeeded
<1> QED BY <1>1, Unfolded, FS_Subset

\* The buckets of the distribution add up to the successes of the summary.
LEMMA DistributionAgrees ==
  ASSUME Inv, NEW m
  PROVE  SumFunction(ScoreDistribution(m, 2)) = ScoreSummary(m).success_count
<1>1. PICK S : S = Succeeded(Named(m)) /\ IsFiniteSet(S) /\ \A c \in S : c.value \in Thousandths
  <2>1. \A c \in Succeeded(Named(m)) : c \in Named(m) /\ c.status = "SUCCESS"
    BY DEF Succeeded
  <2>2. \A c \in Succeeded(Named(m)) : c.value \in Thousandths
    BY <2>1, NamedAre DEF SessionScoreOK, Thousandths
  <2> QED BY <2>2, NamedAre, Zenon
<1>2. PICK b : b = [c \in S |-> Bucket(c.value)]
  OBVIOUS
<1>3. ASSUME NEW c \in S PROVE b[c] = Bucket(c.value) /\ b[c] \in 1..3
  <2>1. b[c] = Bucket(c.value) /\ c.value \in Thousandths
    BY <1>1, <1>2, Zenon
  <2> QED BY ONLY <2>1, BucketIs, Zenon
<1>4. \A k : {c \in S : Bucket(c.value) = k} = {c \in S : b[c] = k}
  BY <1>3
<1>5. PICK f : f = ScoreDistribution(m, 2)
  OBVIOUS
<1>6. DOMAIN f = 1..3 /\ \A k \in 1..3 : f[k] = Cardinality({c \in S : b[c] = k})
  <2>1. f = [k \in 1..(2 + 1) |-> Cardinality({c \in S : Bucket(c.value) = k})]
    BY <1>1, <1>5, Zenon DEF ScoreDistribution, Bucket
  <2>2. 1..(2 + 1) = 1..3
    OBVIOUS
  <2>3. f = [k \in 1..3 |-> Cardinality({c \in S : Bucket(c.value) = k})]
    BY <2>1, <2>2, Zenon
  <2> QED BY <1>4, <2>3, Zenon
<1>7. SumFunction(f) = Cardinality(S)
  BY <1>1, <1>3, <1>6, Distributed
<1>8. ScoreSummary(m).success_count = Cardinality(S)
  BY <1>1 DEF ScoreSummary, Counts
<1> QED BY <1>5, <1>7, <1>8

\* The histories of the sessions add up to the scores of the summary.
LEMMA HistoriesAgree ==
  ASSUME Inv, NEW m
  PROVE  SumFunction([s \in Sessions |-> Cardinality(ScoreHistory(s, m))])
           = ScoreSummary(m).success_count + ScoreSummary(m).failed_count
<1>1. PICK S : S = Named(m) /\ IsFiniteSet(S) /\ \A c \in S : SessionScoreOK(c)
  BY NamedAre
<1>2. PICK A, B : A = {c \in S : c.status = "SUCCESS"} /\ B = {c \in S : c.status = "FAILED"}
  OBVIOUS
<1>3. S = A \cup B /\ A \cap B = {}
  BY <1>1, <1>2 DEF SessionScoreOK, SessionScore
<1>4. ScoreSummary(m).success_count = Cardinality(A) /\ ScoreSummary(m).failed_count = Cardinality(B)
  BY <1>1, <1>2 DEF ScoreSummary, Counts, Succeeded
<1>5. Cardinality(S) = Cardinality(A) + Cardinality(B)
  BY <1>1, <1>3, TwoParts
<1>6. PICK at : at = [c \in S |-> c.session]
  BY Zenon
<1>7. PICK f : f = [s \in Sessions |-> Cardinality(ScoreHistory(s, m))]
  BY Zenon
<1>8. \A c \in S : at[c] \in Sessions
  BY <1>1, <1>6 DEF SessionScoreOK, SessionScore
<1>9. ASSUME NEW s \in Sessions PROVE f[s] = Cardinality(Class(at, S, s))
  <2>1. ScoreHistory(s, m) = Class(at, S, s)
    BY <1>1, <1>6 DEF ScoreHistory, Class
  <2> QED BY <1>7, <2>1
<1>10. SumFunctionOnSet(f, Sessions) = Cardinality(S)
  BY <1>1, <1>8, <1>9, Constants, CountAll
<1>11. SumFunction(f) = Cardinality(S)
  BY <1>7, <1>10, SumWritten
<1> QED BY <1>4, <1>5, <1>7, <1>11

\* A session with a successful score is in the comparison once: scores have different places.
LEMMA ComparisonAgrees ==
  ASSUME Inv, NEW m
  PROVE  Cardinality(Comparison(m)) = Cardinality({c.session : c \in Succeeded(Named(m))})
<1>1. PICK S : S = Succeeded(Named(m)) /\ IsFiniteSet(S) /\ S \subseteq sscores
            /\ \A c \in S : c.at \in Nat /\ c.metric = m
  <2>1. \A c \in Succeeded(Named(m)) : c \in Named(m) /\ c \in sscores /\ c.metric = m
    BY DEF Succeeded, Named
  <2>2. \A c \in Named(m) : c.at \in Nat
    BY NamedAre DEF SessionScoreOK, SessionScore
  <2> QED BY <2>1, <2>2, NamedAre, Zenon
<1>2. PICK C, D : C = {c \in S : \A d \in S : d.session = c.session => d.at <= c.at}
               /\ D = {c.session : c \in S}
  OBVIOUS
<1>3. ASSUME NEW s \in D PROVE \E c \in C : c.session = s
  <2>1. PICK T : T = {c \in S : c.session = s}
    OBVIOUS
  <2>2. PICK A : A = {c.at : c \in T}
    OBVIOUS
  <2>3. PICK h : h = [c \in T |-> c.at]
    BY Zenon
  <2>4. IsFiniteSet(T) /\ T \subseteq S /\ T # {}
    BY <1>1, <1>2, <2>1, FS_Subset
  <2>5. A # {} /\ A \subseteq Int /\ \A y \in A : \E c \in T : y = h[c]
    BY <1>1, <2>2, <2>3, <2>4
  <2>6. IsFiniteSet(A)
    BY <2>4, <2>5, FiniteImage
  <2>7. Max(A) \in A /\ \A y \in A : y <= Max(A)
    BY <2>5, <2>6, MaxIs
  <2>8. PICK c \in T : c.at = Max(A)
    BY <2>2, <2>7
  <2>9. \A d \in T : d.at <= c.at
    BY <2>2, <2>7, <2>8
  <2> QED BY <1>2, <2>1, <2>8, <2>9
<1>4. ASSUME NEW c \in C, NEW d \in C, c.session = d.session PROVE c = d
  <2>1. c \in S /\ d \in S /\ c.at <= d.at /\ d.at <= c.at
    BY <1>2, <1>4
  <2>2. c \in sscores /\ d \in sscores /\ c.at = d.at /\ c.metric = d.metric
    BY <1>1, <2>1
  <2> QED BY <1>4, <2>2, Unfolded DEF SessionScores
<1>5. IsFiniteSet(C) /\ Cardinality(C) \in Nat
  BY <1>1, <1>2, FS_Subset, FS_CardinalityType
<1>6. IsFiniteSet(D) /\ Cardinality(D) \in Nat /\ Cardinality(D) <= Cardinality(C)
  <2>1. PICK h : h = [c \in C |-> c.session]
    BY Zenon
  <2>2. \A s \in D : \E c \in C : s = h[c]
    BY <1>3, <2>1
  <2> QED BY <1>5, <2>2, FiniteImage
<1>7. Cardinality(C) <= Cardinality(D)
  <2>1. PICK h : h = [s \in D |-> CHOOSE c \in C : c.session = s]
    BY Zenon
  <2>2. ASSUME NEW c \in C PROVE c.session \in D /\ c = h[c.session]
    <3>1. c.session \in D
      BY <1>2
    <3>2. h[c.session] = CHOOSE d \in C : d.session = c.session
      BY <2>1, <3>1
    <3>3. h[c.session] \in C /\ h[c.session].session = c.session
      BY <3>2
    <3> QED BY <1>4, <3>1, <3>3
  <2>3. \A c \in C : \E s \in D : c = h[s]
    BY <2>2
  <2> QED BY <1>6, <2>3, FiniteImage
<1>8. Comparison(m) = C
  BY <1>1, <1>2 DEF Comparison
<1> QED BY <1>1, <1>2, <1>5, <1>6, <1>7, <1>8

\* Scores that are not NUMERIC have no bucket, all other successful scores have one.
LEMMA TraceDistributionAgrees ==
  ASSUME Inv, NEW g, TraceDistribution(g, 2) # None
  PROVE  SumFunction(TraceDistribution(g, 2)) + Cardinality({c \in TraceNamed(g) : c.type # "NUMERIC"})
           = TraceSummary(g).success_count
<1>1. PICK S : S = Succeeded(TraceNamed(g)) /\ IsFiniteSet(S) /\ \A c \in S : TraceScoreOK(c)
  <2>1. Succeeded(TraceNamed(g)) \subseteq tscores
    BY DEF Succeeded, TraceNamed
  <2> QED BY <2>1, Unfolded, FS_Subset
<1>2. PICK A, B : A = {c \in S : c.type = "NUMERIC"} /\ B = {c \in S : c.type # "NUMERIC"}
  OBVIOUS
<1>3. S = A \cup B /\ A \cap B = {}
  BY <1>2
<1>4. B = {c \in TraceNamed(g) : c.type # "NUMERIC"}
  BY <1>1, <1>2, Unfolded DEF Succeeded, TraceNamed, TraceScoreOK
<1>5. /\ \A c \in A : c.value # None
      /\ TraceDistribution(g, 2)
           = [k \in 1..(2 + 1) |-> Cardinality({c \in A : Bucket(InThousandths(c.value)) = k})]
  BY <1>1, <1>2 DEF TraceDistribution, Bucket, InThousandths
<1>6. PICK b : b = [c \in A |-> Bucket(InThousandths(c.value))]
  BY Zenon
<1>7. ASSUME NEW c \in A PROVE b[c] = Bucket(InThousandths(c.value)) /\ b[c] \in 1..3
  <2>1. c.value \in Values
    BY <1>1, <1>2, <1>5 DEF TraceScoreOK, TraceScore
  <2>2. b[c] = Bucket(InThousandths(c.value))
    BY <1>6, Zenon
  <2> QED BY <2>1, <2>2, InThousandthsIs, BucketIs, Zenon
<1>8. \A k : {c \in A : Bucket(InThousandths(c.value)) = k} = {c \in A : b[c] = k}
  BY <1>7
<1>9. PICK f : f = TraceDistribution(g, 2)
  OBVIOUS
<1>10. DOMAIN f = 1..3 /\ \A k \in 1..3 : f[k] = Cardinality({c \in A : b[c] = k})
  <2>1. 1..(2 + 1) = 1..3
    OBVIOUS
  <2>2. f = [k \in 1..3 |-> Cardinality({c \in A : Bucket(InThousandths(c.value)) = k})]
    BY <1>5, <1>9, <2>1, Zenon
  <2> QED BY <1>8, <2>2, Zenon
<1>11. /\ IsFiniteSet(A) /\ Cardinality(A) \in Nat /\ Cardinality(B) \in Nat
       /\ Cardinality(S) = Cardinality(A) + Cardinality(B)
  BY <1>1, <1>3, TwoParts
<1>12. SumFunction(f) = Cardinality(A)
  BY <1>7, <1>11, <1>10, Distributed
<1>13. TraceSummary(g).success_count = Cardinality(S)
  BY <1>1 DEF TraceSummary, Counts
<1> QED BY <1>4, <1>9, <1>11, <1>12, <1>13

\* The score routes agree on every state of the tables.
THEOREM RoutesAgree == Spec => []ReportsAgree
<1>1. Inv => ReportsAgree
  BY DistributionAgrees, HistoriesAgree, ComparisonAgrees, TraceDistributionAgrees DEF ReportsAgree
<1> QED BY <1>1, Invariance, PTL
===============================================================================
