--------------------------- MODULE Attempt_proofs ---------------------------
(* For any calls, versions, packages, replies and renderings: a verdict is    *)
(* whole and attributed to the version it was asked of, a better submission   *)
(* never scores less, what is built is the starter with the accepted edits,   *)
(* what did not build passes no check that measures it, what is shown is      *)
(* saved, and no workspace is left behind.                                    *)
EXTENDS Attempt, FiniteFolds, NaturalsInduction

(* Scoring.  The rules never punish a better attempt: for every configuration *)
(* that configuration.py accepts, more accuracy with no more tokens never     *)
(* lowers the efficiency, the rounded score or the stars.                     *)

LEMMA TimesMonotone ==
  ASSUME NEW a \in Nat, NEW b \in Nat, NEW w \in Nat, a <= b
  PROVE  a * w <= b * w
  OBVIOUS

LEMMA TimesNat ==
  ASSUME NEW a \in Nat, NEW b \in Nat
  PROVE  a * b \in Nat
  OBVIOUS

LEMMA TimesPositive ==
  ASSUME NEW a \in Nat \ {0}, NEW b \in Nat \ {0}
  PROVE  a * b \in Nat \ {0}
  OBVIOUS

LEMMA DivMonotone ==
  ASSUME NEW a \in Nat, NEW b \in Nat, NEW d \in Nat \ {0}, a <= b
  PROVE  a \div d <= b \div d
  OBVIOUS

LEMMA DivNat ==
  ASSUME NEW a \in Nat, NEW d \in Nat \ {0}
  PROVE  a \div d \in Nat
  OBVIOUS

\* A number below q + 1 times the divisor has a quotient of at most q.
LEMMA DivBelow ==
  ASSUME NEW a \in Nat, NEW d \in Nat \ {0}, NEW q \in Nat, a < (q + 1) * d
  PROVE  a \div d <= q
  OBVIOUS

-----------------------------------------------------------------------------
(* Efficiency *)

\* A prompt either fits no tier or has a first tier that holds it, whose score
\* is its efficiency.
LEMMA EfficiencyCases ==
  ASSUME NEW e, ValidEfficiency(e), NEW t \in Tokens
  PROVE  \/ /\ \A i \in 1..Len(e.tiers) : t > e.tiers[i].max_tokens
            /\ Efficiency(t, e) = e.score_above_max
         \/ \E i \in 1..Len(e.tiers) :
              /\ t <= e.tiers[i].max_tokens
              /\ \A j \in 1..(i - 1) : t > e.tiers[j].max_tokens
              /\ Efficiency(t, e) = e.tiers[i].score
<1> DEFINE n == Len(e.tiers)
           holds == {i \in 1..n : t <= e.tiers[i].max_tokens}
           First(i) == /\ t <= e.tiers[i].max_tokens
                       /\ \A j \in 1..(i - 1) : t > e.tiers[j].max_tokens
<1>1. n \in Nat /\ \A i \in 1..n : e.tiers[i].max_tokens \in Nat
  <2>1. e.tiers \in Seq(EfficiencyTier)
    BY DEF ValidEfficiency
  <2>2. n \in Nat /\ \A i \in 1..n : e.tiers[i] \in EfficiencyTier
    BY <2>1
  <2> QED
    BY <2>2 DEF EfficiencyTier
<1>2. CASE holds = {}
  <2>1. \A i \in 1..n : t > e.tiers[i].max_tokens
    BY <1>1, <1>2 DEF Tokens
  <2>2. ~ \E i \in 1..n : t <= e.tiers[i].max_tokens
    BY <1>2
  <2>3. Efficiency(t, e) = e.score_above_max
    BY <2>2 DEF Efficiency
  <2> QED
    BY <2>1, <2>3
<1>3. CASE holds # {}
  <2>1. PICK m \in holds : \A i \in holds : m <= i
    <3>1. holds \subseteq Nat
      BY <1>1
    <3> HIDE DEF holds
    <3> QED BY <1>3, <3>1, LeastNat
  <2>2. First(m)
    <3> SUFFICES ASSUME NEW j \in 1..(m - 1)
                 PROVE  t > e.tiers[j].max_tokens
      BY <2>1
    <3>1. j \in 1..n /\ j < m
      BY <1>1, <2>1
    <3>2. j \notin holds
      <4> HIDE DEF holds
      <4>1. m \in Int
        BY <1>1, <2>1 DEF holds
      <4> QED BY <2>1, <3>1, <4>1
    <3> QED
      BY <1>1, <3>1, <3>2 DEF Tokens
  <2> DEFINE f == CHOOSE i \in 1..n : First(i)
  <2>3. f \in 1..n /\ First(f)
    <3> HIDE DEF First
    <3> QED BY <2>1, <2>2
  <2>4. Efficiency(t, e) = e.tiers[f].score
    BY <2>1 DEF Efficiency
  <2> HIDE DEF f
  <2> QED
    BY <2>3, <2>4
<1> QED
  BY <1>2, <1>3

\* The efficiency is a percentage.
LEMMA EfficiencyIsPercentage ==
  ASSUME NEW e, ValidEfficiency(e), NEW t \in Tokens
  PROVE  Efficiency(t, e) \in Percentages
<1>1. \A i \in 1..Len(e.tiers) : e.tiers[i].score \in Percentages
  <2>1. e.tiers \in Seq(EfficiencyTier)
    BY DEF ValidEfficiency
  <2>2. \A i \in 1..Len(e.tiers) : e.tiers[i] \in EfficiencyTier
    BY <2>1
  <2> QED
    BY <2>2 DEF EfficiencyTier
<1> QED
  BY <1>1, EfficiencyCases DEF ValidEfficiency

\* A shorter prompt is never less efficient (service.py calculate_efficiency:
\* the first tier that holds a prompt, over ceilings that increase and scores
\* that do not).
THEOREM EfficiencyAntitone ==
  ASSUME NEW e, ValidEfficiency(e), NEW t \in Tokens, NEW u \in Tokens, t <= u
  PROVE  Efficiency(u, e) <= Efficiency(t, e)
<1> DEFINE n == Len(e.tiers)
<1>1. /\ n \in Nat \ {0} /\ e.score_above_max \in Percentages
      /\ \A i \in 1..n : e.tiers[i].max_tokens \in Nat /\ e.tiers[i].score \in Percentages
  <2>1. e.tiers \in Seq(EfficiencyTier) /\ e.tiers # <<>> /\ e.score_above_max \in Percentages
    BY DEF ValidEfficiency
  <2>2. n \in Nat /\ \A i \in 1..n : e.tiers[i] \in EfficiencyTier
    BY <2>1
  <2>3. n # 0
    BY <2>1
  <2> QED
    BY <2>1, <2>2, <2>3 DEF EfficiencyTier
<1>2. Percentages \subseteq Int
  BY ScaleAssumption DEF Percentages
<1>3. \A i \in 1..n : e.score_above_max <= e.tiers[i].score
  <2> SUFFICES ASSUME NEW i \in 1..n
               PROVE  e.score_above_max <= e.tiers[i].score
    OBVIOUS
  <2>1. e.score_above_max <= e.tiers[n].score /\ n \in 1..n
    BY <1>1 DEF ValidEfficiency
  <2>2. i = n \/ (i < n /\ e.tiers[i].score >= e.tiers[n].score)
    BY <1>1, <2>1 DEF ValidEfficiency
  <2>3. e.tiers[i].score \in Int /\ e.tiers[n].score \in Int /\ e.score_above_max \in Int
    BY <1>1, <1>2, <2>1
  <2> QED
    BY <2>1, <2>2, <2>3
<1>4. CASE /\ \A i \in 1..n : t > e.tiers[i].max_tokens
           /\ Efficiency(t, e) = e.score_above_max
  <2>1. \A i \in 1..n : u > e.tiers[i].max_tokens
    BY <1>1, <1>4 DEF Tokens
  <2>2. Efficiency(u, e) = e.score_above_max
    BY <1>1, <2>1, EfficiencyCases DEF Tokens
  <2>3. e.score_above_max \in Int
    BY <1>1, <1>2
  <2> QED
    BY <1>4, <2>2, <2>3
<1>5. ASSUME NEW i \in 1..n, t <= e.tiers[i].max_tokens,
             \A j \in 1..(i - 1) : t > e.tiers[j].max_tokens,
             Efficiency(t, e) = e.tiers[i].score
      PROVE  Efficiency(u, e) <= Efficiency(t, e)
  <2>1. CASE Efficiency(u, e) = e.score_above_max
    BY <1>3, <1>5, <2>1
  <2>2. ASSUME NEW k \in 1..n, u <= e.tiers[k].max_tokens,
               Efficiency(u, e) = e.tiers[k].score
        PROVE  Efficiency(u, e) <= Efficiency(t, e)
    <3>1. t <= e.tiers[k].max_tokens
      BY <1>1, <2>2 DEF Tokens
    <3>2. ~(k < i)
      <4>1. k < i => k \in 1..(i - 1)
        OBVIOUS
      <4> QED
        BY <1>1, <1>5, <3>1, <4>1 DEF Tokens
    <3>3. CASE k = i
      <4>1. Efficiency(u, e) = Efficiency(t, e) /\ e.tiers[i].score \in Int
        BY <1>1, <1>2, <1>5, <2>2, <3>3
      <4> QED
        BY <1>5, <4>1
    <3>4. CASE i < k
      BY <1>5, <2>2, <3>4 DEF ValidEfficiency
    <3> QED
      BY <3>2, <3>3, <3>4
  <2> QED
    BY <2>1, <2>2, EfficiencyCases
<1> QED
  BY <1>4, <1>5, EfficiencyCases

-----------------------------------------------------------------------------
(* The final score *)

LEMMA PercentagesAreNat == Percentages \subseteq Nat
  BY ScaleAssumption DEF Percentages

LEMMA WeightedNat ==
  ASSUME NEW c, ValidWeights(c), NEW a \in Percentages, NEW f \in Percentages
  PROVE  Weighted(a, f, c) \in Nat
<1>1. a \in Nat /\ f \in Nat /\ c.accuracy_weight \in Nat /\ c.efficiency_weight \in Nat
  BY PercentagesAreNat DEF ValidWeights
<1>2. a * c.accuracy_weight \in Nat /\ f * c.efficiency_weight \in Nat
  BY <1>1, TimesNat
<1> QED
  BY <1>2 DEF Weighted

LEMMA WeightedMonotone ==
  ASSUME NEW c, ValidWeights(c),
         NEW a \in Percentages, NEW f \in Percentages,
         NEW b \in Percentages, NEW g \in Percentages,
         a <= b, f <= g
  PROVE  Weighted(a, f, c) <= Weighted(b, g, c)
<1>1. /\ a \in Nat /\ f \in Nat /\ b \in Nat /\ g \in Nat
      /\ c.accuracy_weight \in Nat /\ c.efficiency_weight \in Nat
  BY PercentagesAreNat DEF ValidWeights
<1>2. /\ a * c.accuracy_weight <= b * c.accuracy_weight
      /\ f * c.efficiency_weight <= g * c.efficiency_weight
  BY <1>1, TimesMonotone
<1>3. /\ a * c.accuracy_weight \in Nat /\ b * c.accuracy_weight \in Nat
      /\ f * c.efficiency_weight \in Nat /\ g * c.efficiency_weight \in Nat
  BY <1>1, TimesNat
<1> QED
  BY <1>2, <1>3 DEF Weighted

\* 100 points for both halves weigh at most 100 * Scale * (Whole + Tolerance).
LEMMA WeightedBounded ==
  ASSUME NEW c, ValidWeights(c), NEW a \in Percentages, NEW f \in Percentages
  PROVE  Weighted(a, f, c) <= (100 * Scale) * (Whole + Tolerance)
<1> DEFINE top == 100 * Scale
           w == c.accuracy_weight
           x == c.efficiency_weight
<1>1. /\ a \in Nat /\ f \in Nat /\ top \in Nat /\ a <= top /\ f <= top
      /\ w \in Nat /\ x \in Nat /\ w + x <= Whole + Tolerance
      /\ Whole + Tolerance \in Nat /\ w + x \in Nat
  BY PercentagesAreNat, ScaleAssumption, WholeAssumption, ToleranceAssumption
  DEF ValidWeights, Percentages
<1> HIDE DEF top, w, x
<1>2. a * w <= top * w /\ f * x <= top * x
  BY <1>1, TimesMonotone
<1>3. top * w + top * x = (w + x) * top
  BY <1>1
<1>4. (w + x) * top <= (Whole + Tolerance) * top
  BY <1>1, TimesMonotone
<1>5. (Whole + Tolerance) * top = top * (Whole + Tolerance)
  BY <1>1
<1>6. /\ a * w \in Nat /\ f * x \in Nat /\ top * w \in Nat /\ top * x \in Nat
      /\ (w + x) * top \in Nat /\ (Whole + Tolerance) * top \in Nat
  BY <1>1, TimesNat
<1>7. a * w + f * x <= top * (Whole + Tolerance)
  BY <1>2, <1>3, <1>4, <1>5, <1>6
<1> QED
  BY <1>7 DEF Weighted, w, x, top

LEMMA Quantum ==
  2 * Scale * Whole \in Nat \ {0} /\ Scale * Whole \in Nat \ {0}
<1>1. Scale * Whole \in Nat \ {0}
  BY ScaleAssumption, WholeAssumption, TimesPositive
<1>2. 2 * Scale * Whole = 2 * (Scale * Whole)
  BY ScaleAssumption, WholeAssumption
<1> QED
  BY <1>1, <1>2

\* More accuracy and more efficiency never score less, rounding included
\* (service.py calculate_final_score: half up to two places).
THEOREM FinalScoreMonotone ==
  ASSUME NEW c, ValidWeights(c),
         NEW a \in Percentages, NEW f \in Percentages,
         NEW b \in Percentages, NEW g \in Percentages,
         a <= b, f <= g
  PROVE  FinalScore(a, f, c) <= FinalScore(b, g, c)
<1>1. /\ Weighted(a, f, c) \in Nat /\ Weighted(b, g, c) \in Nat
      /\ Weighted(a, f, c) <= Weighted(b, g, c)
  BY WeightedNat, WeightedMonotone
<1>2. /\ 200 * Weighted(a, f, c) + Scale * Whole \in Nat
      /\ 200 * Weighted(b, g, c) + Scale * Whole \in Nat
      /\ 200 * Weighted(a, f, c) + Scale * Whole <= 200 * Weighted(b, g, c) + Scale * Whole
  BY <1>1, Quantum
<1> QED
  BY <1>2, Quantum, DivMonotone DEF FinalScore

\* The rounded score is between 0 and 100.00 although the weights may sum to a
\* little more than one (configuration.py: isclose with abs_tol 1e-9).
THEOREM FinalScoreBounded ==
  ASSUME NEW c, ValidWeights(c), NEW a \in Percentages, NEW f \in Percentages
  PROVE  FinalScore(a, f, c) \in 0..10000
<1> DEFINE W == Weighted(a, f, c)
           q == Scale * Whole
           t == Scale * Tolerance
<1>1. W \in Nat /\ W <= (100 * Scale) * (Whole + Tolerance)
  BY WeightedNat, WeightedBounded
<1>2. (100 * Scale) * (Whole + Tolerance) = 100 * q + 100 * t
  BY ScaleAssumption, WholeAssumption, ToleranceAssumption
<1>3. q \in Nat \ {0} /\ t \in Nat
  BY Quantum, ScaleAssumption, ToleranceAssumption, TimesNat
<1>4. 20000 * t < q
  <2>1. 20000 * t = Scale * (20000 * Tolerance)
    BY ScaleAssumption, ToleranceAssumption
  <2>2. (20000 * Tolerance + 1) * Scale <= Whole * Scale
    BY ScaleAssumption, WholeAssumption, ToleranceAssumption, TimesMonotone
  <2>3. (20000 * Tolerance + 1) * Scale = Scale * (20000 * Tolerance) + Scale
    BY ScaleAssumption, ToleranceAssumption
  <2>4. Whole * Scale = q
    BY ScaleAssumption, WholeAssumption
  <2>5. Scale * (20000 * Tolerance) \in Nat
    BY ScaleAssumption, ToleranceAssumption, TimesNat
  <2> HIDE DEF q, t
  <2> QED
    BY <2>1, <2>2, <2>3, <2>4, <2>5, <1>3, ScaleAssumption
<1>5. 2 * Scale * Whole = 2 * q
  BY ScaleAssumption, WholeAssumption
<1> HIDE DEF q, t, W
<1>6. 200 * W + q \in Nat /\ 200 * W + q < (10000 + 1) * (2 * q) /\ 2 * q \in Nat \ {0}
  BY <1>1, <1>2, <1>3, <1>4
<1>7. (200 * W + q) \div (2 * q) <= 10000 /\ (200 * W + q) \div (2 * q) \in Nat
  BY <1>6, DivBelow, DivNat
<1> DEFINE r == (200 * W + q) \div (2 * q)
<1>8. r \in 0..10000
  <2> HIDE DEF r
  <2>1. r <= 10000 /\ r \in Nat
    BY <1>7 DEF r
  <2> QED
    BY <2>1
<1> HIDE DEF r
<1>9. FinalScore(a, f, c) = r
  BY <1>5 DEF FinalScore, W, q, r
<1> QED
  BY <1>8, <1>9

-----------------------------------------------------------------------------
(* Stars, and the attempt as a whole *)

\* A more accurate and no longer prompt never has fewer stars (service.py
\* calculate_stars, whose third star asks for a short prompt as well).
THEOREM StarsMonotone ==
  ASSUME NEW s, ValidStars(s),
         NEW a \in Percentages, NEW b \in Percentages, a <= b,
         NEW t \in Tokens, NEW u \in Tokens, u <= t
  PROVE  Stars(a, t, s) <= Stars(b, u, s)
<1>1. /\ a \in Nat /\ b \in Nat
      /\ s.one_star \in Nat /\ s.two_stars \in Nat /\ s.three_stars \in Nat
      /\ s.one_star <= s.two_stars /\ s.two_stars <= s.three_stars
  BY PercentagesAreNat DEF ValidStars
<1>2. s.three_star_max_prompt_tokens \in Nat \/ s.three_star_max_prompt_tokens = Unlimited
  BY DEF ValidStars, Tokens
<1> QED
  BY <1>1, <1>2 DEF Stars, Tokens

\* What a version's scoring configuration promises its players: an attempt
\* that is at least as accurate with a prompt that is no longer gets at least
\* the efficiency, the score and the stars.
THEOREM BetterScoresNoLess ==
  ASSUME NEW c, ValidScoring(c),
         NEW a \in Percentages, NEW b \in Percentages, a <= b,
         NEW t \in Tokens, NEW u \in Tokens, u <= t
  PROVE  /\ Score(t, a, c).efficiency <= Score(u, b, c).efficiency
         /\ Score(t, a, c).final_score <= Score(u, b, c).final_score
         /\ Score(t, a, c).stars <= Score(u, b, c).stars
<1> DEFINE e == c.efficiency_thresholds
<1>1. ValidWeights(c) /\ ValidEfficiency(e) /\ ValidStars(c.star_thresholds)
  BY DEF ValidScoring
<1>2. Efficiency(t, e) \in Percentages /\ Efficiency(u, e) \in Percentages
  BY <1>1, EfficiencyIsPercentage
<1>3. Efficiency(t, e) <= Efficiency(u, e)
  BY <1>1, EfficiencyAntitone
<1>4. FinalScore(a, Efficiency(t, e), c) <= FinalScore(b, Efficiency(u, e), c)
  BY <1>1, <1>2, <1>3, FinalScoreMonotone
<1>5. Stars(a, t, c.star_thresholds) <= Stars(b, u, c.star_thresholds)
  BY <1>1, StarsMonotone
<1> QED
  BY <1>3, <1>4, <1>5 DEF Score

-----------------------------------------------------------------------------
(* The attempt *)

TextJob(j) == Version[j.version].challenge_type = "text"

\* What a request became: a version that can be judged.
JobRight(j) ==
  /\ j.use \in Uses /\ j.prompt \in Prompts
  /\ j.version \in DOMAIN Version /\ ValidVersion(Version[j.version])

\* How many cases or checks a Submit of j is judged by.
Suite(j) ==
  IF TextJob(j) THEN Len(Version[j.version].hidden)
  ELSE Len(Version[j.version].config.hidden_checks)

\* What the evaluation of a Submit is made of.
Judged(j, e) ==
  /\ e.total = Suite(j) /\ e.total \in Nat \ {0} /\ e.passed \in 0..e.total
  /\ e.score = Score(Count[j.prompt], PassRate(e.passed, e.total), Version[j.version].scoring)

\* The cases a TEXT call has to hear about.
CaseCount(j) ==
  CASE j.use = "run" -> Len(Version[j.version].visible)
    [] j.use = "submit" -> Len(Version[j.version].hidden)
    [] j.use = "test" -> Len(Version[j.version].visible) + Len(Version[j.version].hidden)

VerdictOf(c, e) ==
  /\ job[c].use = "submit" => Judged(job[c], e)
  /\ TextJob(job[c]) => e.total = CaseCount(job[c]) /\ Len(heard[c]) = e.total

RowsOf(c) == {row \in saved : row.call = c}

\* What is saved of a call is what it asked to be saved, and is what it shows.
Kept(c) ==
  /\ RowsOf(c) \subseteq {Submission(c, e) : e \in result[c]}
  /\ RowsOf(c) # {} =>
       /\ job[c].use = "submit"
       /\ answer[c] \in {None, Failed("persistence_error")} \cup {Scored(e) : e \in result[c]}
  /\ IsScored(answer[c]) /\ job[c].use = "submit" =>
       RowsOf(c) = {Submission(c, answer[c].evaluation)}

Shapes ==
  /\ pc \in [Calls -> Stages]
  /\ DOMAIN job = Calls /\ DOMAIN heard = Calls /\ DOMAIN workspace = Calls
  /\ DOMAIN result = Calls /\ DOMAIN answer = Calls
  /\ release \in Releases

\* How far a call is.
Progress(c) ==
  /\ pc[c] = "idle" => heard[c] = <<>>
  /\ pc[c] # "idle" => JobRight(job[c])
  /\ pc[c] = "suite" => TextJob(job[c]) /\ heard[c] = <<>>
  /\ pc[c] = "asking" =>
       TextJob(job[c]) /\ heard[c] \in Seq(Outputs) /\ Len(heard[c]) < CaseCount(job[c])
  /\ pc[c] \in {"package", "agent", "inspect"} => ~TextJob(job[c])

\* What it has led to.
Outcome(c) ==
  /\ workspace[c] # None => pc[c] \in {"agent", "inspect", "killed"}
  /\ pc[c] \in {"saving", "committed"} =>
       job[c].use = "submit" /\ \E e : result[c] = {e} /\ VerdictOf(c, e)
  /\ IsScored(answer[c]) => VerdictOf(c, answer[c].evaluation)
  /\ pc[c] # "answered" => answer[c] = None
  /\ pc[c] = "committed" => RowsOf(c) = {Submission(c, e) : e \in result[c]}
  /\ pc[c] \notin {"committed", "answered", "killed"} => RowsOf(c) = {}
  /\ Kept(c)

\* A row says how it was judged.
RowRight(row) ==
  \E p \in Prompts :
    LET j == [use |-> "submit", prompt |-> p, version |-> row.version]
    IN JobRight(j) /\ Judged(j, row.evaluation)

\* What is on disk while the agent works, and when the page is built; the
\* package that was accepted is still the one deployed.
Built(c) ==
  LET starter == PackageOf(job[c]).starter
  IN /\ pc[c] \in {"agent", "inspect"} => Usable(Packages[release], Config(job[c]))
     /\ pc[c] = "agent" => workspace[c] = starter
     /\ pc[c] = "inspect" =>
          \E reply \in Replies :
            /\ heard[c] = <<reply>>
            /\ ParseEdits(reply, Originals(job[c], starter), Config(job[c]).limits) = "accepted"
            /\ workspace[c] = Overlay(starter, reply.files)

IInv ==
  /\ Shapes
  /\ \A c \in Calls : Progress(c) /\ Outcome(c) /\ Built(c)
  /\ \A row \in saved : RowRight(row)

-----------------------------------------------------------------------------
(* Sequences and answers *)

LEMMA MapLen ==
  ASSUME NEW n \in Nat, NEW f, f = [i \in 1..n |-> f[i]]
  PROVE  f \in Seq({f[i] : i \in 1..n}) /\ Len(f) = n /\ DOMAIN f = 1..n
<1> DEFINE S == {f[i] : i \in 1..n}
<1>1. f \in [1..n -> S] OBVIOUS
<1> HIDE DEF S
<1>2. f \in Seq(S) /\ Len(f) = n /\ DOMAIN f = 1..n BY <1>1
<1> QED BY <1>2 DEF S

\* No failure is answered as a verdict.
LEMMA Refused ==
  ASSUME NEW failure \in Failures
  PROVE  ~IsScored(Failed(failure))
<1>1. failure \in {"llm_provider_error", "llm_rate_limit_error", "llm_timeout_error",
       "prompt_too_long", "hidden_evaluation_unavailable", "persistence_error",
       "invalid_evaluation_configuration", "invalid_application_configuration",
       "sandbox_unavailable", "application_environment_unavailable",
       "admin_challenge_state_error"}
  BY DEF Failures, ProviderErrors
<1>2. Status(failure) \in {400, 409, 422, 429, 502, 503, 504} BY <1>1 DEF Status
<1> QED BY <1>2 DEF IsScored, Failed

\* An evaluation counts what it is given.
LEMMA Counted ==
  ASSUME NEW j, NEW build, NEW n \in Nat, NEW passes, passes = [i \in 1..n |-> passes[i]]
  PROVE  LET e == Evaluation(j, build, passes)
         IN /\ e.total = n /\ e.passed \in 0..e.total
            /\ j.use # "run" =>
                 e.score = Score(Count[j.prompt], PassRate(e.passed, e.total),
                                 Version[j.version].scoring)
<1> DEFINE P == {i \in DOMAIN passes : passes[i]}
<1>1. Len(passes) = n /\ DOMAIN passes = 1..n BY MapLen
<1>2. IsFiniteSet(1..n) /\ Cardinality(1..n) = n BY FS_Interval
<1>3. P \in SUBSET (1..n) BY <1>1
<1>4. Cardinality(P) \in Nat /\ Cardinality(P) <= n
  BY <1>2, <1>3, FS_Subset, FS_CardinalityType
<1>5. Cardinality(P) \in 0..n BY <1>4
<1> DEFINE e == Evaluation(j, build, passes)
<1>6. e.total = Len(passes) /\ e.passed = Cardinality(P) BY DEF Evaluation
<1>7. j.use # "run" =>
        e.score = Score(Count[j.prompt], PassRate(e.passed, e.total), Version[j.version].scoring)
  BY DEF Evaluation
<1> HIDE DEF P, e
<1>8. e.total = n /\ e.passed \in 0..e.total BY <1>1, <1>5, <1>6
<1> QED BY <1>7, <1>8 DEF e

\* The cases of a TEXT call, and the grades of as many answers.
LEMMA CasesCounted ==
  ASSUME NEW j, JobRight(j), TextJob(j)
  PROVE  /\ CasesOf(j) \in Seq(Range(CasesOf(j))) /\ Len(CasesOf(j)) = CaseCount(j)
         /\ CaseCount(j) \in Nat
         /\ j.use = "submit" => CaseCount(j) = Suite(j)
<1> DEFINE v == Version[j.version]
           V == Range(v.visible)
           H == Range(v.hidden)
<1>1. v.visible \in Seq(V) /\ v.hidden \in Seq(H)
  <2>1. \A suite \in {v.visible, v.hidden} : suite \in Seq(Range(suite))
    <3>1. \A suite \in {v.visible, v.hidden} : suite = <<>> \/ suite \in Seq(Range(suite))
      BY DEF JobRight, TextJob, ValidVersion, ValidSuite
    <3>2. \A X : <<>> \in Seq(X)
      OBVIOUS
    <3> QED BY <3>1, <3>2
  <2> QED BY <2>1
<1>2. Len(v.visible) \in Nat /\ Len(v.hidden) \in Nat
  <2> HIDE DEF V, H, v
  <2> QED BY <1>1
<1>3. j.use \in {"run", "submit", "test"} BY DEF JobRight, Uses
<1>4. CASE j.use = "run"
  BY <1>1, <1>2, <1>4 DEF CasesOf, CaseCount
<1>5. CASE j.use = "submit"
  BY <1>1, <1>2, <1>5 DEF CasesOf, CaseCount, HiddenOf, Suite
<1>6. CASE j.use = "test"
  <2>1. CasesOf(j) = v.visible \o v.hidden BY <1>6 DEF CasesOf, HiddenOf
  <2>2. CaseCount(j) = Len(v.visible) + Len(v.hidden) BY <1>6 DEF CaseCount
  <2> HIDE DEF V, H, v
  <2>3. /\ v.visible \o v.hidden \in Seq(V \cup H)
        /\ Len(v.visible \o v.hidden) = Len(v.visible) + Len(v.hidden)
    BY <1>1
  <2>4. CasesOf(j) \in Seq(V \cup H) /\ Len(CasesOf(j)) = CaseCount(j) BY <2>1, <2>2, <2>3
  <2>5. CasesOf(j) \in Seq(Range(CasesOf(j)))
    <3> DEFINE s == CasesOf(j)
    <3> HIDE DEF s
    <3>1. s \in Seq(V \cup H) BY <2>4 DEF s
    <3>2. s = [i \in 1..Len(s) |-> s[i]] /\ Len(s) \in Nat /\ DOMAIN s = 1..Len(s) BY <3>1
    <3>3. s \in Seq({s[i] : i \in 1..Len(s)}) BY <3>2, MapLen
    <3> QED BY <3>2, <3>3 DEF s, Range
  <2>6. \A m, n \in Nat : m + n \in Nat OBVIOUS
  <2>7. CaseCount(j) \in Nat BY <2>2, <1>2, <2>6, Zenon
  <2> QED BY <2>4, <2>5, <2>7, <1>6
<1> QED BY <1>3, <1>4, <1>5, <1>6

LEMMA GradesCounted ==
  ASSUME NEW j, JobRight(j), TextJob(j), NEW texts \in Seq(Outputs), Len(texts) = CaseCount(j)
  PROVE  LET passes == Passes(GradesOf(j, texts))
         IN passes = [i \in 1..CaseCount(j) |-> passes[i]]
<1>1. CasesOf(j) \in Seq(Range(CasesOf(j))) /\ Len(CasesOf(j)) = CaseCount(j) BY CasesCounted
<1>2. DOMAIN CasesOf(j) = 1..CaseCount(j) /\ DOMAIN texts = 1..CaseCount(j) BY <1>1
<1>3. DOMAIN GradesOf(j, texts) = 1..CaseCount(j) BY <1>2 DEF GradesOf, EvaluateBatch
<1> QED BY <1>3 DEF Passes

LEMMA ChecksCounted ==
  ASSUME NEW j, JobRight(j), ~TextJob(j), j.use = "submit"
  PROVE  DOMAIN ChecksOf(j) = 1..Suite(j) /\ Suite(j) \in Nat \ {0}
<1> DEFINE ids == Version[j.version].config.hidden_checks
           I == Range(ids)
<1>1. ids \in Seq(I) /\ ids # <<>>
  BY DEF JobRight, TextJob, ValidVersion, ValidConfig, Unique
<1>2. Suite(j) = Len(ids) BY DEF Suite
<1>3. DOMAIN ChecksOf(j) = DOMAIN ids BY DEF ChecksOf, Config, SelectedChecks
<1> HIDE DEF ids, I
<1> QED BY <1>1, <1>2, <1>3

-----------------------------------------------------------------------------
(* The steps *)

\* What would be saved of a call depends on what it was asked only.
LEMMA SameSubmission ==
  ASSUME NEW c \in Calls, job'[c] = job[c]
  PROVE  \A e : Submission(c, e)' = Submission(c, e)
  BY DEF Submission

\* A step of one call leaves the others as they are.
LEMMA OneCall ==
  ASSUME IInv, NEW c \in Calls, Shapes', release' = release,
         \A d \in Calls \ {c} :
           /\ pc'[d] = pc[d] /\ job'[d] = job[d] /\ heard'[d] = heard[d]
           /\ workspace'[d] = workspace[d] /\ result'[d] = result[d] /\ answer'[d] = answer[d]
           /\ RowsOf(d)' = RowsOf(d),
         Progress(c)', Outcome(c)', Built(c)',
         \A row \in saved' : RowRight(row)
  PROVE  IInv'
<1>1. ASSUME NEW d \in Calls \ {c} PROVE Progress(d)' /\ Outcome(d)' /\ Built(d)'
  <2>1. Progress(d) /\ Outcome(d) /\ Built(d) BY DEF IInv
  <2>2. Progress(d)' BY <2>1 DEF Progress
  <2>3. Outcome(d)' BY <2>1, SameSubmission DEF Outcome, Kept, VerdictOf
  <2>4. Built(d)' BY <2>1 DEF Built, PackageOf, Config
  <2> QED BY <2>2, <2>3, <2>4
<1>2. \A d \in Calls : Progress(d)' /\ Outcome(d)' /\ Built(d)' BY <1>1
<1> QED BY <1>2 DEF IInv

\* A call that is at work and is refused leaves nothing, unless it is told that
\* saving failed.
LEMMA RefusedStep ==
  ASSUME IInv, NEW c \in Calls, NEW failure \in Failures, Working(c), NEW h,
         pc[c] = "committed" => failure = "persistence_error",
         pc' = [pc EXCEPT ![c] = "answered"],
         answer' = [answer EXCEPT ![c] = Failed(failure)],
         workspace' = [workspace EXCEPT ![c] = None],
         DOMAIN heard' = Calls, heard'[c] = h, \A d \in Calls \ {c} : heard'[d] = heard[d],
         UNCHANGED <<job, result, world>>
  PROVE  IInv'
<1>1. Shapes /\ Progress(c) /\ Outcome(c) BY DEF IInv
<1>2. Shapes' BY <1>1 DEF Shapes, Stages, world
<1>3. /\ pc'[c] = "answered" /\ answer'[c] = Failed(failure) /\ workspace'[c] = None
      /\ job'[c] = job[c] /\ result'[c] = result[c] /\ RowsOf(c)' = RowsOf(c)
      /\ pc[c] \notin {"idle", "answered", "killed"}
  BY <1>1 DEF Shapes, Working, RowsOf, world
<1>4. Progress(c)' BY <1>1, <1>3 DEF Progress
<1>5. Outcome(c)'
  <2>1. RowsOf(c) # {} => failure = "persistence_error" BY <1>1, <1>3 DEF Outcome
  <2>2. \A e : Submission(c, e)' = Submission(c, e) BY <1>3, SameSubmission
  <2>3. ~IsScored(answer'[c]) BY <1>3, Refused
  <2>4. Kept(c)' BY <1>1, <1>3, <2>1, <2>2, <2>3 DEF Outcome, Kept
  <2> QED BY <1>3, <2>3, <2>4 DEF Outcome
<1>6. Built(c)' BY <1>3 DEF Built
<1>7. \A row \in saved' : RowRight(row) BY DEF IInv, world
<1>8. \A d \in Calls \ {c} :
         /\ pc'[d] = pc[d] /\ job'[d] = job[d] /\ heard'[d] = heard[d]
         /\ workspace'[d] = workspace[d] /\ result'[d] = result[d] /\ answer'[d] = answer[d]
         /\ RowsOf(d)' = RowsOf(d)
  BY <1>1 DEF Shapes, RowsOf, world
<1> QED BY <1>2, <1>4, <1>5, <1>6, <1>7, <1>8, OneCall DEF world

LEMMA FailStep ==
  ASSUME IInv, NEW c \in Calls, NEW failure \in Failures, Working(c), Fail(c, failure),
         pc[c] = "committed" => failure = "persistence_error"
  PROVE  IInv'
<1>1. DOMAIN heard' = Calls /\ \A d \in Calls : heard'[d] = heard[d] BY DEF IInv, Shapes, Fail
<1> QED BY <1>1, RefusedStep DEF Fail

\* A call that comes to a verdict shows it or is about to save it.
LEMMA ConcludeStep ==
  ASSUME IInv, NEW c \in Calls, NEW e, NEW h,
         pc[c] \in {"asking", "agent", "inspect"}, Conclude(c, e),
         DOMAIN heard' = Calls, heard'[c] = h, \A d \in Calls \ {c} : heard'[d] = heard[d],
         job[c].use = "submit" => Judged(job[c], e),
         TextJob(job[c]) => e.total = CaseCount(job[c]) /\ Len(h) = e.total
  PROVE  IInv'
<1>1. Shapes /\ Progress(c) /\ Outcome(c) BY DEF IInv
<1>2. Shapes' BY <1>1 DEF Shapes, Stages, Conclude, Show, world
<1>3. /\ workspace'[c] = None /\ job'[c] = job[c] /\ heard'[c] = h /\ RowsOf(c)' = {}
      /\ answer[c] = None /\ pc[c] # "idle"
      /\ \/ job[c].use = "submit" /\ pc'[c] = "saving" /\ result'[c] = {e} /\ answer'[c] = None
         \/ job[c].use # "submit" /\ pc'[c] = "answered" /\ answer'[c] = Scored(e)
  BY <1>1 DEF Shapes, Outcome, Conclude, Show, RowsOf, world
<1>4. Progress(c)' BY <1>1, <1>3 DEF Progress
<1>5. VerdictOf(c, e)' BY <1>3 DEF VerdictOf
<1>6. Scored(e).evaluation = e BY DEF Scored
<1>7. Outcome(c)' BY <1>3, <1>5, <1>6 DEF Outcome, Kept, IsScored
<1>8. Built(c)' BY <1>3 DEF Built
<1>9. \A row \in saved' : RowRight(row) BY DEF IInv, Conclude, Show, world
<1>10. \A d \in Calls \ {c} :
         /\ pc'[d] = pc[d] /\ job'[d] = job[d] /\ heard'[d] = heard[d]
         /\ workspace'[d] = workspace[d] /\ result'[d] = result[d] /\ answer'[d] = answer[d]
         /\ RowsOf(d)' = RowsOf(d)
  BY <1>1 DEF Shapes, Conclude, Show, RowsOf, world
<1>11. release' = release BY DEF Conclude, Show, world
<1> QED BY <1>2, <1>4, <1>7, <1>8, <1>9, <1>10, <1>11, OneCall

LEMMA AdmitStep ==
  ASSUME IInv, NEW c \in Calls, NEW v \in DOMAIN Version, NEW request \in Wants[c],
         Admit(c, request, v)
  PROVE  IInv'
<1>1. Shapes /\ Progress(c) /\ Outcome(c) /\ pc[c] = "idle" BY DEF IInv, Admit
<1> DEFINE p == request.prompt
           long == TooLong(request, v)
           j == [use |-> request.use, prompt |-> p, version |-> v]
<1>2. /\ job' = [job EXCEPT ![c] = j]
      /\ pc' = [pc EXCEPT ![c] = IF long THEN "answered" ELSE Start(v)]
      /\ answer' = [answer EXCEPT ![c] = IF long THEN Failed("prompt_too_long") ELSE @]
      /\ UNCHANGED <<heard, workspace, result, world>>
  BY DEF Admit
<1>3. JobRight(j)
  <2>1. request \in Requests BY WantsAssumption
  <2>2. ValidVersion(Version[v]) BY <2>1, VersionsAssumption DEF Admit, Requests
  <2> QED BY <2>1, <2>2 DEF JobRight, Requests
<1>4. Start(v) \in {"suite", "package"} /\ (Start(v) = "suite" <=> TextJob(j))
  BY DEF Start, TextJob
<1>5. job'[c] = j /\ pc'[c] \in {"answered", Start(v)} BY <1>1, <1>2 DEF Shapes
<1>6. (pc'[c] = "answered" /\ answer'[c] = Failed("prompt_too_long")) \/
      (pc'[c] = Start(v) /\ answer'[c] = None)
  BY <1>1, <1>2 DEF Shapes, Outcome
<1>7. heard'[c] = <<>> /\ workspace'[c] = None /\ RowsOf(c)' = {}
  BY <1>1, <1>2 DEF Progress, Outcome, RowsOf, world
<1>8. \A row \in saved' : RowRight(row) BY <1>2 DEF IInv, world
<1>9. \A d \in Calls \ {c} :
         /\ pc'[d] = pc[d] /\ job'[d] = job[d] /\ heard'[d] = heard[d]
         /\ workspace'[d] = workspace[d] /\ result'[d] = result[d] /\ answer'[d] = answer[d]
         /\ RowsOf(d)' = RowsOf(d)
  BY <1>1, <1>2 DEF Shapes, RowsOf, world
<1>10. Shapes' BY <1>1, <1>2, <1>4 DEF Shapes, Stages, world
<1>11. release' = release BY <1>2 DEF world
<1> HIDE DEF j, p, long
<1>12. Progress(c)' BY <1>3, <1>4, <1>5, <1>7 DEF Progress
<1>13. Outcome(c)'
  <2>1. "prompt_too_long" \in Failures BY DEF Failures
  <2>2. ~IsScored(Failed("prompt_too_long")) BY <2>1, Refused
  <2> QED BY <1>4, <1>6, <1>7, <2>2 DEF Outcome, Kept, IsScored
<1>14. Built(c)' BY <1>4, <1>5 DEF Built
<1> QED BY <1>8, <1>9, <1>10, <1>11, <1>12, <1>13, <1>14, OneCall

LEMMA ReadSuiteStep ==
  ASSUME IInv, NEW c \in Calls, ReadSuite(c)
  PROVE  IInv'
<1>1. Shapes /\ Progress(c) /\ Outcome(c) /\ pc[c] = "suite" BY DEF IInv, ReadSuite
<1>2. CASE \E failure \in {"hidden_evaluation_unavailable", "persistence_error",
                          "admin_challenge_state_error"} : Fail(c, failure)
  BY <1>1, <1>2, FailStep DEF Failures, Working
<1>3. CASE /\ CasesOf(job[c]) # <<>> /\ pc' = [pc EXCEPT ![c] = "asking"]
           /\ UNCHANGED <<job, heard, workspace, result, answer, world>>
  <2>1. CaseCount(job[c]) \in Nat \ {0}
    <3> DEFINE cases == CasesOf(job[c])
               R == Range(cases)
    <3>1. cases \in Seq(R) /\ Len(cases) = CaseCount(job[c])
      BY <1>1, CasesCounted DEF Progress
    <3>2. cases # <<>> BY <1>3
    <3> HIDE DEF cases, R
    <3>3. Len(cases) \in Nat \ {0} BY <3>1, <3>2
    <3> QED BY <3>1, <3>3
  <2>2. Shapes' BY <1>1, <1>3 DEF Shapes, Stages, world
  <2>3. pc'[c] = "asking" BY <1>1, <1>3 DEF Shapes
  <2>4. <<>> \in Seq(Outputs) /\ Len(<<>>) = 0 OBVIOUS
  <2>5. Progress(c)'
    <3>1. heard'[c] = <<>> /\ job'[c] = job[c] /\ TextJob(job[c]) /\ JobRight(job[c])
      BY <1>1, <1>3 DEF Progress
    <3>2. heard'[c] \in Seq(Outputs) /\ Len(heard'[c]) < CaseCount(job[c]) BY <2>1, <2>4, <3>1
    <3> QED BY <2>3, <3>1, <3>2 DEF Progress
  <2>6. RowsOf(c)' = RowsOf(c) BY <1>3 DEF RowsOf, world
  <2>7. Outcome(c)' BY <1>1, <1>3, <2>3, <2>6 DEF Outcome, Kept, IsScored
  <2>8. Built(c)' BY <2>3 DEF Built
  <2>9. \A row \in saved' : RowRight(row) BY <1>3 DEF IInv, world
  <2>10. \A d \in Calls \ {c} :
           /\ pc'[d] = pc[d] /\ job'[d] = job[d] /\ heard'[d] = heard[d]
           /\ workspace'[d] = workspace[d] /\ result'[d] = result[d] /\ answer'[d] = answer[d]
           /\ RowsOf(d)' = RowsOf(d)
    BY <1>1, <1>3 DEF Shapes, RowsOf, world
  <2> QED BY <1>3, <2>2, <2>5, <2>7, <2>8, <2>9, <2>10, OneCall DEF world
<1> QED BY <1>2, <1>3 DEF ReadSuite

LEMMA ModelAnswersStep ==
  ASSUME IInv, NEW c \in Calls, NEW output \in Outputs, ModelAnswers(c, output)
  PROVE  IInv'
<1>1. Shapes /\ Progress(c) /\ Outcome(c) /\ pc[c] = "asking" BY DEF IInv, ModelAnswers
<1> DEFINE texts == Append(heard[c], output)
           j == job[c]
<1>2. JobRight(j) /\ TextJob(j) /\ heard[c] \in Seq(Outputs) /\ Len(heard[c]) < CaseCount(j)
  BY <1>1 DEF Progress
<1>3. CaseCount(j) \in Nat \ {0} /\ Len(CasesOf(j)) = CaseCount(j)
      /\ (j.use = "submit" => CaseCount(j) = Suite(j))
  <2>1. CaseCount(j) \in Nat /\ Len(heard[c]) \in Nat BY <1>2, CasesCounted
  <2>2. CaseCount(j) \in Nat \ {0} BY <1>2, <2>1
  <2> QED BY <1>2, <2>2, CasesCounted
<1>4. texts \in Seq(Outputs) /\ Len(texts) = Len(heard[c]) + 1 BY <1>2
<1>5. /\ heard' = [heard EXCEPT ![c] = texts]
      /\ DOMAIN heard' = Calls /\ heard'[c] = texts /\ \A d \in Calls \ {c} : heard'[d] = heard[d]
  BY <1>1 DEF ModelAnswers, Shapes
<1>6. CASE /\ pc' = [pc EXCEPT ![c] = "answered"]
           /\ answer' = [answer EXCEPT ![c] = Failed("invalid_evaluation_configuration")]
           /\ UNCHANGED <<job, workspace, result, world>>
  <2>1. Shapes' BY <1>1, <1>5, <1>6 DEF Shapes, Stages, world
  <2>2. /\ pc'[c] = "answered" /\ answer'[c] = Failed("invalid_evaluation_configuration")
        /\ workspace'[c] = None /\ job'[c] = job[c] /\ RowsOf(c)' = {}
    BY <1>1, <1>6 DEF Shapes, Outcome, RowsOf, world
  <2>3. ~IsScored(Failed("invalid_evaluation_configuration"))
    <3>1. "invalid_evaluation_configuration" \in Failures BY DEF Failures
    <3> QED BY <3>1, Refused
  <2>4. Progress(c)' BY <1>2, <2>2 DEF Progress
  <2>5. Outcome(c)' BY <2>2, <2>3 DEF Outcome, Kept
  <2>6. Built(c)' BY <2>2 DEF Built
  <2>7. \A row \in saved' : RowRight(row) BY <1>6 DEF IInv, world
  <2>8. \A d \in Calls \ {c} :
           /\ pc'[d] = pc[d] /\ job'[d] = job[d] /\ heard'[d] = heard[d]
           /\ workspace'[d] = workspace[d] /\ result'[d] = result[d] /\ answer'[d] = answer[d]
           /\ RowsOf(d)' = RowsOf(d)
    BY <1>1, <1>5, <1>6 DEF Shapes, RowsOf, world
  <2> QED BY <1>6, <2>1, <2>4, <2>5, <2>6, <2>7, <2>8, OneCall DEF world
<1>7. CASE Len(texts) # CaseCount(j) /\ UNCHANGED <<pc, job, workspace, result, answer, world>>
  <2>1. Shapes' BY <1>1, <1>5, <1>7 DEF Shapes, world
  <2>2. Len(texts) < CaseCount(j) BY <1>2, <1>3, <1>4, <1>7
  <2>3. RowsOf(c)' = {} BY <1>1, <1>7 DEF Outcome, RowsOf, world
  <2>4. Progress(c)' BY <1>1, <1>2, <1>4, <1>5, <1>7, <2>2 DEF Progress
  <2>5. Outcome(c)' BY <1>1, <1>7, <2>3 DEF Outcome, Kept, IsScored
  <2>6. Built(c)' BY <1>1, <1>7 DEF Built
  <2>7. \A row \in saved' : RowRight(row) BY <1>7 DEF IInv, world
  <2>8. \A d \in Calls \ {c} : heard'[d] = heard[d] /\ RowsOf(d)' = RowsOf(d)
    BY <1>5, <1>7 DEF RowsOf, world
  <2> QED BY <1>7, <2>1, <2>4, <2>5, <2>6, <2>7, <2>8, OneCall DEF world
<1>8. CASE Len(texts) = CaseCount(j) /\ Conclude(c, Evaluation(j, "none", Passes(GradesOf(j, texts))))
  <2> DEFINE passes == Passes(GradesOf(j, texts))
             e == Evaluation(j, "none", passes)
  <2>1. passes = [i \in 1..CaseCount(j) |-> passes[i]] BY <1>2, <1>4, <1>8, GradesCounted
  <2> HIDE DEF passes
  <2>2. /\ e.total = CaseCount(j) /\ e.passed \in 0..e.total
        /\ j.use # "run" =>
             e.score = Score(Count[j.prompt], PassRate(e.passed, e.total), Version[j.version].scoring)
    BY <1>3, <2>1, Counted
  <2>3. Conclude(c, e) BY <1>8 DEF passes
  <2> HIDE DEF e
  <2>4. j.use = "submit" => Judged(j, e) BY <1>3, <2>2 DEF Judged
  <2>5. pc[c] \in {"asking", "agent", "inspect"} BY <1>1
  <2> HIDE DEF texts
  <2> QED BY <1>5, <1>8, <2>2, <2>3, <2>4, <2>5, ConcludeStep
<1> QED BY <1>3, <1>6, <1>7, <1>8 DEF ModelAnswers

LEMMA PreparePackageStep ==
  ASSUME IInv, NEW c \in Calls, PreparePackage(c)
  PROVE  IInv'
<1>1. Shapes /\ Progress(c) /\ Outcome(c) /\ pc[c] = "package" BY DEF IInv, PreparePackage
<1>2. Working(c) BY <1>1 DEF Working
<1>3. CASE \E failure \in Failures : Fail(c, failure) BY <1>1, <1>2, <1>3, FailStep
<1>4. CASE /\ Usable(Packages[release], Config(job[c]))
           /\ pc' = [pc EXCEPT ![c] = "agent"]
           /\ workspace' = [workspace EXCEPT ![c] = PackageOf(job[c]).starter]
           /\ UNCHANGED <<job, heard, result, answer, world>>
  <2>1. Shapes' BY <1>1, <1>4 DEF Shapes, Stages, world
  <2>2. pc'[c] = "agent" /\ workspace'[c] = PackageOf(job[c]).starter
    BY <1>1, <1>4 DEF Shapes
  <2>3. RowsOf(c)' = {} BY <1>1, <1>4 DEF Outcome, RowsOf, world
  <2>4. Progress(c)' BY <1>1, <1>4, <2>2 DEF Progress
  <2>5. Outcome(c)' BY <1>1, <1>4, <2>2, <2>3 DEF Outcome, Kept, IsScored
  <2>6. Built(c)'
    <3>1. PackageOf(job[c])' = PackageOf(job[c]) BY <1>4 DEF PackageOf, Config, world
    <3>2. Usable(Packages[release'], Config(job[c])') BY <1>4 DEF Config, world
    <3> QED BY <2>2, <3>1, <3>2 DEF Built
  <2>7. \A row \in saved' : RowRight(row) BY <1>4 DEF IInv, world
  <2>8. \A d \in Calls \ {c} :
           /\ pc'[d] = pc[d] /\ job'[d] = job[d] /\ heard'[d] = heard[d]
           /\ workspace'[d] = workspace[d] /\ result'[d] = result[d] /\ answer'[d] = answer[d]
           /\ RowsOf(d)' = RowsOf(d)
    BY <1>1, <1>4 DEF Shapes, RowsOf, world
  <2> QED BY <1>4, <2>1, <2>4, <2>5, <2>6, <2>7, <2>8, OneCall DEF world
<1>5. {"application_environment_unavailable", "invalid_application_configuration",
       "sandbox_unavailable"} \subseteq Failures
  BY DEF Failures
<1> QED BY <1>3, <1>4, <1>5 DEF PreparePackage

\* The evaluation of the selected checks, whatever they say.
LEMMA ChecksJudged ==
  ASSUME NEW j, JobRight(j), ~TextJob(j), NEW build, NEW passes,
         passes = [i \in DOMAIN ChecksOf(j) |-> passes[i]]
  PROVE  j.use = "submit" => Judged(j, Evaluation(j, build, passes))
<1> SUFFICES ASSUME j.use = "submit" PROVE Judged(j, Evaluation(j, build, passes))
  OBVIOUS
<1>1. DOMAIN ChecksOf(j) = 1..Suite(j) /\ Suite(j) \in Nat \ {0} BY ChecksCounted
<1>2. passes = [i \in 1..Suite(j) |-> passes[i]] BY <1>1
<1> DEFINE e == Evaluation(j, build, passes)
<1>3. /\ e.total = Suite(j) /\ e.passed \in 0..e.total
      /\ j.use # "run" =>
           e.score = Score(Count[j.prompt], PassRate(e.passed, e.total), Version[j.version].scoring)
  BY <1>1, <1>2, Counted
<1> HIDE DEF e
<1>4. Judged(j, e) BY <1>1, <1>3 DEF Judged
<1> QED BY <1>4 DEF e

LEMMA AgentRepliesStep ==
  ASSUME IInv, NEW c \in Calls, NEW reply \in Replies, AgentReplies(c, reply)
  PROVE  IInv'
<1>1. Shapes /\ Progress(c) /\ Outcome(c) /\ Built(c) /\ pc[c] = "agent"
  BY DEF IInv, AgentReplies
<1> DEFINE starter == PackageOf(job[c]).starter
<1>2. JobRight(job[c]) /\ ~TextJob(job[c]) /\ workspace[c] = starter
      /\ pc[c] \in {"asking", "agent", "inspect"}
  BY <1>1 DEF Progress, Built
<1>3. /\ heard' = [heard EXCEPT ![c] = <<reply>>]
      /\ DOMAIN heard' = Calls /\ heard'[c] = <<reply>> /\ \A d \in Calls \ {c} : heard'[d] = heard[d]
  BY <1>1 DEF AgentReplies, Shapes
<1>4. CASE Conclude(c, Evaluation(job[c], "skipped", NothingPasses(ChecksOf(job[c]))))
  <2> DEFINE passes == NothingPasses(ChecksOf(job[c]))
             e == Evaluation(job[c], "skipped", passes)
  <2>1. passes = [i \in DOMAIN ChecksOf(job[c]) |-> passes[i]] BY DEF NothingPasses
  <2> HIDE DEF passes
  <2>2. job[c].use = "submit" => Judged(job[c], e) BY <1>2, <2>1, ChecksJudged
  <2>3. Conclude(c, e) BY <1>4 DEF passes
  <2> HIDE DEF e
  <2> QED BY <1>2, <1>3, <2>2, <2>3, ConcludeStep
<1>5. CASE /\ ParseEdits(reply, Originals(job[c], workspace[c]), Config(job[c]).limits) = "accepted"
           /\ workspace' = [workspace EXCEPT ![c] = Overlay(@, reply.files)]
           /\ pc' = [pc EXCEPT ![c] = "inspect"]
           /\ UNCHANGED <<job, result, answer, world>>
  <2>1. Shapes' BY <1>1, <1>3, <1>5 DEF Shapes, Stages, world
  <2>2. pc'[c] = "inspect" /\ workspace'[c] = Overlay(starter, reply.files) /\ job'[c] = job[c]
    BY <1>1, <1>2, <1>5 DEF Shapes
  <2>3. RowsOf(c)' = {} BY <1>1, <1>5 DEF Outcome, RowsOf, world
  <2>4. Progress(c)' BY <1>2, <2>2 DEF Progress
  <2>5. Outcome(c)' BY <1>1, <1>5, <2>2, <2>3 DEF Outcome, Kept, IsScored
  <2>6. Built(c)'
    <3>1. PackageOf(job[c])' = PackageOf(job[c]) BY <1>5 DEF PackageOf, Config, world
    <3>2. Originals(job[c], starter)' = Originals(job[c], starter) /\ Config(job[c])' = Config(job[c])
      BY <1>5, <3>1 DEF Originals, Config
    <3>3. ParseEdits(reply, Originals(job[c], starter), Config(job[c]).limits) = "accepted"
      BY <1>2, <1>5
    <3>4. Usable(Packages[release'], Config(job[c])') BY <1>1, <1>5 DEF Built, Config, world
    <3> HIDE DEF starter
    <3> QED BY <1>3, <2>2, <3>1, <3>2, <3>3, <3>4 DEF Built, starter
  <2>7. \A row \in saved' : RowRight(row) BY <1>5 DEF IInv, world
  <2>8. \A d \in Calls \ {c} :
           /\ pc'[d] = pc[d] /\ job'[d] = job[d] /\ heard'[d] = heard[d]
           /\ workspace'[d] = workspace[d] /\ result'[d] = result[d] /\ answer'[d] = answer[d]
           /\ RowsOf(d)' = RowsOf(d)
    BY <1>1, <1>3, <1>5 DEF Shapes, RowsOf, world
  <2> QED BY <1>5, <2>1, <2>4, <2>5, <2>6, <2>7, <2>8, OneCall DEF world
<1> QED BY <1>4, <1>5 DEF AgentReplies

LEMMA InspectedStep ==
  ASSUME IInv, NEW c \in Calls, NEW built \in BOOLEAN, Inspected(c, built)
  PROVE  IInv'
<1>1. Shapes /\ Progress(c) /\ pc[c] = "inspect" BY DEF IInv, Inspected
<1>2. JobRight(job[c]) /\ ~TextJob(job[c]) /\ pc[c] \in {"asking", "agent", "inspect"}
  BY <1>1 DEF Progress
<1> DEFINE results == EvaluateChecks(ChecksOf(job[c]), Facts(job[c], workspace[c], built))
           passes == [i \in DOMAIN results |-> results[i].passed]
           build == IF built THEN "passed" ELSE "failed"
           e == Evaluation(job[c], build, passes)
<1>3. Conclude(c, e) BY DEF Inspected, InspectionOf
<1>4. DOMAIN results = DOMAIN ChecksOf(job[c]) BY DEF EvaluateChecks
<1> HIDE DEF results
<1>5. passes = [i \in DOMAIN ChecksOf(job[c]) |-> passes[i]] BY <1>4
<1> HIDE DEF passes, build
<1>6. job[c].use = "submit" => Judged(job[c], e) BY <1>2, <1>5, ChecksJudged
<1> HIDE DEF e
<1>7. DOMAIN heard' = Calls /\ \A d \in Calls : heard'[d] = heard[d] BY <1>1 DEF Inspected, Shapes
<1> QED BY <1>2, <1>3, <1>6, <1>7, ConcludeStep

LEMMA SaveStep ==
  ASSUME IInv, NEW c \in Calls, Save(c)
  PROVE  IInv'
<1>1. Shapes /\ Progress(c) /\ Outcome(c) /\ pc[c] = "saving" BY DEF IInv, Save
<1>2. PICK e : result[c] = {e} /\ VerdictOf(c, e)
  BY <1>1 DEF Outcome
<1>3. /\ JobRight(job[c]) /\ job[c].use = "submit" /\ RowsOf(c) = {}
      /\ workspace[c] = None /\ answer[c] = None
  BY <1>1 DEF Progress, Outcome
<1>4. CASE Fail(c, "persistence_error")
  BY <1>1, <1>4, FailStep DEF Failures, Working
<1>5. CASE /\ saved' = saved \cup {Submission(c, x) : x \in result[c]}
           /\ pc' = [pc EXCEPT ![c] = "committed"]
           /\ UNCHANGED <<job, heard, workspace, result, answer, current, release>>
  <2> DEFINE row == Submission(c, e)
  <2>1. row.call = c /\ row.version = job[c].version /\ row.evaluation = e
    BY DEF Submission
  <2>2. RowRight(row)
    <3>1. Judged(job[c], e) BY <1>2, <1>3 DEF VerdictOf
    <3> DEFINE j == [use |-> "submit", prompt |-> job[c].prompt, version |-> job[c].version]
    <3>2. j.use = job[c].use /\ j.prompt = job[c].prompt /\ j.version = job[c].version BY <1>3
    <3> HIDE DEF j
    <3>3. JobRight(j) /\ Judged(j, e)
      BY <1>3, <3>1, <3>2 DEF JobRight, Judged, Suite, TextJob
    <3>4. job[c].prompt \in Prompts BY <1>3 DEF JobRight
    <3> QED BY <2>1, <3>3, <3>4 DEF RowRight, j
  <2>3. {Submission(c, x) : x \in result[c]} = {row} BY <1>2
  <2>4. {Submission(c, x)' : x \in result'[c]} = {row} /\ \A x : Submission(c, x)' = Submission(c, x)
    BY <1>2, <1>5, SameSubmission
  <2> HIDE DEF row
  <2>5. saved' = saved \cup {row} BY <1>5, <2>3
  <2>6. \A r \in saved' : RowRight(r) BY <2>2, <2>5 DEF IInv
  <2>7. RowsOf(c)' = {row} BY <1>3, <2>1, <2>5 DEF RowsOf
  <2>8. \A d \in Calls \ {c} : RowsOf(d)' = RowsOf(d) BY <2>1, <2>5 DEF RowsOf
  <2>9. Shapes' BY <1>1, <1>5 DEF Shapes, Stages
  <2>10. pc'[c] = "committed" /\ answer'[c] = None /\ workspace'[c] = None /\ result'[c] = {e}
    BY <1>1, <1>2, <1>3, <1>5 DEF Shapes
  <2>11. Progress(c)' BY <1>3, <1>5, <2>10 DEF Progress
  <2>12. VerdictOf(c, e)' BY <1>2, <1>5 DEF VerdictOf
  <2>13. Kept(c)' BY <1>3, <1>5, <2>4, <2>7, <2>10 DEF Kept, IsScored
  <2>14. Outcome(c)' BY <1>3, <1>5, <2>4, <2>7, <2>10, <2>12, <2>13 DEF Outcome, IsScored
  <2>15. Built(c)' BY <2>10 DEF Built
  <2>16. \A d \in Calls \ {c} : pc'[d] = pc[d] BY <1>1, <1>5 DEF Shapes
  <2> QED BY <1>5, <2>6, <2>8, <2>9, <2>11, <2>14, <2>15, <2>16, OneCall
<1> QED BY <1>4, <1>5 DEF Save

LEMMA AcknowledgeStep ==
  ASSUME IInv, NEW c \in Calls, Acknowledge(c)
  PROVE  IInv'
<1>1. Shapes /\ Progress(c) /\ Outcome(c) /\ pc[c] = "committed" BY DEF IInv, Acknowledge
<1>2. PICK e : result[c] = {e} /\ VerdictOf(c, e)
  BY <1>1 DEF Outcome
<1>3. CASE Fail(c, "persistence_error")
  BY <1>1, <1>3, FailStep DEF Failures, Working
<1>4. CASE /\ pc' = [pc EXCEPT ![c] = "answered"]
           /\ answer' = [answer EXCEPT ![c] = Scored(e)]
           /\ UNCHANGED <<job, heard, workspace, result, world>>
  <2>1. Shapes' BY <1>1, <1>4 DEF Shapes, Stages, world
  <2>2. /\ pc'[c] = "answered" /\ answer'[c] = Scored(e) /\ Scored(e).evaluation = e
        /\ workspace'[c] = None /\ result'[c] = {e} /\ job'[c] = job[c]
    BY <1>1, <1>2, <1>4 DEF Shapes, Outcome, Scored
  <2>3. RowsOf(c)' = {Submission(c, e)} /\ job[c].use = "submit"
    BY <1>1, <1>2, <1>4 DEF Outcome, RowsOf, world
  <2>4. Submission(c, e)' = Submission(c, e) BY <2>2, SameSubmission
  <2>5. Progress(c)' BY <1>1, <2>2 DEF Progress
  <2>6. VerdictOf(c, e)' BY <1>2, <1>4 DEF VerdictOf
  <2>7. Kept(c)' BY <2>2, <2>3, <2>4 DEF Kept
  <2>8. Outcome(c)' BY <2>2, <2>6, <2>7 DEF Outcome
  <2>9. Built(c)' BY <2>2 DEF Built
  <2>10. \A row \in saved' : RowRight(row) BY <1>4 DEF IInv, world
  <2>11. \A d \in Calls \ {c} :
           /\ pc'[d] = pc[d] /\ job'[d] = job[d] /\ heard'[d] = heard[d]
           /\ workspace'[d] = workspace[d] /\ result'[d] = result[d] /\ answer'[d] = answer[d]
           /\ RowsOf(d)' = RowsOf(d)
    BY <1>1, <1>4 DEF Shapes, RowsOf, world
  <2> QED BY <1>4, <2>1, <2>5, <2>8, <2>9, <2>10, <2>11, OneCall DEF world
<1> QED BY <1>2, <1>3, <1>4 DEF Acknowledge

LEMMA WorldStep ==
  ASSUME IInv,
         \/ \E ch \in Challenges : \E v \in VersionsOf[ch] : Publish(ch, v)
         \/ \E r \in Releases : Restart(r)
         \/ UNCHANGED vars
  PROVE  IInv'
<1>1. Shapes BY DEF IInv
<1>2. UNCHANGED <<job, heard, workspace, result, answer, saved>>
  BY DEF Publish, Restart, vars, caller, world
<1>3. Shapes' /\ \A c \in Calls :
         \/ pc'[c] = pc[c] /\ (release' = release \/ pc[c] \in {"idle", "answered", "killed"})
         \/ pc'[c] = "killed" /\ pc[c] # "idle" /\ pc[c] # "answered"
  BY <1>1, <1>2 DEF Shapes, Stages, Publish, Restart, vars, caller, world, Working
<1>4. ASSUME NEW c \in Calls PROVE Progress(c)' /\ Outcome(c)' /\ Built(c)'
  <2>1. Progress(c) /\ Outcome(c) /\ Built(c) BY DEF IInv
  <2>2. RowsOf(c)' = RowsOf(c) BY <1>2 DEF RowsOf
  <2>3. Progress(c)' BY <1>2, <1>3, <2>1 DEF Progress
  <2>4. Outcome(c)' BY <1>2, <1>3, <2>1, <2>2, SameSubmission DEF Outcome, Kept, VerdictOf
  <2>5. Built(c)' BY <1>2, <1>3, <2>1 DEF Built, PackageOf, Config
  <2> QED BY <2>3, <2>4, <2>5
<1> QED BY <1>2, <1>3, <1>4 DEF IInv

LEMMA InitInv == Init => IInv
<1> SUFFICES ASSUME Init PROVE IInv
  OBVIOUS
<1>1. Shapes BY DEF Init, Shapes, Stages
<1>2. ASSUME NEW c \in Calls PROVE Progress(c) /\ Outcome(c) /\ Built(c)
  BY DEF Init, Progress, Outcome, Kept, Built, RowsOf, IsScored
<1> QED BY <1>1, <1>2 DEF IInv, Init

LEMMA NextInv == IInv /\ [Next]_vars => IInv'
<1> SUFFICES ASSUME IInv, [Next]_vars PROVE IInv'
  OBVIOUS
<1>1. ASSUME NEW c \in Calls, ModelFails(c) \/ AgentFails(c) \/ InspectionFails(c) PROVE IInv'
  <2>1. Working(c) /\ pc[c] # "committed"
    BY <1>1 DEF ModelFails, AgentFails, InspectionFails, Working
  <2>2. \E failure \in Failures : Fail(c, failure)
    BY <1>1 DEF ModelFails, AgentFails, InspectionFails, Failures
  <2> QED BY <2>1, <2>2, FailStep
<1>2. ASSUME NEW c \in Calls, Due(c) PROVE IInv'
  BY <1>1, <1>2, ReadSuiteStep, PreparePackageStep, SaveStep, AcknowledgeStep DEF Due
<1>3. ASSUME NEW c \in Calls, Hears(c) PROVE IInv'
  BY <1>1, <1>3, ModelAnswersStep, AgentRepliesStep, InspectedStep DEF Hears
<1>4. CASE Next BY <1>2, <1>3, <1>4, AdmitStep, WorldStep DEF Next
<1>5. CASE UNCHANGED vars BY <1>5, WorldStep
<1> QED BY <1>4, <1>5

\* The invariant that the other results follow from.
THEOREM Inductive == Spec => []IInv
BY InitInv, NextInv, PTL DEF Spec

-----------------------------------------------------------------------------
(* What follows from it *)

\* No workspace is left by a call that is answered (workspace.py: the finally
\* of LocalWorkspaceFactory.create).
THEOREM CleansUp == Spec => []NothingLeftBehind
<1>1. IInv => NothingLeftBehind BY DEF IInv, Outcome, NothingLeftBehind
<1> QED BY Inductive, <1>1, PTL

\* A Submit that shows a score has saved exactly that for the version it read; a
\* call that failed before the database was asked has saved nothing, and so have
\* Run and Test; who is refused although a row was saved is told that saving failed
\* (submit_challenge.py).
THEOREM ShownIsSaved == Spec => []SavedAsShown
<1>1. IInv => SavedAsShown
  <2> SUFFICES ASSUME IInv PROVE SavedAsShown
    OBVIOUS
  <2>1. \A c \in Calls : Kept(c) BY DEF IInv, Outcome
  <2> QED BY <2>1 DEF SavedAsShown, Kept, RowsOf
<1> QED BY Inductive, <1>1, PTL

\* A verdict on a TEXT challenge covers every case of the version it is
\* attributed to, and a saved one the whole hidden suite (execution/text.py).
THEOREM NothingPartial == Spec => []ScoredWhole
<1>1. IInv => ScoredWhole
  <2> SUFFICES ASSUME IInv PROVE ScoredWhole
    OBVIOUS
  <2>1. ASSUME NEW c \in Calls, Evaluated(c) # {}, IsTextCall(c)
        PROVE  /\ Len(heard[c]) = CaseCount(job[c])
               /\ \A e \in Evaluated(c) : e.total = CaseCount(job[c])
    <3>1. TextJob(job[c]) BY <2>1 DEF IsTextCall, TextJob
    <3>2. CASE pc[c] \in {"saving", "committed"}
      <4>1. PICK x : result[c] = {x} /\ VerdictOf(c, x)
        BY <3>2 DEF IInv, Outcome
      <4> QED BY <3>1, <3>2, <4>1 DEF Evaluated, VerdictOf
    <3>3. CASE pc[c] \notin {"saving", "committed"}
      BY <2>1, <3>1, <3>3 DEF Evaluated, IInv, Outcome, VerdictOf
    <3> QED BY <3>2, <3>3
  <2>2. ASSUME NEW row \in saved
        PROVE  LET v == Version[row.version] IN
               row.evaluation.total = IF v.challenge_type = "text" THEN Len(v.hidden)
                                      ELSE Len(v.config.hidden_checks)
    BY DEF IInv, RowRight, Judged, Suite, TextJob
  <2> QED BY <2>1, <2>2 DEF ScoredWhole, CaseCount
<1> QED BY Inductive, <1>1, PTL

\* More cases passed are no lower a percentage.
LEMMA RateMonotone ==
  ASSUME NEW n \in Nat \ {0}, NEW a \in 0..n, NEW b \in 0..n, a <= b
  PROVE  /\ PassRate(a, n) \in Percentages /\ PassRate(b, n) \in Percentages
         /\ PassRate(a, n) <= PassRate(b, n)
<1> DEFINE w == 100 * Scale
<1>1. w \in Nat /\ a \in Nat /\ b \in Nat /\ n \in Nat /\ a <= n /\ b <= n
  BY ScaleAssumption
<1>2. PassRate(a, n) = (a * w) \div n /\ PassRate(b, n) = (b * w) \div n
  <2>1. \A x \in Nat : x * 100 * Scale = x * w BY ScaleAssumption
  <2> QED BY <1>1, <2>1 DEF PassRate
<1> HIDE DEF w
<1>3. a * w \in Nat /\ b * w \in Nat /\ n * w \in Nat BY <1>1, TimesNat
<1>4. a * w <= b * w /\ a * w <= n * w /\ b * w <= n * w BY <1>1, TimesMonotone
<1>5. (n * w) \div n = w BY <1>1
<1>6. /\ (a * w) \div n \in Nat /\ (b * w) \div n \in Nat
      /\ (a * w) \div n <= (b * w) \div n /\ (a * w) \div n <= w /\ (b * w) \div n <= w
  BY <1>1, <1>3, <1>4, <1>5, DivMonotone, DivNat
<1> QED BY <1>1, <1>2, <1>6 DEF Percentages, w

\* Of two saved submissions to a version, the one that passed as much with as
\* short a prompt has at least the other's score and stars
\* (submit_challenge.py, ScoringService.calculate).
THEOREM BetterSavedScoresNoLess == Spec => []BetterNeverScoresLess
<1>1. IInv => BetterNeverScoresLess
  <2> SUFFICES ASSUME IInv, NEW a \in saved, NEW b \in saved, a.version = b.version,
                      a.evaluation.passed >= b.evaluation.passed,
                      a.evaluation.score.prompt_tokens <= b.evaluation.score.prompt_tokens
               PROVE  /\ a.evaluation.score.final_score >= b.evaluation.score.final_score
                      /\ a.evaluation.score.stars >= b.evaluation.score.stars
    BY DEF BetterNeverScoresLess
  <2> DEFINE J(p, v) == [use |-> "submit", prompt |-> p, version |-> v]
  <2>1. PICK p \in Prompts : JobRight(J(p, a.version)) /\ Judged(J(p, a.version), a.evaluation)
    BY DEF IInv, RowRight
  <2>2. PICK q \in Prompts : JobRight(J(q, b.version)) /\ Judged(J(q, b.version), b.evaluation)
    BY DEF IInv, RowRight
  <2> DEFINE c == Version[a.version].scoring
             n == a.evaluation.total
             t == Count[q]
             u == Count[p]
             x == b.evaluation.passed
             y == a.evaluation.passed
  <2>3. Suite(J(p, a.version)) = Suite(J(q, b.version)) BY DEF Suite, TextJob
  <2>4. /\ n \in Nat \ {0} /\ y \in 0..n /\ x \in 0..n
        /\ a.evaluation.score = Score(u, PassRate(y, n), c)
        /\ b.evaluation.score = Score(t, PassRate(x, n), c)
    BY <2>1, <2>2, <2>3 DEF Judged
  <2>5. ValidScoring(c) BY <2>1 DEF JobRight, ValidVersion
  <2>6. t \in Tokens /\ u \in Tokens BY PromptsAssumption DEF Tokens
  <2> HIDE DEF c, n, t, u, x, y
  <2>7. u <= t
    <3>1. \A k, r : Score(k, r, c).prompt_tokens = k BY DEF Score
    <3> QED BY <2>4, <3>1
  <2>8. x <= y BY DEF x, y
  <2>9. /\ PassRate(x, n) \in Percentages /\ PassRate(y, n) \in Percentages
        /\ PassRate(x, n) <= PassRate(y, n)
    BY <2>4, <2>8, RateMonotone
  <2>10. /\ Score(t, PassRate(x, n), c).final_score <= Score(u, PassRate(y, n), c).final_score
         /\ Score(t, PassRate(x, n), c).stars <= Score(u, PassRate(y, n), c).stars
    BY <2>5, <2>6, <2>7, <2>9, BetterScoresNoLess
  <2> QED BY <2>4, <2>10
<1> QED BY Inductive, <1>1, PTL

\* Edits that are accepted are to different files that may be edited.
LEMMA AcceptedEdits ==
  ASSUME NEW reply \in Replies, NEW originals, NEW limits, limits.max_files \in Nat,
         ParseEdits(reply, originals, limits) = "accepted"
  PROVE  \A i \in DOMAIN reply.files :
           /\ reply.files[i].path \in DOMAIN originals
           /\ ~\E j \in 1..(i - 1) : reply.files[j].path = reply.files[i].path
<1> DEFINE files == reply.files
           R == Range(files)
           Trouble(i) == EditTrouble(files, i, originals, limits)
           troubled == {i \in DOMAIN files : Trouble(i) # "none"}
           first == CHOOSE i \in troubled : \A j \in troubled : i <= j
           untroubled == IF \A i \in DOMAIN files : originals[files[i].path] = files[i].content
                         THEN "no_changes" ELSE "accepted"
<1>1. \A i : Trouble(i) \in {"malformed", "unsafe_path", "forbidden_file", "duplicate_file",
                            "file_too_large", "none"}
  BY DEF EditTrouble
<1>2. \A i : Trouble(i) = "none" =>
         /\ files[i].path \in DOMAIN originals
         /\ ~\E j \in 1..(i - 1) : files[j].path = files[i].path
  BY DEF EditTrouble
<1>3. files \in Seq(R) BY RepliesAssumption
<1>4. Len(files) = 0 => files = <<>>
  <2> HIDE DEF files, R
  <2> QED BY <1>3
<1>5. \/ ~reply.object \/ files = <<>> \/ Len(files) > limits.max_files
      \/ reply.object /\ Len(files) \in 1..limits.max_files
  <2> HIDE DEF files, R
  <2> QED BY <1>3, <1>4
<1>6. "accepted" \in {"malformed", "no_changes", "too_many_files",
                      IF troubled # {} THEN Trouble(first) ELSE untroubled}
  BY <1>5 DEF ParseEdits
<1>7. Trouble(first) # "accepted" BY <1>1
<1>8. troubled = {}
  <2> HIDE DEF troubled, first, untroubled, Trouble
  <2> QED BY <1>6, <1>7
<1> QED BY <1>2, <1>8

\* What is built is the starter with every accepted edit and no other change
\* (edits.py: parse_agent_edits, workspace.py: LocalWorkspace).
THEOREM BuiltFromStarter == Spec => []EvaluatedWhole
<1>1. IInv => EvaluatedWhole
  <2> SUFFICES ASSUME IInv, NEW c \in Calls, pc[c] = "inspect"
               PROVE  LET starter == PackageOf(job[c]).starter
                          edits == Head(heard[c]).files
                          For(f) == {i \in DOMAIN edits : edits[i].path = f}
                      IN /\ DOMAIN workspace[c] = DOMAIN starter
                         /\ \A f \in DOMAIN starter :
                              IF f \in Range(Config(job[c]).editable_files) /\ For(f) # {}
                              THEN \A i \in For(f) : workspace[c][f] = edits[i].content
                              ELSE workspace[c][f] = starter[f]
    BY DEF EvaluatedWhole
  <2> DEFINE starter == PackageOf(job[c]).starter
             originals == Originals(job[c], starter)
             limits == Config(job[c]).limits
  <2>1. PICK reply \in Replies :
          /\ heard[c] = <<reply>>
          /\ ParseEdits(reply, originals, limits) = "accepted"
          /\ workspace[c] = Overlay(starter, reply.files)
    BY DEF IInv, Built
  <2> DEFINE files == reply.files
             R == Range(files)
             For(f) == {i \in DOMAIN files : files[i].path = f}
  <2>2. Head(heard[c]).files = files BY <2>1
  <2>3. JobRight(job[c]) /\ ~TextJob(job[c]) BY DEF IInv, Progress
  <2>4. ValidLimits(limits)
    BY <2>3 DEF JobRight, TextJob, ValidVersion, ValidConfig, Config
  <2>5. limits.max_files \in Nat
    <3>1. DOMAIN SizeBounds = {"max_file_bytes", "max_files", "max_log_chars"}
          /\ SizeBounds["max_files"] = 8
      BY DEF SizeBounds
    <3>2. limits["max_files"] \in 1..8 BY <2>4, <3>1 DEF ValidLimits
    <3> QED BY <3>2
  <2>6. \A i \in DOMAIN files :
          /\ files[i].path \in DOMAIN originals
          /\ ~\E j \in 1..(i - 1) : files[j].path = files[i].path
    BY <2>1, <2>5, AcceptedEdits
  <2>7. DOMAIN originals = Range(Config(job[c]).editable_files) BY DEF Originals
  <2>8. \A i, j \in DOMAIN files : files[i].path = files[j].path => i = j
    <3>1. files \in Seq(R) BY RepliesAssumption
    <3> HIDE DEF R, originals
    <3>2. DOMAIN files = 1..Len(files) /\ Len(files) \in Nat BY <3>1
    <3>3. \A i, j \in 1..Len(files) : i < j => j - 1 \in Int /\ i \in 1..(j - 1) BY <3>2
    <3>4. \A i, j \in 1..Len(files) : i < j \/ j < i \/ i = j BY <3>2
    <3> HIDE DEF files
    <3> QED BY <2>6, <3>2, <3>3, <3>4
  <2>9. workspace[c] = [f \in DOMAIN starter |->
                          IF For(f) # {} THEN files[CHOOSE i \in DOMAIN files : files[i].path = f].content
                          ELSE starter[f]]
    BY <2>1 DEF Overlay
  <2> HIDE DEF starter, originals, files
  <2>10. ASSUME NEW f \in DOMAIN starter
         PROVE  IF f \in Range(Config(job[c]).editable_files) /\ For(f) # {}
                THEN \A i \in For(f) : workspace[c][f] = files[i].content
                ELSE workspace[c][f] = starter[f]
    <3>1. CASE For(f) = {} BY <2>9, <3>1
    <3>2. ASSUME NEW i \in For(f) PROVE workspace[c][f] = files[i].content
      <4>1. (CHOOSE k \in DOMAIN files : files[k].path = f) = i BY <2>8
      <4>2. For(f) # {} BY <3>2
      <4> QED BY <2>9, <4>1, <4>2
    <3>3. For(f) # {} => f \in Range(Config(job[c]).editable_files) BY <2>6, <2>7
    <3> QED BY <3>1, <3>2, <3>3
  <2>11. DOMAIN workspace[c] = DOMAIN starter BY <2>9
  <2> QED BY <2>2, <2>10, <2>11 DEF starter
<1> QED BY Inductive, <1>1, PTL

\* What an attempt builds differs from the starter in files its version lets the
\* player edit only, and has every file that the package protects as the package
\* has it (checks.py: protected_files_unchanged never fails for the agent's edits).
ProtectedUntouched ==
  \A c \in Calls : pc[c] = "inspect" =>
    LET package == PackageOf(job[c])
    IN /\ ModifiedPaths(workspace[c], package.starter) \subseteq Range(Config(job[c]).editable_files)
       /\ \A f \in package.protected_paths :
            f \in DOMAIN workspace[c] /\ workspace[c][f] = package.starter[f]

THEOREM ProtectedStays == Spec => []ProtectedUntouched
<1>1. IInv /\ EvaluatedWhole => ProtectedUntouched
  <2> SUFFICES ASSUME IInv, EvaluatedWhole, NEW c \in Calls, pc[c] = "inspect"
               PROVE  /\ ModifiedPaths(workspace[c], PackageOf(job[c]).starter)
                           \subseteq Range(Config(job[c]).editable_files)
                      /\ \A f \in PackageOf(job[c]).protected_paths :
                           /\ f \in DOMAIN workspace[c]
                           /\ workspace[c][f] = PackageOf(job[c]).starter[f]
    BY DEF ProtectedUntouched
  <2> DEFINE package == PackageOf(job[c])
             starter == package.starter
             editable == Range(Config(job[c]).editable_files)
  <2>1. /\ DOMAIN workspace[c] = DOMAIN starter
        /\ \A f \in DOMAIN starter : f \notin editable => workspace[c][f] = starter[f]
    BY DEF EvaluatedWhole
  <2>2. editable \cap package.protected_paths = {} /\ package.protected_paths \subseteq DOMAIN starter
    <3>1. Usable(Packages[release], Config(job[c]))
      BY DEF IInv, Built
    <3>2. /\ Accepts(package, Config(job[c]))
          /\ Loads(package, Config(job[c]).starter_project)
      BY <3>1 DEF Usable, PackageOf
    <3> HIDE DEF package
    <3>3. editable \cap package.protected_paths = {}
      BY <3>2 DEF Accepts, FilesWithinPackage
    <3> QED BY <3>2, <3>3 DEF Loads
  <2> HIDE DEF package, editable
  <2>3. ModifiedPaths(workspace[c], starter) \subseteq editable
    BY <2>1 DEF ModifiedPaths
  <2>4. \A f \in package.protected_paths : f \in DOMAIN workspace[c] /\ workspace[c][f] = starter[f]
    BY <2>1, <2>2
  <2> QED BY <2>3, <2>4 DEF package, editable
<1> QED
  BY <1>1, Inductive, BuiltFromStarter, PTL

-----------------------------------------------------------------------------
(* Nothing passes unbuilt *)

LEMMA OnceKeeps ==
  ASSUME NEW R, NEW ids \in Seq(R), NEW id \in R
  PROVE  Once(ids, id) \in Seq(R)
  BY DEF Once

\* The union of two selections holds nothing that is in neither.
LEMMA UnionType ==
  ASSUME NEW R, NEW first \in Seq(R), NEW more \in Seq(R)
  PROVE  Union(first, more) \in Seq(R)
<1> DEFINE n == Len(more)
           D == 1..n
           V == Seq(R)
           P == [s \in SUBSET D |-> Max(s)]
           F == [s \in SUBSET D |-> [ids \in V |-> IF s = {} THEN first ELSE Once(ids, more[Max(s)])]]
           Iterates(g) == g = [s \in SUBSET D |->
                                 IF s = {} THEN first ELSE Once(g[s \ {Max(s)}], more[Max(s)])]
<1>1. n \in Nat /\ DOMAIN more = D /\ \A i \in D : more[i] \in R
  OBVIOUS
<1>2. \A s \in SUBSET D : s # {} => Max(s) \in s
  <2> SUFFICES ASSUME NEW s \in SUBSET D, s # {} PROVE Max(s) \in s
    OBVIOUS
  <2>1. s \subseteq 0..n
    OBVIOUS
  <2> HIDE DEF n, D
  <2> QED BY <1>1, <2>1, GreatestIsMax
<1>3. IsFiniteSet(D)
  BY <1>1, FS_Interval
<1>4. F \in [SUBSET D -> [V -> V]]
  <2>1. ASSUME NEW s \in SUBSET D
        PROVE  [ids \in V |-> IF s = {} THEN first ELSE Once(ids, more[Max(s)])] \in [V -> V]
    <3>1. s # {} => more[Max(s)] \in R
      BY <1>1, <1>2
    <3>2. \A ids \in V : s # {} => Once(ids, more[Max(s)]) \in V
      BY <3>1, OnceKeeps
    <3> QED BY <3>2
  <2> QED BY <2>1
<1>5. \E g : Iterates(g)
  <2>1. \A s \in SUBSET D : s # {} => P[s] = Max(s) /\ P[s] \in s
    BY <1>2
  <2>2. PICK h \in [SUBSET D -> V] : Folds(h, F, P, first, D)
    <3>1. first \in V
      OBVIOUS
    <3> HIDE DEF P, F, V, D
    <3> QED BY <1>3, <1>4, <2>1, <3>1, FoldExists
  <2>3. ASSUME NEW s \in SUBSET D
        PROVE  h[s] = IF s = {} THEN first ELSE Once(h[s \ {Max(s)}], more[Max(s)])
    <3>1. h[s] = IF s = {} THEN first ELSE F[s][h[s \ {P[s]}]]
      BY <2>2 DEF Folds
    <3>2. s # {} => h[s \ {Max(s)}] \in V
      OBVIOUS
    <3> HIDE DEF V
    <3> QED BY <2>1, <3>1, <3>2
  <2>4. h = [s \in SUBSET D |-> h[s]]
    OBVIOUS
  <2>5. Iterates(h)
    <3> HIDE DEF D, V, F, P
    <3> QED BY <2>3, <2>4
  <2> HIDE DEF Iterates
  <2> QED BY <2>5
<1> DEFINE g == CHOOSE g : Iterates(g)
<1>6. Union(first, more) = g[D]
  <2>1. Union(first, more) =
          (CHOOSE g1 : g1 = [s \in SUBSET DOMAIN more |->
                               IF s = {} THEN first
                               ELSE Once(g1[s \ {Max(s)}], more[Max(s)])])[DOMAIN more]
    BY DEF Union, FoldLeft, MapThenFoldSet
  <2> QED BY <1>1, <2>1
<1>7. Iterates(g)
  <2> HIDE DEF Iterates
  <2> QED BY <1>5
<1> HIDE DEF g
<1>8. g[{}] = first /\ \A s \in SUBSET D : s # {} => g[s] = Once(g[s \ {Max(s)}], more[Max(s)])
  BY <1>7
<1> DEFINE G == {s \in SUBSET D : g[s] \in V}
<1>9. {} \in G
  BY <1>8
<1>10. ASSUME NEW s \in SUBSET D, s # {}, \A x \in s : s \ {x} \in G
       PROVE  s \in G
  <2>1. g[s] = Once(g[s \ {Max(s)}], more[Max(s)]) /\ Max(s) \in s
    BY <1>2, <1>8, <1>10
  <2>2. g[s \ {Max(s)}] \in V /\ more[Max(s)] \in R
    BY <1>1, <1>10, <2>1
  <2> QED BY <2>1, <2>2, OnceKeeps
<1>11. D \in G
  <2> HIDE DEF G, D
  <2> QED BY <1>3, <1>9, <1>10, AllSubsets
<1> QED
  BY <1>6, <1>11

\* The checks of a call are checks of its package, as the registry demands them.
LEMMA SelectedAreValid ==
  ASSUME NEW j, JobRight(j), ~TextJob(j), release \in Releases,
         Usable(Packages[release], Config(j)), NEW i \in DOMAIN ChecksOf(j)
  PROVE  /\ ValidCheck(ChecksOf(j)[i])
         /\ ChecksOf(j)[i].parameters.viewports
              \in Seq(Range(ChecksOf(j)[i].parameters.viewports))
<1> DEFINE c == Config(j)
           package == PackageOf(j)
           visible == c.visible_checks
           hidden == c.hidden_checks
           R == Range(visible) \cup Range(hidden)
           ids == CASE j.use = "run" -> visible
                    [] j.use = "submit" -> hidden
                    [] j.use = "test" -> Union(visible, hidden)
<1>1. ChecksOf(j) = [k \in DOMAIN ids |-> ById(package.checks, ids[k])]
  BY DEF ChecksOf, SelectedChecks
<1>2. visible \in Seq(Range(visible)) /\ hidden \in Seq(Range(hidden))
  BY DEF JobRight, TextJob, ValidVersion, ValidConfig, Unique, Config
<1>3. visible \in Seq(R) /\ hidden \in Seq(R)
  <2> DEFINE A == Range(visible)
             B == Range(hidden)
  <2>1. \A X, Y : Seq(X) \subseteq Seq(X \cup Y) /\ Seq(Y) \subseteq Seq(X \cup Y)
    OBVIOUS
  <2> HIDE DEF A, B, visible, hidden
  <2> QED BY <1>2, <2>1
<1>4. ids \in Seq(R)
  <2>1. j.use \in {"run", "submit", "test"}
    BY DEF JobRight, Uses
  <2>2. Union(visible, hidden) \in Seq(R)
    <3> HIDE DEF R, visible, hidden
    <3> QED BY <1>3, UnionType
  <2> HIDE DEF R, visible, hidden
  <2> QED BY <1>3, <2>1, <2>2
<1>5. ids[i] \in R
  <2>1. i \in DOMAIN ids
    BY <1>1
  <2> HIDE DEF ids, R
  <2> QED BY <1>4, <2>1
<1>6. /\ c.starter_project \in DOMAIN Packages[release]
      /\ ids[i] \in IdsOf(package.checks) /\ ValidCheck(ById(package.checks, ids[i]))
  <2> HIDE DEF ids
  <2> QED BY <1>5 DEF Usable, Accepts, ChecksWithinPackage, PackageOf
<1> DEFINE check == ById(package.checks, ids[i])
<1>7. check \in Range(package.checks)
  <2> HIDE DEF ids, package
  <2>1. \E x \in Range(package.checks) : x.id = ids[i]
    BY <1>6 DEF IdsOf, Range
  <2> QED BY <2>1 DEF ById
<1>8. check.parameters.viewports \in Seq(Range(check.parameters.viewports))
  <2> HIDE DEF check
  <2> QED BY <1>6, <1>7, ViewportsAssumption DEF PackageOf
<1>9. ChecksOf(j)[i] = check
  <2> HIDE DEF ids
  <2> QED BY <1>1
<1> QED
  BY <1>6, <1>8, <1>9

\* Without a build there is nothing that a check of the page could measure.
LEMMA UnbuiltFails ==
  ASSUME NEW check, ValidCheck(check),
         check.parameters.viewports \in Seq(Range(check.parameters.viewports)),
         NEW j, NEW tree, PassesCheck(check, Facts(j, tree, FALSE))
  PROVE  check.implementation \in {"protected_files_unchanged", "protected_markup_unchanged"}
<1> DEFINE facts == Facts(j, tree, FALSE)
           kind == check.implementation
           views == check.parameters.viewports
<1>1. ~facts.build_succeeded /\ facts.layouts = <<>> /\ facts.behavior_results = <<>>
  BY DEF Facts
<1>2. DOMAIN <<>> = {}
  OBVIOUS
<1> HIDE DEF facts
<1>3. kind \in Implementations /\ (kind \notin NonBrowserChecks => views # <<>>)
  BY DEF ValidCheck
<1>4. ASSUME kind \in LayoutChecks, LayoutCheck(kind, facts, check.parameters)
      PROVE  FALSE
  <2>1. views # <<>>
    BY <1>3, <1>4 DEF LayoutChecks, NonBrowserChecks
  <2>2. 1 \in DOMAIN views
    <3> DEFINE S == Range(views)
    <3>1. views \in Seq(S)
      OBVIOUS
    <3> HIDE DEF S, views
    <3> QED BY <2>1, <3>1
  <2>3. views[1] \in DOMAIN facts.layouts
    BY <1>4, <2>2 DEF LayoutCheck
  <2> QED BY <1>1, <1>2, <2>3
<1>5. PassesCheck(check, facts)
  BY DEF facts
<1>6. CASE kind = "build_succeeds"
  <2>1. PassesCheck(check, facts) = facts.build_succeeded
    BY <1>6 DEF PassesCheck, LayoutChecks
  <2> QED BY <1>1, <1>5, <2>1
<1>7. CASE kind = "interaction"
  <2>1. PassesCheck(check, facts) =
          (check.id \in DOMAIN facts.behavior_results /\ facts.behavior_results[check.id])
    BY <1>7 DEF PassesCheck, LayoutChecks
  <2> QED BY <1>1, <1>2, <1>5, <2>1
<1>8. CASE kind \in LayoutChecks
  <2>1. LayoutCheck(kind, facts, check.parameters)
    BY <1>5, <1>8 DEF PassesCheck, LayoutChecks
  <2> QED BY <1>4, <1>8, <2>1
<1> QED
  BY <1>3, <1>6, <1>7, <1>8 DEF Implementations, NonBrowserChecks

\* A page that did not build passes no check that measures it, in every release
\* and for every package that is accepted (checks.py: ApplicationCheckRegistry).
THEOREM UnbuiltPassesNothing == Spec => NothingPassesUnbuilt
<1> DEFINE Sound(c) == pc[c] = "inspect" =>
             \A e \in Evaluated(c)' : e.build # "passed" =>
               \A i \in DOMAIN e.passes : e.passes[i] =>
                 ChecksOf(job[c])[i].implementation \in
                   {"protected_files_unchanged", "protected_markup_unchanged"}
<1>1. ASSUME IInv, [Next]_vars, NEW c \in Calls
      PROVE  Sound(c)
  <2> SUFFICES ASSUME pc[c] = "inspect", NEW e \in Evaluated(c)', e.build # "passed",
                      NEW i \in DOMAIN e.passes, e.passes[i]
               PROVE  ChecksOf(job[c])[i].implementation \in
                        {"protected_files_unchanged", "protected_markup_unchanged"}
    OBVIOUS
  <2>1. /\ Shapes /\ answer[c] = None /\ JobRight(job[c]) /\ ~TextJob(job[c])
        /\ Usable(Packages[release], Config(job[c]))
    <3>1. Shapes /\ Progress(c) /\ Outcome(c) /\ Built(c)
      BY <1>1 DEF IInv
    <3>2. JobRight(job[c]) /\ ~TextJob(job[c])
      BY <3>1 DEF Progress
    <3>3. Usable(Packages[release], Config(job[c]))
      BY <3>1 DEF Built
    <3> QED BY <3>1, <3>2, <3>3 DEF Outcome
  <2>2. PICK built \in BOOLEAN : Inspected(c, built)
    <3>1. (pc'[c] \notin {"saving", "committed"} /\ ~IsScored(answer'[c])) \/ \E built \in BOOLEAN : Inspected(c, built)
      <4>1. CASE Next
        <5>1. ASSUME NEW d \in Calls, d # c, Due(d) \/ Hears(d)
              PROVE  pc'[c] = pc[c] /\ answer'[c] = answer[c]
          BY <2>1, <5>1 DEF Due, Hears, ReadSuite, PreparePackage, Save, Acknowledge, ModelFails, AgentFails,
             InspectionFails, ModelAnswers, AgentReplies, Inspected, Fail, Conclude, Show, Shapes
        <5>2. ASSUME Due(c) \/ Hears(c)
              PROVE  InspectionFails(c) \/ \E built \in BOOLEAN : Inspected(c, built)
          BY <5>2 DEF Due, Hears, ReadSuite, PreparePackage, Save, Acknowledge, ModelFails, AgentFails,
             ModelAnswers, AgentReplies
        <5>3. ASSUME InspectionFails(c)
              PROVE  pc'[c] \notin {"saving", "committed"} /\ ~IsScored(answer'[c])
          <6>1. "application_environment_unavailable" \in Failures
            BY DEF Failures
          <6>2. pc'[c] = "answered" /\ answer'[c] = Failed("application_environment_unavailable")
            BY <2>1, <5>3 DEF InspectionFails, Fail, Shapes
          <6> QED BY <6>1, <6>2, Refused
        <5>4. ASSUME NEW d \in Calls, NEW v \in DOMAIN Version, NEW request \in Wants[d],
                     Admit(d, request, v)
              PROVE  pc'[c] = pc[c] /\ answer'[c] = answer[c]
          BY <2>1, <5>4 DEF Admit, Shapes
        <5>5. ASSUME \/ \E ch \in Challenges : \E v \in VersionsOf[ch] : Publish(ch, v)
                     \/ \E r \in Releases : Restart(r)
              PROVE  pc'[c] \in {pc[c], "killed"} /\ answer'[c] = answer[c]
          BY <5>5 DEF Publish, Restart, caller
        <5> QED
          BY <2>1, <4>1, <5>1, <5>2, <5>3, <5>4, <5>5 DEF Next, IsScored
      <4>2. CASE UNCHANGED vars
        BY <2>1, <4>2 DEF vars, caller, IsScored
      <4> QED BY <1>1, <4>1, <4>2
    <3>2. pc'[c] \in {"saving", "committed"} \/ IsScored(answer'[c])
      BY DEF Evaluated
    <3> QED BY <3>1, <3>2
  <2> DEFINE results == EvaluateChecks(ChecksOf(job[c]), Facts(job[c], workspace[c], built))
  <2>3. e = InspectionOf(job[c], workspace[c], built)
    <3>1. \/ pc'[c] = "saving" /\ result'[c] = {InspectionOf(job[c], workspace[c], built)}
          \/ pc'[c] = "answered" /\ answer'[c] = Scored(InspectionOf(job[c], workspace[c], built))
      BY <2>1, <2>2 DEF Inspected, Conclude, Show, Shapes
    <3> QED BY <3>1 DEF Evaluated, Scored, IsScored
  <2>4. e.build = (IF built THEN "passed" ELSE "failed")
        /\ e.passes = [k \in DOMAIN results |-> results[k].passed]
    BY <2>3 DEF InspectionOf, Evaluation
  <2>5. built = FALSE
    BY <2>2, <2>4
  <2>6. i \in DOMAIN results /\ results[i].passed
    <3> HIDE DEF results
    <3> QED BY <2>4
  <2>7. i \in DOMAIN ChecksOf(job[c])
        /\ PassesCheck(ChecksOf(job[c])[i], Facts(job[c], workspace[c], FALSE))
    BY <2>5, <2>6 DEF EvaluateChecks
  <2>8. /\ ValidCheck(ChecksOf(job[c])[i])
        /\ ChecksOf(job[c])[i].parameters.viewports
             \in Seq(Range(ChecksOf(job[c])[i].parameters.viewports))
    BY <2>1, <2>7, SelectedAreValid DEF Shapes
  <2> QED
    BY <2>7, <2>8, UnbuiltFails
<1>2. IInv /\ [Next]_vars => [\A c \in Calls : Sound(c)]_vars
  <2> HIDE DEF Sound
  <2> QED BY <1>1
<1> QED
  BY Inductive, <1>2, PTL DEF Spec, NothingPassesUnbuilt
=============================================================================
