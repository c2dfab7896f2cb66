------------------------------ MODULE Scoring ------------------------------
(* How a prompt is scored: domains/scoring.  Percentages are counted in      *)
(* 1/Scale of a percent and weights in parts of Whole; the final score is in *)
(* hundredths of a point, which is what the code's quantum keeps.            *)
EXTENDS Integers, Sequences

CONSTANTS
  Scale,       \* grid of the percentages: accuracy 66.67 is 6667 at Scale 100
  Whole,       \* parts a weight of 1 has
  Tolerance,   \* by how many parts the two weights may miss Whole (1e-9)
  Unlimited    \* no prompt-token limit for the third star

ASSUME ScaleAssumption == Scale \in Nat \ {0}
ASSUME WholeAssumption == Whole \in Nat \ {0}
\* 1e-9 of the whole is far below what could lift 100 points to 100.01.
ASSUME ToleranceAssumption == Tolerance \in Nat /\ 20000 * Tolerance < Whole
ASSUME UnlimitedAssumption == Unlimited \notin Nat

Percentages == 0..(100 * Scale)
Tokens == Nat

---------------------------------------------------------------------------
(* What configuration.py accepts. *)

EfficiencyTier == [max_tokens : Nat, score : Percentages]

\* Ceilings strictly increase, scores never do, and what is above the last
\* ceiling scores no more than the last tier.
ValidEfficiency(e) ==
  /\ e.tiers \in Seq(EfficiencyTier) /\ e.tiers # <<>>
  /\ e.score_above_max \in Percentages
  /\ \A i, j \in 1..Len(e.tiers) : i < j =>
       /\ e.tiers[i].max_tokens < e.tiers[j].max_tokens
       /\ e.tiers[i].score >= e.tiers[j].score
  /\ e.score_above_max <= e.tiers[Len(e.tiers)].score

ValidStars(s) ==
  /\ {s.one_star, s.two_stars, s.three_stars} \subseteq Percentages
  /\ s.one_star <= s.two_stars /\ s.two_stars <= s.three_stars
  /\ s.three_star_max_prompt_tokens \in Tokens \cup {Unlimited}

ValidWeights(c) ==
  /\ c.accuracy_weight \in Nat /\ c.efficiency_weight \in Nat
  /\ c.accuracy_weight + c.efficiency_weight \in (Whole - Tolerance)..(Whole + Tolerance)

ValidScoring(c) ==
  /\ ValidWeights(c)
  /\ ValidEfficiency(c.efficiency_thresholds)
  /\ ValidStars(c.star_thresholds)

---------------------------------------------------------------------------
(* What service.py computes. *)

\* Mutant: the ceiling is compared the wrong way round.
EfficiencyBackwards(tokens, e) ==
  IF \E i \in 1..Len(e.tiers) : tokens >= e.tiers[i].max_tokens
  THEN LET first == CHOOSE i \in 1..Len(e.tiers) :
             /\ tokens >= e.tiers[i].max_tokens
             /\ \A j \in 1..(i - 1) : tokens < e.tiers[j].max_tokens
       IN  e.tiers[first].score
  ELSE e.score_above_max

\* The score of the first tier whose ceiling holds the prompt.
Efficiency(tokens, e) ==
  IF \E i \in 1..Len(e.tiers) : tokens <= e.tiers[i].max_tokens
  THEN LET first == CHOOSE i \in 1..Len(e.tiers) :
             /\ tokens <= e.tiers[i].max_tokens
             /\ \A j \in 1..(i - 1) : tokens > e.tiers[j].max_tokens
       IN  e.tiers[first].score
  ELSE e.score_above_max

Weighted(accuracy, efficiency, c) ==
  accuracy * c.accuracy_weight + efficiency * c.efficiency_weight

\* weighted / (Scale * Whole) points, rounded half up to hundredths.
FinalScore(accuracy, efficiency, c) ==
  (200 * Weighted(accuracy, efficiency, c) + Scale * Whole) \div (2 * Scale * Whole)

\* The third star asks for a short prompt as well; without it there are two.
Stars(accuracy, tokens, s) ==
  LET short == \/ s.three_star_max_prompt_tokens = Unlimited
               \/ tokens <= s.three_star_max_prompt_tokens
  IN IF accuracy >= s.three_stars /\ short THEN 3
     ELSE IF accuracy >= s.two_stars THEN 2
     ELSE IF accuracy >= s.one_star THEN 1
     ELSE 0

\* ScoringService.calculate.
Score(tokens, accuracy, c) ==
  LET efficiency == Efficiency(tokens, c.efficiency_thresholds)
  IN [prompt_tokens |-> tokens,
      accuracy |-> accuracy,
      efficiency |-> efficiency,
      final_score |-> FinalScore(accuracy, efficiency, c),
      stars |-> Stars(accuracy, tokens, c.star_thresholds)]

\* passed / total as a percentage, on the grid.
PassRate(passed, total) == (passed * 100 * Scale) \div total
=============================================================================
