---------------------------- MODULE MCProgression ----------------------------
(* Instances of Progression for TLC. *)
EXTENDS Progression, TLC

\* Stars and scores need not agree: thresholds change between versions.
SomeVerdicts ==
  {[score |-> 0, stars |-> 0, difficulty |-> "other"],
   [score |-> 2, stars |-> 1, difficulty |-> "other"],
   [score |-> 1, stars |-> 3, difficulty |-> "boss"]}

\* The defaults of XPRewardConfiguration, in units of 25 XP.
DefaultRewards ==
  [r \in Reasons |-> CASE r = "first_completion" -> 4 [] r = "two_star" -> 1
                       [] r = "three_star" -> 2 [] r = "boss_completion" -> 10]

CONSTANT c1   \* one of the challenges

\* Saves are numbered in the order of their creation and the first is of
\* challenge c1: any behaviour is such a one, renamed.
Numbered ==
  /\ \A s, t \in Saves : s < t /\ pc[t] # "new" => pc[s] # "new"
  /\ \A s \in Saves : s = 1 /\ job[s] # None => job[s].challenge = c1

MCSpec ==
  Init /\ [][Next /\ Numbered']_vars /\ \A s \in Saves : WF_vars(Step(s))
=============================================================================
