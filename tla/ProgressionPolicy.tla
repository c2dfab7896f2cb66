------------------------- MODULE ProgressionPolicy -------------------------
(***************************************************************************)
(* ProgressionService: what one authoritative verdict does to the player's *)
(* progress on a challenge, and which XP milestones it earns.  Pure        *)
(* functions, shared by the transaction that calls them (Progression) and  *)
(* by the promise that transaction keeps (SerialProgression).              *)
(***************************************************************************)
EXTENDS Naturals

CONSTANTS
  Scores,         \* final scores
  Rewards,        \* XPRewardConfiguration: XP of each milestone
  BossReplaces,   \* boss_replaces_first_completion
  None

Reasons == {"first_completion", "two_star", "three_star", "boss_completion"}

Stars == 0..3

\* The code tells BOSS from every other difficulty.
Difficulties == {"boss", "other"}

ASSUME PolicyAssumption ==
  /\ Scores \subseteq Nat
  /\ Rewards \in [Reasons -> Nat]
  /\ BossReplaces \in BOOLEAN

\* Mutant: bests are added up.
AddedUp(a, b) == a + b

Better(a, b) == IF a >= b THEN a ELSE b

\* Mutant: completion is re-stamped by every passing submission.
UpdateRestamps(id, score, stars, at, old) ==
  IF old = None
  THEN [best |-> id, score |-> score, stars |-> stars, attempts |-> 1,
        completed |-> IF stars >= 1 THEN at ELSE None]
  ELSE [best |-> IF score > old.score THEN id ELSE old.best,
        score |-> Better(old.score, score),
        stars |-> Better(old.stars, stars),
        attempts |-> old.attempts + 1,
        completed |-> IF stars >= 1 THEN at ELSE old.completed]

\* The row after submission id with this verdict; old is None before the first.
UpdateProgress(id, score, stars, at, old) ==
  IF old = None
  THEN [best |-> id, score |-> score, stars |-> stars, attempts |-> 1,
        completed |-> IF stars >= 1 THEN at ELSE None]
  ELSE [best |-> IF score > old.score THEN id ELSE old.best,
        score |-> Better(old.score, score),
        stars |-> Better(old.stars, stars),
        attempts |-> old.attempts + 1,
        completed |-> IF old.completed = None /\ stars >= 1 THEN at ELSE old.completed]

\* A boss challenge pays its own milestone, normally instead of the first one.
CompletionReasons(difficulty) ==
  IF difficulty = "boss"
  THEN {"boss_completion"} \cup (IF BossReplaces THEN {} ELSE {"first_completion"})
  ELSE {"first_completion"}

\* Mutant: a verdict earns the milestones of its own number of stars only.
EarnedExactly(stars, difficulty) ==
  {r \in Reasons :
     /\ Rewards[r] > 0
     /\ \/ stars = 1 /\ r \in CompletionReasons(difficulty)
        \/ stars = 2 /\ r = "two_star"
        \/ stars = 3 /\ r = "three_star"}

\* The milestones a verdict qualifies for; a milestone worth nothing is none.
Earned(stars, difficulty) ==
  {r \in Reasons :
     /\ Rewards[r] > 0
     /\ \/ stars >= 1 /\ r \in CompletionReasons(difficulty)
        \/ stars >= 2 /\ r = "two_star"
        \/ stars >= 3 /\ r = "three_star"}

\* Mutant: what was paid already is not looked at.
NewAwardsAgain(stars, difficulty, awarded) == Earned(stars, difficulty)

NewAwards(stars, difficulty, awarded) == Earned(stars, difficulty) \ awarded
=============================================================================
