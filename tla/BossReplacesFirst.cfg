SPECIFICATION Spec
CONSTANTS
  Saves = {s1, s2}
  Readers = {}
  Users = {u1}
  c1 = c1
  Challenges = {c1}
  Scores = {0, 1, 2}
  Verdicts <- SomeVerdicts
  Rewards <- DefaultRewards
  BossReplaces = TRUE
  MaxClock = 0
  None = None
INVARIANTS
  BossReplacesFirst
CHECK_DEADLOCK FALSE
