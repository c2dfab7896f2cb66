SPECIFICATION MCSpec
CONSTANTS
  Saves = {1, 2, 3}
  Readers = {r1}
  Users = {u1}
  c1 = c1
  Challenges = {c1, c2}
  Scores = {0, 1, 2}
  Verdicts <- SomeVerdicts
  Rewards <- DefaultRewards
  BossReplaces = TRUE
  MaxClock = 1
  None = None
INVARIANTS
  LedgerMatchesProgress
  ProgressMatchesSubmissions
  SummaryNeverUnderstates
PROPERTIES
  ProgressNeverLost
  TotalAtCommit
  SavesAreSerial
  SavesEnd
CHECK_DEADLOCK FALSE
