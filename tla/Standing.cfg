SPECIFICATION MCSpec
CONSTANTS
  Users = {u1, u2}
  Challenges = {c1, c2}
  elsewhere = c2
  MaxVersion = 2
  MaxMerit = 1
  MaxSubmissions = 2
  MaxOrder = 3
  Verdicts <- SomeVerdicts
  Edits = {"release", "withdraw", "move"}
  Plays = {p1}
  Boards = {b1}
  Profiles = {q1}
  Offset = 0
  Limit = 1
  None = None
SYMMETRY Symmetry
INVARIANTS CompletedStaysOpen RankingsAgree OwnEntryNotWorse CalmProfile
PROPERTIES CalmAccess
