SPECIFICATION RetrySpec
CONSTANTS
  Calls = {p1, p2}
  Users = {u1}
  Versions = {v1, v2}
  Keys = {k1}
  Results = {x1}
  Ids = {i1, i2, i3, i4}
  RunCooldown = 1
  SubmitCooldown = 2
  StaleAfter = 1
  Horizon = 2
  MaxFaults = 1
  None = None
  Patient = p1
PROPERTIES
  
  RetryCompletes
