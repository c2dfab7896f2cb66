SPECIFICATION Spec
CONSTANTS
  Calls = {p1, p2, p3}
  Users = {u1}
  Versions = {v1}
  Keys = {k1}
  Results = {x1, x2}
  Ids = {i1, i2, i3, i4}
  RunCooldown = 1
  SubmitCooldown = 1
  StaleAfter = 2
  Horizon = 2
  MaxFaults = 1
  None = None
  Patient = p1
SYMMETRY Symmetry
INVARIANTS
  OneInFlight
