SPECIFICATION FairSpec
CONSTANTS
  Invocations = {i1, i2}
  Limit = 2
CHECK_DEADLOCK FALSE
INVARIANTS ResultIsWhole
PROPERTIES KeepsPromise EveryInvocationReturns
