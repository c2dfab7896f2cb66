SPECIFICATION FairSpec
CONSTANTS
  Requests = {r1, r2}
  Players = {her, his}
  her = her
  his = his
  Emails = {home}
  home = home
  Keys = {old, new}
  old = old
  new = new
  Tokens <- SomeTokens
  Ttl = 1
  Horizon = 2
  None = None
CHECK_DEADLOCK FALSE
INVARIANTS OneAccount
PROPERTIES WithdrawnKeyBounded ListedKeyIsKnown CacheNeverGoesBack EveryRequestEnds
