SPECIFICATION Spec
CONSTANTS
  hero = hero
  grid = grid
  full = full
  rich = rich
  bare = bare
  first = first
  second = second
  a1 = a1
  a2 = a2
  p1 = p1
  beta = beta
  None = None
  Challenges = {hero}
  Seeded = {hero}
  SeedContent <- MCSeedContent
  SeedSlot <- MCSeedSlot
  Labels = {}
  MaxVersion = 2
  Slots = {first}
  ControlSlots = {first}
  Contents = {full}
  Complete = {full}
  Admins = {a1}
  Players = {}
INVARIANTS OnlyPointedPublished
