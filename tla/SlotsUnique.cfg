SPECIFICATION Spec
CONSTANTS
  hero = hero
  grid = grid
  full = full
  rich = rich
  bare = bare
  first = first
  second = second
  a1 = a1
  a2 = a2
  p1 = p1
  beta = beta
  None = None
  Challenges = {hero, grid}
  Seeded = {}
  SeedContent <- MCSeedContent
  SeedSlot <- MCSeedSlot
  Labels = {}
  MaxVersion = 1
  Slots = {first, second}
  ControlSlots = {first}
  Contents = {full}
  Complete = {full}
  Admins = {a1, a2}
  Players = {}
INVARIANTS SlotsUnique
