----------------------------- MODULE MCCatalog -----------------------------
EXTENDS Catalog, TLC

CONSTANTS hero, grid,         \* challenges: one of the seed script, one of the builder's
          full, rich, bare,   \* contents, all but bare complete
          first, second,      \* slots, the first on track "control"
          a1, a2,             \* admin requests
          p1,                 \* a player
          beta                \* a version id

MCSeedContent == [c \in Seeded |-> full]

MCSeedSlot == [c \in Seeded |-> first]

Symmetry == Permutations(Admins)
=============================================================================
