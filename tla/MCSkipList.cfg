CONSTANTS
  MaxKey = 4
  MaxHeight = 3
  Readers = {r1}
SPECIFICATION SlSpec
SYMMETRY SlSymmetry
INVARIANTS
  LevelsAreChains
  NoWildLoad
PROPERTIES
  ImplementsOrderedSet
