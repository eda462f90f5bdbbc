CONSTANTS
  Pairs = {a, b}
  Pins = {p1}
  Readers = {r1}
  MAX_GENERATION = 3
  NoPair = NoPair
  Refused = Refused
  Nothing = Nothing
  MaxOverlap = 4
SPECIFICATION SplitSpec
SYMMETRY PairsAlike
INVARIANTS ReferenceBacked
PROPERTIES OvertakenTwice ReadsAtomically
