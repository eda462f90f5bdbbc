CONSTANTS
  Pairs = {a, b}
  Pins = {p1}
  Readers = {r1}
  MAX_GENERATION = 3
  NoPair = NoPair
  Refused = Refused
  Nothing = Nothing
  MaxOverlap = 4
SPECIFICATION NumbersSpec
INVARIANT NumberNeverReused
