CONSTANTS
  Hash = {h1, h2}
  SUPPRESS_MS = 3
  MAX_REPEATS = 1
  MaxMs = 8
  Word = 65536
SPECIFICATION Spec
INVARIANTS TypeOK 
PROPERTY ImplementsCounter
