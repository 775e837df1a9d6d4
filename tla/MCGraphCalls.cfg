CONSTANTS
  Names = {a, b}
  NumChunks = 3
  Begin <- MCBegin
  MaxResumes = 2
SPECIFICATION Spec
INVARIANTS TypeOK SliceInBounds
PROPERTIES Atomic CallDescends CallReturns
