\* One form of one part is enough; nothing of the run matters.
CONSTANTS
  MaxFile = 1
  StreamCapacity = 1
  TopIndex = 1
  Names <- MCNames
  Routes <- MCRoutes
  Methods <- MCMethods
  Paths <- MCPaths
  MaxBytes = 1
  Allowance = 1
  Lengths <- MCLengths
  BodyLimit = 1
  ReadCap = 1
  MaxParts = 1
  MaxCalls = 0
SPECIFICATION Spec
INVARIANT UploadsAreRemoved
