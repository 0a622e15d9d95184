\* Room for two parts and one byte more than their budget; a range of each kind;
\* two calls, of which one can be claimed and the other dropped.
CONSTANTS
  MaxFile = 2
  StreamCapacity = 1
  TopIndex = 3
  Names <- MCNames
  Routes <- MCRoutes
  Methods <- MCMethods
  Paths <- MCPaths
  MaxBytes = 2
  Allowance = 3
  Lengths <- MCLengths
  BodyLimit = 1
  ReadCap = 1
  MaxParts = 2
  MaxCalls = 2
SPECIFICATION FairSpec
INVARIANT RoutesAreRight
INVARIANT RangesAreExact
INVARIANT UploadsAreWhole
INVARIANT UploadLogIsTruthful
INVARIANT FileLineIsTruthful
INVARIANT FileIsDelivered
INVARIANT DirectoryIsKept
INVARIANT EntriesAreClosed
INVARIANT RequestNeverHangs
PROPERTY RequestEnds
