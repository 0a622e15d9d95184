\* Up to 5 chunks: one more than one-place channels and two hands hold.
CONSTANTS
  MaxChunks = 5
  PipeCapacity = 1
  StreamCapacity = 1
SPECIFICATION FairSpec
INVARIANT BoundedBuffering
INVARIANT LogIsTruthful
INVARIANT LoggedBeforeFailure
PROPERTY ImplementsDelivery
PROPERTY StreamIsLogged
