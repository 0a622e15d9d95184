\* Two connections that share two requests; up to two signals.
CONSTANTS
  c1 = c1
  c2 = c2
  Connections = {c1, c2}
  MaxRequests = 2
  MaxSignals = 2
SPECIFICATION FairSpec
INVARIANT CleanExitIsDrained
INVARIANT OneSignalDrains
INVARIANT AnswersAreAccountedFor
INVARIANT RelaysWaitForTheirClient
PROPERTY DrainTakesNoNewRequest
PROPERTY SecondSignalEnds
PROPERTY DrainEnds
