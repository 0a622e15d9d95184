\* One request and one signal are enough.
CONSTANTS
  c1 = c1
  c2 = c2
  Connections = {c1}
  MaxRequests = 1
  MaxSignals = 1
SPECIFICATION Spec
INVARIANT EveryAnswerIsLogged
