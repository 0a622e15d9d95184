\* Two requests compete for one slot.
CONSTANTS
  r1 = r1
  r2 = r2
  Requests = {r1, r2}
  Slots = 1
  MaxLines = 1

SPECIFICATION Spec

SYMMETRY Symmetry
INVARIANT WorkersUnderPermits
PROPERTY FailuresAreTruthful

