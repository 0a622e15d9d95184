\* A run that fails after it piped.
CONSTANTS
  r1 = r1
  r2 = r2
  Requests = {r1}
  Slots = 1
  MaxLines = 1

SPECIFICATION Spec

INVARIANT NoHalfOpenEntry

