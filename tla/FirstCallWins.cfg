\* Two calls, one inside the other, are enough.
CONSTANTS
  Kinds = {"route", "not_found", "method_not_allowed"}
  Statuses = {200, 404, 405}
  MaxDepth = 2
  MaxStreams = 1
SPECIFICATION Spec
INVARIANT FirstCallWins
