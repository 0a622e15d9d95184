\* One run whose worker writes up to three lines.
CONSTANTS
  r1 = r1
  r2 = r2
  Requests = {r1}
  Slots = 1
  MaxLines = 3

SPECIFICATION FairSpec

INVARIANT ResponseIsComplete
INVARIANT StreamsHaveOneOwner
PROPERTY RunsEnd
PROPERTY NothingLeaks
