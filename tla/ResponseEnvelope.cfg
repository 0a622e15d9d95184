\* Three calls in progress at most, two streams.  200 is the status of a
\* file, 404 and 405 those of a fallback.
CONSTANTS
  Kinds = {"route", "not_found", "method_not_allowed"}
  Statuses = {200, 404, 405}
  MaxDepth = 3
  MaxStreams = 2
SPECIFICATION Spec
INVARIANT CommittedIsServed
INVARIANT AnswersAreBacked
INVARIANT OnlyOuterCallsOverwrite
INVARIANT HandlesAreSingleUse
INVARIANT FallbackContract
