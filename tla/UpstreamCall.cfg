\* Two calls of one run, at most one redirect; two hosts are allowed, one is not.
CONSTANTS
  Hosts = {home, mirror, stranger}
  AllowHosts = {home, mirror}
  Statuses = {200, 302, 404}
  MaxRedirects = 1
  ScriptTime = 4
  DefaultTimeout = 5
  Timeouts = {1}
  MarginShare = 2
  MarginCap = 1
  MaxCalls = 2

SPECIFICATION Spec

INVARIANT OnlyAllowedHosts
INVARIANT CallsKeepTheirTime
INVARIANT EntriesAreTruthful
INVARIANT CodesAreTruthful
PROPERTY EntriesAreFinal

\* The run is over and nothing is left to do.
CHECK_DEADLOCK FALSE
