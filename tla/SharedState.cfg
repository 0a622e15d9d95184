\* At most two entries, and not two large ones; TTLs of 1 and 2 ticks are
\* valid, 0 is not.
CONSTANTS
  k1 = k1
  k2 = k2
  k3 = k3
  kLong = kLong
  small = small
  large = large
  huge = huge
  Keys = {k1, k2, k3, kLong}
  KeyBytes <- MCKeyBytes
  Values = {small, large, huge}
  ValueBytes <- MCValueBytes
  Ttls = {0, 1, 2}
  MaxKeyBytes = 2
  MaxValueBytes = 4
  MaxTotalBytes = 7
  MaxEntries = 2
  MaxTtl = 2
  NoTtl = NoTtl
  NoValue = NoValue
  Never = Never
  MaxTime = 2

SPECIFICATION Spec

SYMMETRY Symmetry

INVARIANT Accounting
PROPERTY ImplementsLiveStore
