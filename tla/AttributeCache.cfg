\* Two devices in turn, two attributes, a minute of three seconds and ages on both sides of it.
SPECIFICATION Spec
CONSTANTS
  d1 = d1  d2 = d2  a1 = a1  a2 = a2  None = None
  Device <- TwoDevices
  Attribute <- TwoAttributes
  Minute <- ShortMinute
  MaxAges <- ShortAndLongAges
  MaxTime = 5
INVARIANTS TypeOK FreshOrExcused CacheOfThisDevice
SYMMETRY Symmetry
