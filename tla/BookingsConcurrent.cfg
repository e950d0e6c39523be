CONSTANTS
  b1 = b1
  b2 = b2
  c1 = c1
  c2 = c2
  c3 = c3
  c4 = c4
  c5 = c5
  NULL = NULL
  Bookings = {b1}
  Providers = {1}
  Calls = {c1, c2, c3, c4}
  MaxInFlight = 2
  ProviderOf <- OneOwner
  Total <- WholeTotal
  Rate <- SeededRate
  BookingSeeds <- AnySeed
  ProviderSeed <- SeededProvider
SPECIFICATION Spec
SYMMETRY CallSymmetry
INVARIANTS
  TypeOK
  TimelineIsTruthful
  CountersAgree
  NeverOvercounted
PROPERTY LifecycleOrder
CHECK_DEADLOCK FALSE
