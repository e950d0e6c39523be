CONSTANTS
  b1 = b1
  b2 = b2
  c1 = c1
  c2 = c2
  c3 = c3
  c4 = c4
  c5 = c5
  NULL = NULL
  Bookings = {b1}
  Providers = {1}
  Calls = {c1}
  MaxInFlight = 1
  ProviderOf <- OneOwner
  Total <- SeededTotal
  Rate <- SeededRate
  BookingSeeds <- InProgressSeed
  ProviderSeed <- SeededProvider
SPECIFICATION Spec
SYMMETRY CallSymmetry
INVARIANT CreditIsStorable
CHECK_DEADLOCK FALSE
