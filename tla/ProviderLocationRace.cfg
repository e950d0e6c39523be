CONSTANTS
  u1 = u1
  u2 = u2
  i1 = i1
  i2 = i2
  c1 = c1
  c2 = c2
  c3 = c3
  NULL = NULL
  Users = {u1}
  Calls = {c1, c2}
  MaxInFlight = 2
  AccountSeeds <- ActiveSeed
  Iqamas = {i1, i2}
  Availability = {"AVAILABLE", "OFFLINE"}
SPECIFICATION Spec
SYMMETRY Symmetry
PROPERTY LocationOnly
CHECK_DEADLOCK FALSE
