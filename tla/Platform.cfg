CONSTANTS
  u1 = u1
  u2 = u2
  u3 = u3
  SeedRows <- FewRows
  ProviderUsers = {u1, u2, u3}
  MaxRuns = 3
  Callers = {1, 2}
  MaxInserts = 2
  RowSlots = {1, 2}
  Texts = {"b"}
  MaxCount = 1
  MaxDay = 1
  Readers = {1, 2}
  Urls <- Details
  KeyOf <- DetailsKey
  TtlOf <- DetailsTtl
  MaxHandling = 1
  MaxWrites = 1
  MaxTime = 5
  Clients = {"first", "second"}
  Limit = 3
  Ttl = 2
  MaxLimitTime = 5
SPECIFICATION Spec
CHECK_DEADLOCK FALSE
INVARIANTS
  PlatformTypeOK
  SeedDependencies
  ProfilesMatched
  WhereRunsFail
  NeverFinished
  InsertsRefused
  KeptUnlessRaced
  PromoNeverUsable
  SettledUnnamed
  ShadowedOnly
  StalenessBounded
  WindowLimit
  RefusedWithinTtl
PROPERTIES
  SeedsEnd
  ReadNeverUnread
