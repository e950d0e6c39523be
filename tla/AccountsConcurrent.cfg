CONSTANTS
  u1 = u1
  u2 = u2
  p1 = p1
  p2 = p2
  s1 = s1
  s2 = s2
  o1 = o1
  o2 = o2
  t1 = t1
  NULL = NULL
  UNHASHED = UNHASHED
  Users = {u1, u2}
  Phones = {p1, p2}
  Slots = {s1, s2}
  Requests = {"register", "forgot", "verify", "reset", "login", "update"}
  Resendable = {"REGISTRATION"}
  Passwords = {"first"}
  Tokens = {t1}
  OtpIds = {o1}
  MaxFailures = 0
  UserSeeds <- ActiveOrNone
SPECIFICATION Spec
SYMMETRY Symmetric
INVARIANTS
  TypeOK
  VerifiedByOtp
  UsedBeforeEffect
