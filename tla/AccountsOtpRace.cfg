CONSTANTS
  u1 = u1
  u2 = u2
  p1 = p1
  p2 = p2
  s1 = s1
  s2 = s2
  o1 = o1
  o2 = o2
  t1 = t1
  NULL = NULL
  UNHASHED = UNHASHED
  Users = {u1}
  Phones = {p1}
  Slots = {s1, s2}
  Requests = {"forgot", "reset"}
  Resendable = {"REGISTRATION"}
  Passwords = {"first", "second"}
  Tokens = {}
  OtpIds = {o1}
  MaxFailures = 0
  UserSeeds <- ActiveUser
SPECIFICATION Spec
SYMMETRY Symmetric
INVARIANT OtpSingleUse
