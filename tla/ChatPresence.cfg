CONSTANTS
  u1 = u1
  u2 = u2
  s1 = s1
  s2 = s2
  s3 = s3
  s4 = s4
  s5 = s5
  NULL = NULL
  Users = {u1, u2}
  Sockets = {s1, s2, s3, s4, s5}
  TokenOf <- Tokens
SPECIFICATION Spec
SYMMETRY SocketSymmetry
CHECK_DEADLOCK FALSE
INVARIANTS
  TypeOK
  MapsAgree
  ToldWhatIsKept
  OpenIsKnown
