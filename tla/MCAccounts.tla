------------------------------ MODULE MCAccounts ------------------------------
(***************************************************************************)
(* Accounts on small instances.                                            *)
(***************************************************************************)
EXTENDS Accounts, TLC

CONSTANTS u1, u2, p1, p2, s1, s2, o1, o2, t1

ActiveUser ==
  {[phone |-> n, status |-> "ACTIVE", phoneVerified |-> TRUE,
    password |-> "first", fcmTokens |-> {}, deletedAt |-> FALSE] : n \in Phones}
ActiveOrNone == ActiveUser \cup {NULL}
Symmetric == Permutations(Slots) \cup Permutations(OtpIds) \cup Permutations(Users)
               \cup Permutations(Phones)
=============================================================================
