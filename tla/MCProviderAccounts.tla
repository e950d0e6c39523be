-------------------------- MODULE MCProviderAccounts --------------------------
(***************************************************************************)
(* ProviderAccounts on small instances.                                    *)
(***************************************************************************)
EXTENDS ProviderAccounts, SeedData, TLC

CONSTANTS u1, u2, i1, i2, c1, c2, c3

\* The columns of a seeded provider row that this module holds.
SeededAccount(i, verification, availability, n) ==
  [iqamaNumber |-> n, status |-> SeededProviders[i].status,
   verificationStatus |-> verification, availability |-> availability,
   approvedAt |-> FALSE,
   suspensionCount |-> SeededProviders[i].suspensionCount,
   lastSuspensionDate |-> FALSE, completedBookings |-> 0,
   locationUpdatedAt |-> FALSE]

ActiveSeed == {SeededAccount(1, "VERIFIED", "AVAILABLE", n) : n \in Iqamas}
PendingSeed == {SeededAccount(4, "PENDING", "OFFLINE", n) : n \in Iqamas}
PendingOrNone == PendingSeed \cup {NULL}
Symmetry == Permutations(Calls) \cup Permutations(Users) \cup Permutations(Iqamas)
=============================================================================
