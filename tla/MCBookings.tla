----------------------------- MODULE MCBookings -----------------------------
(***************************************************************************)
(* Bookings on small instances: the seeded rows, and whole-riyal totals    *)
(* for the runs that need a completion to be credited.                     *)
(***************************************************************************)
EXTENDS Bookings, SeedData, TLC

CONSTANTS b1, b2, c1, c2, c3, c4, c5

\* Bookings b1 and b2 belong to the provider with the first seeded row.
OneOwner == [b \in Bookings |-> 1]
WholeTotal == [b \in Bookings |-> 20000]
SeededTotal == [b \in Bookings |-> SeededTotals[2]]
SeededRate == [p \in {1} |-> SeededRates[p]]
SeededProvider == [p \in {1} |-> SeededProviders[p]]
AnySeed == {SeededBookings[i] : i \in DOMAIN SeededBookings}
InProgressSeed == {SeededBookings[2]}
PendingSeed == {SeededBookings[5]}
CallSymmetry == Permutations(Calls)
=============================================================================
