------------------------------- MODULE Seeding -------------------------------
(***************************************************************************)
(* The script src/database/seeds/seed.ts and the thirteen seeds it awaits  *)
(* one after the other.  A seed is a loop over the literals of its file;   *)
(* one iteration, the look-up and the INSERT, is a step, as nothing else   *)
(* writes the tables between the two.  The script may be killed between    *)
(* any two iterations, an INSERT the server refuses ends it, and it may be *)
(* run again on what it left.                                              *)
(***************************************************************************)
EXTENDS Naturals, Sequences, FiniteSets

CONSTANTS
  SeedRows,       \* how many literals each seed holds
  ProviderUsers,  \* the users with role PROVIDER, as many as provider literals
  MaxRuns         \* bound on how often the script is started

\* The calls of runSeeds, in their order.
SeedOrder ==
  <<"admin", "settings", "categories", "users", "wallets", "providers",
    "promoCodes", "services", "bookings", "payments", "transactions",
    "reviews", "notifications">>

Seeds == {SeedOrder[k] : k \in DOMAIN SeedOrder}

\* The literals of the files; wallets goes by the first ten of eleven users,
\* reviews by the seeded bookings that are completed.
SeedSizes ==
  [admin |-> 1, settings |-> 10, categories |-> 12, users |-> 10,
   wallets |-> 10, providers |-> 4, promoCodes |-> 7, services |-> 5,
   bookings |-> 5, payments |-> 6, transactions |-> 8, reviews |-> 1,
   notifications |-> 8]

ASSUME SeedingAssumption ==
  /\ \A p \in Seeds : SeedRows[p] \in 1..SeedSizes[p]
  /\ MaxRuns \in Nat \ {0}
  /\ IsFiniteSet(ProviderUsers)
  /\ Cardinality(ProviderUsers) = SeedRows["providers"]

VARIABLES
  copies,      \* the rows stored of each literal, but for the providers
  profileOf,   \* the provider literal in each user's row, 0 for no row
  seedRun,     \* the script: where it stands; late when it met a stored booking
  seedStarts,  \* how often it was started
  seedEnds     \* how often it got to its last line

seedVars == <<copies, profileOf, seedRun, seedStarts, seedEnds>>

SeedStatus == {"idle", "running", "done", "failed", "killed"}

SeedTypeOK ==
  /\ DOMAIN copies = Seeds
  /\ \A p \in Seeds : copies[p] \in [1..SeedRows[p] -> 0..MaxRuns]
  /\ profileOf \in [ProviderUsers -> 0..SeedRows["providers"]]
  /\ seedRun \in [status : SeedStatus, seed : 1..(Len(SeedOrder) + 1),
                  row : Nat, visited : SUBSET ProviderUsers, late : BOOLEAN]
  /\ seedStarts \in 0..MaxRuns /\ seedEnds \in 0..MaxRuns

SeedInit ==
  /\ copies = [p \in Seeds |-> [i \in 1..SeedRows[p] |-> 0]]
  /\ profileOf = [u \in ProviderUsers |-> 0]
  /\ seedRun = [status |-> "idle", seed |-> 1, row |-> 1, visited |-> {},
              late |-> FALSE]
  /\ seedStarts = 0 /\ seedEnds = 0

-----------------------------------------------------------------------------
(* What the loops have in common.                                          *)

At(p) ==
  /\ seedRun.status = "running"
  /\ seedRun.seed <= Len(SeedOrder) /\ SeedOrder[seedRun.seed] = p

\* The end of an iteration over the literals of p, u visited in it.
NextRow(p, u) ==
  seedRun' = IF seedRun.row < SeedRows[p]
               THEN [seedRun EXCEPT !.row = @ + 1, !.visited = @ \cup u]
               ELSE [seedRun EXCEPT !.row = 1, !.seed = @ + 1, !.visited = {}]

\* The exception of a refused INSERT reaches runSeeds: process.exit(1).
Exit ==
  /\ seedRun' = [seedRun EXCEPT !.status = "failed"]
  /\ UNCHANGED <<copies, profileOf, seedStarts, seedEnds>>

Stored(p, i) == copies[p][i] > 0

AddRow(p) ==
  /\ copies' = [copies EXCEPT ![p][seedRun.row] = @ + 1]
  /\ NextRow(p, {})
  /\ UNCHANGED <<profileOf, seedStarts, seedEnds>>

SkipRow(p) == NextRow(p, {}) /\ UNCHANGED <<copies, profileOf, seedStarts, seedEnds>>

\* Fault: a seed that finds its first literal stored skips the others.
InsertMissingOnce(p) ==
  /\ At(p)
  /\ IF Stored(p, seedRun.row)
       THEN /\ seedRun' = [seedRun EXCEPT !.row = 1, !.seed = @ + 1]
            /\ UNCHANGED <<copies, profileOf, seedStarts, seedEnds>>
       ELSE AddRow(p)

\* Fault: the loop does not move on from a literal that is stored.
InsertMissingStuck(p) ==
  /\ At(p)
  /\ IF Stored(p, seedRun.row) THEN UNCHANGED seedVars ELSE AddRow(p)

\* findOne by the key of the literal, and save when there is no row.
InsertMissing(p) ==
  /\ At(p)
  /\ IF Stored(p, seedRun.row) THEN SkipRow(p) ELSE AddRow(p)

\* save without a look-up, into a table whose number column is unique.
InsertUnique(p) ==
  /\ At(p)
  /\ IF Stored(p, seedRun.row) THEN Exit ELSE AddRow(p)

\* save without a look-up, into a table with no unique column.
InsertAlways(p) == At(p) /\ AddRow(p)

-----------------------------------------------------------------------------
(* The seeds.                                                              *)

SeedAdmin == InsertMissing("admin")
SeedSystemSettings == InsertMissing("settings")
SeedServiceCategories == InsertMissing("categories")
SeedUsers == InsertMissing("users")
SeedWallets == InsertMissing("wallets")
SeedPromoCodes == InsertMissing("promoCodes")
SeedServices == InsertAlways("services")

\* Fault: a stored booking is looked up and skipped.
SeedBookingsSkipping == InsertMissing("bookings")

SeedBookings == InsertUnique("bookings")

SeedPayments == InsertUnique("payments")
SeedTransactions == InsertUnique("transactions")
SeedReviews == InsertMissing("reviews")
SeedNotifications == InsertAlways("notifications")

HasProfile(u) == profileOf[u] # 0

Taken(i) == \E u \in ProviderUsers : profileOf[u] = i

Profile(u, i) ==
  /\ profileOf' = IF HasProfile(u) THEN profileOf ELSE [profileOf EXCEPT ![u] = i]
  /\ NextRow("providers", {u})
  /\ UNCHANGED <<copies, seedStarts, seedEnds>>

\* Fault: two rows may hold one iqama number.
SeedProvidersTwice(u) ==
  At("providers") /\ u \notin seedRun.visited /\ Profile(u, seedRun.row)

\* The query has no ORDER BY, so any user may be the next of its result; the
\* i-th user is given the i-th literal, whose iqama number is unique.
SeedProviders(u) ==
  /\ At("providers") /\ u \notin seedRun.visited
  /\ IF ~HasProfile(u) /\ Taken(seedRun.row) THEN Exit ELSE Profile(u, seedRun.row)

-----------------------------------------------------------------------------
(* The script.                                                             *)

StartSeeds ==
  /\ seedRun.status # "running" /\ seedStarts < MaxRuns
  /\ seedRun' = [status |-> "running", seed |-> 1, row |-> 1, visited |-> {},
                 late |-> \E i \in DOMAIN copies["bookings"] : Stored("bookings", i)]
  /\ seedStarts' = seedStarts + 1
  /\ UNCHANGED <<copies, profileOf, seedEnds>>

\* 'All seeds completed successfully!'
FinishSeeds ==
  /\ seedRun.status = "running" /\ seedRun.seed > Len(SeedOrder)
  /\ seedRun' = [seedRun EXCEPT !.status = "done"]
  /\ seedEnds' = seedEnds + 1
  /\ UNCHANGED <<copies, profileOf, seedStarts>>

\* The process is stopped, or loses the database.
KillSeeds ==
  /\ seedRun.status = "running"
  /\ seedRun' = [seedRun EXCEPT !.status = "killed"]
  /\ UNCHANGED <<copies, profileOf, seedStarts, seedEnds>>

RunSeeds ==
  \/ SeedAdmin
  \/ SeedSystemSettings
  \/ SeedServiceCategories
  \/ SeedUsers
  \/ SeedWallets
  \/ \E u \in ProviderUsers : SeedProviders(u)
  \/ SeedPromoCodes
  \/ SeedServices
  \/ SeedBookings
  \/ SeedPayments
  \/ SeedTransactions
  \/ SeedReviews
  \/ SeedNotifications
  \/ FinishSeeds

SeedNext == StartSeeds \/ KillSeeds \/ RunSeeds

-----------------------------------------------------------------------------
(***************************************************************************)
(* Properties.                                                             *)
(***************************************************************************)
SeedComplete(p) ==
  IF p = "providers"
    THEN \A u \in ProviderUsers : HasProfile(u)
    ELSE \A i \in 1..SeedRows[p] : Stored(p, i)

SeedBegun(p) ==
  IF p = "providers"
    THEN \E u \in ProviderUsers : HasProfile(u)
    ELSE \E i \in 1..SeedRows[p] : Stored(p, i)

\* runSeeds' "proper order (respecting dependencies)": whatever was killed
\* and run again, a row is stored only when every row it may refer to is,
\* the row of every provider among them.
SeedDependencies ==
  \A k \in DOMAIN SeedOrder :
    SeedBegun(SeedOrder[k]) => \A j \in 1..(k - 1) : SeedComplete(SeedOrder[j])

\* No profile goes to two users,
\* in whatever orders the queries of several runs return the users.
ProfilesMatched ==
  \A u, v \in ProviderUsers :
    u # v /\ HasProfile(u) => profileOf[u] # profileOf[v]

\* The INSERTs that may be refused are those of the bookings, and those of
\* the providers after a run was killed among them: the unique numbers of
\* payments and transactions are never met twice.
WhereRunsFail ==
  seedRun.status = "failed" =>
    \/ SeedOrder[seedRun.seed] = "bookings"
    \/ SeedOrder[seedRun.seed] = "providers" /\ ~SeedComplete("providers")

\* A run that finds a booking stored never gets past the bookings: the run
\* that stores the first one is the last that may complete, and what it leaves
\* out of the last four seeds no other run puts in.
NeverFinished ==
  seedRun.late =>
    /\ seedRun.status # "done"
    /\ \A j, k \in DOMAIN SeedOrder :
         SeedOrder[j] = "bookings" /\ j < k => seedRun.seed < k

\* Each run comes to an end.
SeedsEnd == (seedRun.status = "running") ~> (seedRun.status # "running")
=============================================================================
