---------------------------- MODULE SeedingProofs ----------------------------
(***************************************************************************)
(* The script of the seeds, for any number of runs, killed wherever, and   *)
(* any of the numbers of literals the seeds may have: rows are stored in   *)
(* the order of their references, no profile goes to two users, and a run  *)
(* fails where, and only where, its numbers are stored already.            *)
(***************************************************************************)
EXTENDS Platform, FiniteSetTheorems, TLAPS

LastSeed == 13

SeedState ==
  /\ DOMAIN copies = Seeds
  /\ \A p \in Seeds : copies[p] \in [1..SeedRows[p] -> Nat]
  /\ profileOf \in [ProviderUsers -> Nat]
  /\ DOMAIN seedRun = {"status", "seed", "row", "visited", "late"}
  /\ seedRun.status \in SeedStatus /\ seedRun.seed \in 1..(LastSeed + 1)
  /\ seedRun.row \in Nat \ {0} /\ seedRun.visited \subseteq ProviderUsers
  /\ seedRun.late \in BOOLEAN
  /\ seedRun.seed <= LastSeed => seedRun.row <= SeedRows[SeedOrder[seedRun.seed]]

\* A run has done the seeds before its own, and the literals before its own.
Progress ==
  seedRun.status = "running" =>
    /\ \A j \in 1..(seedRun.seed - 1) : SeedComplete(SeedOrder[j])
    /\ seedRun.seed <= LastSeed /\ seedRun.seed # 6 =>
         \A i \in 1..(seedRun.row - 1) : Stored(SeedOrder[seedRun.seed], i)
    /\ seedRun.seed = 6 =>
         /\ \A u \in seedRun.visited : HasProfile(u)
         /\ Cardinality(seedRun.visited) = seedRun.row - 1

\* A run that met a booking has one still to meet.
BookingAhead ==
  seedRun.late =>
    /\ seedRun.status # "done" /\ seedRun.seed <= 9
    /\ \E i \in 1..SeedRows["bookings"] :
         /\ Stored("bookings", i)
         /\ seedRun.status = "running" /\ seedRun.seed = 9 => seedRun.row <= i

\* A run that met no booking finds no row of seed k but its own.
OwnRows(k) ==
  seedRun.status = "running" /\ ~seedRun.late /\ seedRun.seed <= k =>
    \A i \in 1..SeedRows[SeedOrder[k]] :
      Stored(SeedOrder[k], i) => seedRun.seed = k /\ i < seedRun.row

SeedInv ==
  /\ SeedState /\ Progress /\ BookingAhead /\ OwnRows(10) /\ OwnRows(11)
  /\ SeedDependencies /\ ProfilesMatched /\ WhereRunsFail

\* The places of the seeds in their order.
Place ==
  [admin |-> 1, settings |-> 2, categories |-> 3, users |-> 4, wallets |-> 5,
   providers |-> 6, promoCodes |-> 7, services |-> 8, bookings |-> 9,
   payments |-> 10, transactions |-> 11, reviews |-> 12, notifications |-> 13]

\* Each seed has its place, and no two have the same.
LEMMA SeedPlaces ==
  /\ Len(SeedOrder) = LastSeed /\ DOMAIN SeedOrder = 1..LastSeed
  /\ \A k \in 1..LastSeed : SeedOrder[k] \in Seeds /\ Place[SeedOrder[k]] = k
  /\ SeedOrder[6] = "providers" /\ SeedOrder[9] = "bookings"
  /\ SeedOrder[10] = "payments" /\ SeedOrder[11] = "transactions"
  /\ \A p \in Seeds : SeedRows[p] \in Nat \ {0}
<1>1. Len(SeedOrder) = LastSeed /\ DOMAIN SeedOrder = 1..LastSeed
  BY DEF SeedOrder, LastSeed
<1>2. \A k \in 1..LastSeed : Place[SeedOrder[k]] = k
  BY DEF SeedOrder, LastSeed, Place
<1>3. \A k \in 1..LastSeed : SeedOrder[k] \in Seeds
  BY <1>1 DEF Seeds
<1>4. /\ SeedOrder[6] = "providers" /\ SeedOrder[9] = "bookings"
      /\ SeedOrder[10] = "payments" /\ SeedOrder[11] = "transactions"
  BY DEF SeedOrder
<1>5. ASSUME NEW p \in Seeds PROVE SeedRows[p] \in Nat \ {0}
  <2>1. SeedRows[p] \in 1..SeedSizes[p]
    BY SeedingAssumption
  <2>2. SeedSizes[p] \in Nat
    <3>1. PICK k \in 1..LastSeed : p = SeedOrder[k]
      BY <1>1 DEF Seeds
    <3> QED
      BY <3>1 DEF SeedOrder, LastSeed, SeedSizes
  <2> QED
    BY <2>1, <2>2
<1> QED
  BY <1>1, <1>2, <1>3, <1>4, <1>5

\* The empty database.
LEMMA SeedInitHolds == SeedInit => SeedInv
<1> SUFFICES ASSUME SeedInit PROVE SeedInv
  OBVIOUS
<1>1. /\ copies = [p \in Seeds |-> [i \in 1..SeedRows[p] |-> 0]]
      /\ profileOf = [u \in ProviderUsers |-> 0]
      /\ seedRun = [status |-> "idle", seed |-> 1, row |-> 1, visited |-> {},
                    late |-> FALSE]
  BY DEF SeedInit
<1>2. SeedState
  BY <1>1, SeedPlaces DEF SeedState, SeedStatus, LastSeed
<1>3. \A p \in Seeds : ~SeedBegun(p)
  BY <1>1, SeedPlaces DEF SeedBegun, HasProfile, Stored
<1>4. SeedDependencies
  BY <1>3, SeedPlaces DEF SeedDependencies
<1> QED
  BY <1>1, <1>2, <1>4
     DEF SeedInv, Progress, BookingAhead, OwnRows, ProfilesMatched, HasProfile,
         WhereRunsFail

\* Where the run stands at p, and where an iteration takes it.
LEMMA Advance ==
  ASSUME SeedState, NEW p, At(p), NEW u \in SUBSET ProviderUsers, NextRow(p, u)
  PROVE  /\ seedRun.status = "running" /\ seedRun.seed \in 1..LastSeed
         /\ p = SeedOrder[seedRun.seed] /\ p \in Seeds /\ Place[p] = seedRun.seed
         /\ seedRun.row \in 1..SeedRows[p] /\ SeedRows[p] \in Nat \ {0}
         /\ seedRun'.status = "running" /\ seedRun'.late = seedRun.late
         /\ \/ /\ seedRun.row < SeedRows[p] /\ seedRun'.seed = seedRun.seed
               /\ seedRun'.row = seedRun.row + 1
               /\ seedRun'.visited = seedRun.visited \cup u
            \/ /\ seedRun.row = SeedRows[p] /\ seedRun'.seed = seedRun.seed + 1
               /\ seedRun'.row = 1 /\ seedRun'.visited = {}
         /\ DOMAIN seedRun' = DOMAIN seedRun
         /\ seedRun'.seed <= LastSeed =>
              seedRun'.row <= SeedRows[SeedOrder[seedRun'.seed]]
<1>1. /\ seedRun.status = "running" /\ seedRun.seed \in 1..LastSeed
      /\ p = SeedOrder[seedRun.seed] /\ p \in Seeds /\ Place[p] = seedRun.seed
      /\ SeedRows[p] \in Nat \ {0}
  BY SeedPlaces DEF At, SeedState
<1>2. seedRun.row \in 1..SeedRows[p]
  BY <1>1 DEF SeedState
<1>3. CASE seedRun.row < SeedRows[p]
  <2>1. seedRun' = [seedRun EXCEPT !.row = seedRun.row + 1,
                                   !.visited = seedRun.visited \cup u]
    BY <1>3 DEF NextRow
  <2> QED
    BY <1>1, <1>2, <1>3, <2>1 DEF SeedState, LastSeed
<1>4. CASE ~(seedRun.row < SeedRows[p])
  <2>1. seedRun' = [seedRun EXCEPT !.row = 1, !.seed = seedRun.seed + 1,
                                   !.visited = {}]
    BY <1>4 DEF NextRow
  <2>2. seedRun.seed + 1 \in 1..(LastSeed + 1)
    BY <1>1 DEF LastSeed
  <2>3. /\ seedRun'.status = "running" /\ seedRun'.late = seedRun.late
        /\ seedRun'.seed = seedRun.seed + 1 /\ seedRun'.row = 1
        /\ seedRun'.visited = {}
    BY <1>1, <2>1 DEF SeedState
  <2>4. seedRun'.seed <= LastSeed => 1 <= SeedRows[SeedOrder[seedRun'.seed]]
    <3> SUFFICES ASSUME seedRun'.seed <= LastSeed
                 PROVE  1 <= SeedRows[SeedOrder[seedRun'.seed]]
      OBVIOUS
    <3>1. SeedOrder[seedRun'.seed] \in Seeds
      BY <1>1, <2>3, SeedPlaces DEF LastSeed
    <3> QED
      BY <3>1, SeedPlaces
  <2>5. DOMAIN seedRun' = DOMAIN seedRun
    BY <2>1
  <2> QED
    BY <1>1, <1>2, <1>4, <2>3, <2>4, <2>5
<1> QED
  BY <1>1, <1>2, <1>3, <1>4

\* What an INSERT of seed p makes of the tables: rows are added, and none but
\* the one it stands at.
LEMMA AddRowAdds ==
  ASSUME SeedState, NEW p \in Seeds, seedRun.row \in 1..SeedRows[p],
         copies' = [copies EXCEPT ![p][seedRun.row] = @ + 1], UNCHANGED profileOf
  PROVE  /\ DOMAIN copies' = Seeds
         /\ \A q \in Seeds : copies'[q] \in [1..SeedRows[q] -> Nat]
         /\ \A q \in Seeds : \A i \in 1..SeedRows[q] :
              /\ Stored(q, i) => Stored(q, i)'
              /\ Stored(q, i)' => Stored(q, i) \/ (q = p /\ i = seedRun.row)
         /\ copies'[p][seedRun.row] > 0
<1>1. /\ DOMAIN copies' = Seeds
      /\ \A q \in Seeds : q # p => copies'[q] = copies[q]
      /\ copies'[p] = [copies[p] EXCEPT ![seedRun.row] = copies[p][seedRun.row] + 1]
  BY DEF SeedState
<1>2. copies[p] \in [1..SeedRows[p] -> Nat]
  BY DEF SeedState
<1>3. /\ copies'[p] \in [1..SeedRows[p] -> Nat]
      /\ copies'[p][seedRun.row] = copies[p][seedRun.row] + 1
      /\ \A i \in 1..SeedRows[p] : i # seedRun.row => copies'[p][i] = copies[p][i]
      /\ copies[p][seedRun.row] \in Nat
  BY <1>1, <1>2
<1>4. ASSUME NEW q \in Seeds, NEW i \in 1..SeedRows[q]
      PROVE  /\ Stored(q, i) => Stored(q, i)'
             /\ Stored(q, i)' => Stored(q, i) \/ (q = p /\ i = seedRun.row)
  <2>1. CASE q = p /\ i = seedRun.row
    BY <1>3, <2>1 DEF Stored
  <2>2. CASE q # p \/ i # seedRun.row
    BY <1>1, <1>3, <2>2 DEF Stored
  <2> QED
    BY <2>1, <2>2
<1>5. \A q \in Seeds : copies'[q] \in [1..SeedRows[q] -> Nat]
  BY <1>1, <1>3 DEF SeedState
<1>6. copies'[p][seedRun.row] > 0
  BY <1>3 DEF Stored
<1> QED
  BY <1>1, <1>4, <1>5, <1>6

\* The tables after an iteration of p: nothing is lost, what is new is of p,
\* and the literal, or the user u, of the iteration has its row.
Grown(p, u) ==
  /\ DOMAIN copies' = Seeds
  /\ \A q \in Seeds : copies'[q] \in [1..SeedRows[q] -> Nat]
  /\ profileOf' \in [ProviderUsers -> Nat]
  /\ \A q \in Seeds : \A i \in 1..SeedRows[q] :
       /\ Stored(q, i) => Stored(q, i)'
       /\ Stored(q, i)' => Stored(q, i) \/ (q = p /\ i = seedRun.row)
  /\ \A v \in ProviderUsers :
       /\ HasProfile(v) => HasProfile(v)'
       /\ HasProfile(v)' => HasProfile(v) \/ p = "providers"
  /\ p # "providers" => u = {} /\ copies'[p][seedRun.row] > 0
  /\ p = "providers" =>
       \E v \in ProviderUsers \ seedRun.visited : u = {v} /\ HasProfile(v)'
  /\ p = "bookings" => ~Stored(p, seedRun.row)

\* Such an iteration completes no seed but p, begins none but p, and keeps
\* what is complete so.
LEMMA GrownSeeds ==
  ASSUME NEW p, NEW u, Grown(p, u), NEW q \in Seeds
  PROVE  /\ SeedComplete(q) => SeedComplete(q)'
         /\ SeedBegun(q)' => SeedBegun(q) \/ q = p
<1>1. CASE q = "providers"
  BY <1>1 DEF Grown, SeedComplete, SeedBegun
<1>2. CASE q # "providers"
  BY <1>2 DEF Grown, SeedComplete, SeedBegun
<1> QED
  BY <1>1, <1>2

\* The literals, or the users, an iteration has come to the end of.
LEMMA GrownProgress ==
  ASSUME SeedInv, NEW p, At(p), NEW u \in SUBSET ProviderUsers, NextRow(p, u),
         Grown(p, u)
  PROVE  Progress'
<1>1. /\ seedRun.status = "running" /\ seedRun.seed \in 1..LastSeed
      /\ p = SeedOrder[seedRun.seed] /\ p \in Seeds /\ Place[p] = seedRun.seed
      /\ seedRun.row \in 1..SeedRows[p] /\ SeedRows[p] \in Nat \ {0}
      /\ \/ /\ seedRun.row < SeedRows[p] /\ seedRun'.seed = seedRun.seed
            /\ seedRun'.row = seedRun.row + 1
            /\ seedRun'.visited = seedRun.visited \cup u
         \/ /\ seedRun.row = SeedRows[p] /\ seedRun'.seed = seedRun.seed + 1
            /\ seedRun'.row = 1 /\ seedRun'.visited = {}
  BY Advance DEF SeedInv
<1>2. Progress /\ seedRun.visited \subseteq ProviderUsers
  BY DEF SeedInv, SeedState
<1>3. \A j \in 1..(seedRun.seed - 1) :
        SeedOrder[j] \in Seeds /\ SeedComplete(SeedOrder[j])'
  BY <1>1, <1>2, GrownSeeds, SeedPlaces DEF Progress, LastSeed
<1>4. seedRun.seed = 6 <=> p = "providers"
  BY <1>1, SeedPlaces DEF Place
<1>5. ASSUME p # "providers" PROVE \A i \in 1..seedRun.row : Stored(p, i)'
  <2>1. \A i \in 1..(seedRun.row - 1) : Stored(p, i)
    BY <1>1, <1>2, <1>4, <1>5 DEF Progress, LastSeed
  <2>2. copies'[p][seedRun.row] > 0
    BY <1>5 DEF Grown
  <2>3. ASSUME NEW i \in 1..(seedRun.row - 1) PROVE Stored(p, i)'
    <3>1. i \in 1..SeedRows[p] /\ Stored(p, i)
      BY <1>1, <2>1
    <3> QED
      BY <1>1, <3>1 DEF Grown
  <2>4. \A i \in 1..seedRun.row : i = seedRun.row \/ i \in 1..(seedRun.row - 1)
    BY <1>1
  <2> QED
    BY <2>2, <2>3, <2>4 DEF Stored
<1>6. ASSUME p = "providers"
      PROVE  /\ \A v \in seedRun.visited \cup u : HasProfile(v)'
             /\ Cardinality(seedRun.visited \cup u) = seedRun.row
             /\ IsFiniteSet(seedRun.visited \cup u)
  <2>1. PICK v \in ProviderUsers \ seedRun.visited : u = {v} /\ HasProfile(v)'
    BY <1>6 DEF Grown
  <2>2. /\ \A w \in seedRun.visited : HasProfile(w)
        /\ Cardinality(seedRun.visited) = seedRun.row - 1
    BY <1>1, <1>2, <1>4, <1>6 DEF Progress
  <2>3. IsFiniteSet(seedRun.visited)
    BY <1>2, SeedingAssumption, FS_Subset
  <2>4. /\ Cardinality(seedRun.visited \cup {v}) = Cardinality(seedRun.visited) + 1
        /\ IsFiniteSet(seedRun.visited \cup {v})
    BY <2>1, <2>3, FS_AddElement
  <2>5. \A w \in seedRun.visited : HasProfile(w)'
    BY <1>2, <2>2 DEF Grown
  <2> QED
    BY <1>1, <2>1, <2>2, <2>4, <2>5
<1>7. CASE seedRun.row < SeedRows[p]
  <2>1. /\ seedRun'.seed = seedRun.seed /\ seedRun'.row = seedRun.row + 1
        /\ seedRun'.visited = seedRun.visited \cup u /\ seedRun.row \in Nat
        /\ seedRun'.row - 1 = seedRun.row
    BY <1>1, <1>7
  <2> QED
    BY <1>1, <1>3, <1>4, <1>5, <1>6, <2>1 DEF Progress
<1>8. CASE seedRun.row = SeedRows[p]
  <2>1. /\ seedRun'.seed = seedRun.seed + 1 /\ seedRun'.row = 1
        /\ seedRun'.visited = {}
    BY <1>1, <1>8
  <2>2. SeedComplete(p)'
    <3>1. CASE p # "providers"
      BY <1>5, <1>8, <3>1 DEF SeedComplete
    <3>2. CASE p = "providers"
      <4>1. seedRun.visited \cup u = ProviderUsers
        BY <1>2, <1>6, <1>8, <3>2, SeedingAssumption, FS_Subset
      <4> QED
        BY <1>6, <3>2, <4>1 DEF SeedComplete
    <3> QED
      BY <3>1, <3>2
  <2>3. \A j \in 1..(seedRun'.seed - 1) : SeedComplete(SeedOrder[j])'
    <3>1. \A j \in 1..(seedRun'.seed - 1) :
            j = seedRun.seed \/ j \in 1..(seedRun.seed - 1)
      BY <1>1, <2>1
    <3> QED
      BY <1>1, <1>3, <2>2, <3>1
  <2>4. Cardinality({}) = 0 /\ 1..(seedRun'.row - 1) = {}
    BY <2>1, FS_EmptySet
  <2> QED
    BY <2>1, <2>3, <2>4 DEF Progress
<1> QED
  BY <1>1, <1>7, <1>8

\* An iteration of any seed keeps the invariant, if it stores no booking twice
\* and gives no profile away twice.
LEMMA GrownHolds ==
  ASSUME SeedInv, NEW p, At(p), NEW u \in SUBSET ProviderUsers, NextRow(p, u),
         Grown(p, u), ProfilesMatched'
  PROVE  SeedInv'
<1>1. /\ seedRun.status = "running" /\ seedRun.seed \in 1..LastSeed
      /\ p = SeedOrder[seedRun.seed] /\ p \in Seeds /\ Place[p] = seedRun.seed
      /\ seedRun.row \in 1..SeedRows[p] /\ SeedRows[p] \in Nat \ {0}
      /\ seedRun'.status = "running" /\ seedRun'.late = seedRun.late
      /\ DOMAIN seedRun' = DOMAIN seedRun
      /\ \/ /\ seedRun.row < SeedRows[p] /\ seedRun'.seed = seedRun.seed
            /\ seedRun'.row = seedRun.row + 1
            /\ seedRun'.visited = seedRun.visited \cup u
         \/ /\ seedRun.row = SeedRows[p] /\ seedRun'.seed = seedRun.seed + 1
            /\ seedRun'.row = 1 /\ seedRun'.visited = {}
      /\ seedRun'.seed <= LastSeed =>
           seedRun'.row <= SeedRows[SeedOrder[seedRun'.seed]]
  BY Advance DEF SeedInv
<1>2. SeedState'
  <2>1. /\ seedRun'.seed \in 1..(LastSeed + 1) /\ seedRun'.row \in Nat \ {0}
        /\ seedRun'.visited \subseteq ProviderUsers
    BY <1>1 DEF SeedInv, SeedState, LastSeed
  <2> QED
    BY <1>1, <2>1 DEF SeedInv, SeedState, Grown
<1>3. SeedDependencies'
  <2> SUFFICES ASSUME NEW k \in DOMAIN SeedOrder, SeedBegun(SeedOrder[k])',
                      NEW j \in 1..(k - 1)
               PROVE  SeedComplete(SeedOrder[j])'
    BY DEF SeedDependencies
  <2>1. /\ k \in 1..LastSeed /\ j \in 1..LastSeed
        /\ SeedOrder[k] \in Seeds /\ SeedOrder[j] \in Seeds
    BY SeedPlaces DEF LastSeed
  <2>2. CASE SeedBegun(SeedOrder[k])
    BY <2>1, <2>2, GrownSeeds DEF SeedInv, SeedDependencies
  <2>3. CASE SeedOrder[k] = p
    <3>1. k = seedRun.seed
      BY <1>1, <2>1, <2>3, SeedPlaces
    <3>2. SeedComplete(SeedOrder[j])
      BY <1>1, <3>1 DEF SeedInv, Progress
    <3> QED
      BY <2>1, <3>2, GrownSeeds
  <2> QED
    BY <2>1, <2>2, <2>3, GrownSeeds
<1>4. BookingAhead'
  <2> SUFFICES ASSUME seedRun.late
               PROVE  /\ seedRun'.status # "done" /\ seedRun'.seed <= 9
                      /\ \E i \in 1..SeedRows["bookings"] :
                           /\ Stored("bookings", i)'
                           /\ seedRun'.status = "running" /\ seedRun'.seed = 9 =>
                                seedRun'.row <= i
    BY <1>1 DEF BookingAhead
  <2>1. PICK i \in 1..SeedRows["bookings"] :
          Stored("bookings", i) /\ (seedRun.seed = 9 => seedRun.row <= i)
    BY <1>1 DEF SeedInv, BookingAhead
  <2>2. seedRun.seed <= 9 /\ SeedRows["bookings"] \in Nat /\ "bookings" \in Seeds
    BY SeedPlaces DEF SeedInv, BookingAhead, LastSeed
  <2>3. Stored("bookings", i)'
    BY <2>1, <2>2 DEF Grown
  <2>4. CASE seedRun.seed = 9
    <3>1. p = "bookings"
      BY <1>1, <2>4, SeedPlaces
    <3>2. i # seedRun.row
      BY <2>1, <3>1 DEF Grown
    <3>3. seedRun.row + 1 <= i
      BY <1>1, <2>1, <2>2, <2>4, <3>2
    <3>4. seedRun.row < SeedRows[p]
      BY <1>1, <2>1, <2>2, <3>1, <3>3
    <3> QED
      BY <1>1, <2>1, <2>3, <2>4, <3>3, <3>4
  <2>5. CASE seedRun.seed # 9
    <3>1. seedRun'.seed <= 9 /\ (seedRun'.seed = 9 => seedRun'.row = 1)
      BY <1>1, <2>2, <2>5 DEF LastSeed
    <3> QED
      BY <1>1, <2>1, <2>2, <2>3, <3>1
  <2> QED
    BY <2>4, <2>5
<1>5. ASSUME NEW k \in {10, 11} PROVE OwnRows(k)'
  <2> SUFFICES ASSUME ~seedRun.late, seedRun'.seed <= k,
                      NEW i \in 1..SeedRows[SeedOrder[k]], Stored(SeedOrder[k], i)'
               PROVE  seedRun'.seed = k /\ i < seedRun'.row
    BY <1>1 DEF OwnRows
  <2>1. /\ k \in 1..LastSeed /\ SeedOrder[k] \in Seeds
        /\ Place[SeedOrder[k]] = k /\ SeedRows[SeedOrder[k]] \in Nat
    BY SeedPlaces DEF LastSeed
  <2>2. OwnRows(k)
    BY DEF SeedInv
  <2>3. seedRun.seed \in Nat /\ seedRun.row \in Nat
    BY <1>1
  <2>4. seedRun.seed <= k
    BY <1>1, <2>1, <2>3
  <2>5. Stored(SeedOrder[k], i) \/ (SeedOrder[k] = p /\ i = seedRun.row)
    BY <2>1 DEF Grown
  <2>6. seedRun.seed = k /\ i <= seedRun.row
    BY <1>1, <2>1, <2>2, <2>3, <2>4, <2>5 DEF OwnRows
  <2>7. seedRun.row < SeedRows[p] /\ seedRun'.seed = k
        /\ seedRun'.row = seedRun.row + 1
    BY <1>1, <2>1, <2>6
  <2> QED
    BY <2>1, <2>3, <2>6, <2>7
<1>6. Progress'
  BY GrownProgress
<1>7. WhereRunsFail'
  BY <1>1 DEF WhereRunsFail
<1> QED
  BY <1>2, <1>3, <1>4, <1>5, <1>6, <1>7 DEF SeedInv

\* A row added for a literal; a booking only for one that has none.
LEMMA AddRowHolds ==
  ASSUME SeedInv, NEW p, p # "providers", At(p), AddRow(p),
         p = "bookings" => ~Stored(p, seedRun.row)
  PROVE  SeedInv'
<1>1. /\ copies' = [copies EXCEPT ![p][seedRun.row] = @ + 1]
      /\ NextRow(p, {}) /\ UNCHANGED profileOf
  BY DEF AddRow
<1>2. SeedState /\ p \in Seeds /\ seedRun.row \in 1..SeedRows[p]
  BY <1>1, Advance DEF SeedInv
<1>3. Grown(p, {})
  BY <1>1, <1>2, AddRowAdds DEF Grown, SeedState, HasProfile
<1>4. ProfilesMatched'
  BY <1>1 DEF SeedInv, ProfilesMatched, HasProfile
<1> QED
  BY <1>1, <1>3, <1>4, GrownHolds

\* A literal that has its row.
LEMMA SkipRowHolds ==
  ASSUME SeedInv, NEW p, p \notin {"providers", "bookings"}, At(p), SkipRow(p),
         Stored(p, seedRun.row)
  PROVE  SeedInv'
<1>1. NextRow(p, {}) /\ UNCHANGED <<copies, profileOf>>
  BY DEF SkipRow
<1>2. SeedState /\ p \in Seeds /\ seedRun.row \in 1..SeedRows[p]
  BY <1>1, Advance DEF SeedInv
<1>3. Grown(p, {})
  BY <1>1, <1>2 DEF Grown, SeedState, HasProfile, Stored
<1>4. ProfilesMatched'
  BY <1>1 DEF SeedInv, ProfilesMatched, HasProfile
<1> QED
  BY <1>1, <1>3, <1>4, GrownHolds

\* A look-up by the key of the literal, and an INSERT when it finds nothing.
LEMMA InsertMissingHolds ==
  ASSUME SeedInv, NEW p, p \notin {"providers", "bookings"}, InsertMissing(p)
  PROVE  SeedInv'
BY AddRowHolds, SkipRowHolds DEF InsertMissing

\* The next user of the query.
LEMMA SeedProvidersHolds ==
  ASSUME SeedInv, NEW u \in ProviderUsers, SeedProviders(u),
         HasProfile(u) \/ ~Taken(seedRun.row)
  PROVE  SeedInv'
<1>1. /\ At("providers") /\ u \notin seedRun.visited
      /\ profileOf' = IF HasProfile(u) THEN profileOf
                                       ELSE [profileOf EXCEPT ![u] = seedRun.row]
      /\ NextRow("providers", {u}) /\ UNCHANGED copies
  BY DEF SeedProviders, Profile
<1>2. /\ SeedState /\ seedRun.row \in Nat \ {0}
      /\ profileOf \in [ProviderUsers -> Nat] /\ {u} \in SUBSET ProviderUsers
  BY DEF SeedInv, SeedState
<1>3. /\ profileOf' \in [ProviderUsers -> Nat] /\ profileOf'[u] # 0
      /\ \A v \in ProviderUsers : v # u => profileOf'[v] = profileOf[v]
      /\ HasProfile(u) => profileOf'[u] = profileOf[u]
      /\ ~HasProfile(u) => profileOf'[u] = seedRun.row
  BY <1>1, <1>2 DEF HasProfile
<1>4. Grown("providers", {u})
  BY <1>1, <1>2, <1>3 DEF Grown, SeedState, HasProfile, Stored
<1>5. ProfilesMatched'
  <2> SUFFICES ASSUME NEW v \in ProviderUsers, NEW w \in ProviderUsers, v # w,
                      profileOf'[v] # 0
               PROVE  profileOf'[v] # profileOf'[w]
    BY DEF ProfilesMatched, HasProfile
  <2>1. ProfilesMatched
    BY DEF SeedInv
  <2>2. CASE HasProfile(u)
    BY <1>3, <2>1, <2>2 DEF ProfilesMatched, HasProfile
  <2>3. CASE ~HasProfile(u)
    <3>1. \A q \in ProviderUsers : profileOf[q] # seedRun.row
      BY <2>3 DEF Taken
    <3> QED
      BY <1>3, <2>1, <2>3, <3>1 DEF ProfilesMatched, HasProfile
  <2> QED
    BY <2>2, <2>3
<1> QED
  BY <1>1, <1>2, <1>4, <1>5, GrownHolds

\* A run that ends, whichever way, changes no table.
LEMMA EndHolds ==
  ASSUME SeedInv, seedRun.status = "running", NEW status \in SeedStatus \ {"running"},
         seedRun' = [seedRun EXCEPT !.status = status],
         UNCHANGED <<copies, profileOf>>, status = "done" => ~seedRun.late,
         status = "failed" => \/ SeedOrder[seedRun.seed] = "bookings"
                              \/ /\ SeedOrder[seedRun.seed] = "providers"
                                 /\ ~SeedComplete("providers")
  PROVE  SeedInv'
<1>1. /\ DOMAIN seedRun' = DOMAIN seedRun /\ seedRun'.status = status
      /\ seedRun'.seed = seedRun.seed /\ seedRun'.row = seedRun.row
      /\ seedRun'.visited = seedRun.visited /\ seedRun'.late = seedRun.late
  BY DEF SeedInv, SeedState
<1>2. SeedState'
  BY <1>1 DEF SeedInv, SeedState
<1>3. BookingAhead'
  BY <1>1 DEF SeedInv, BookingAhead, Stored
<1>4. SeedDependencies' /\ ProfilesMatched'
  BY DEF SeedInv, SeedDependencies, ProfilesMatched, SeedBegun, SeedComplete,
         HasProfile, Stored
<1>5. WhereRunsFail'
  BY <1>1 DEF WhereRunsFail, SeedComplete, HasProfile
<1> QED
  BY <1>1, <1>2, <1>3, <1>4, <1>5 DEF SeedInv, Progress, OwnRows

\* A run that starts is late when a booking is stored; otherwise nothing after
\* the bookings is, as each of them came before.
LEMMA StartHolds ==
  ASSUME SeedInv, StartSeeds
  PROVE  SeedInv'
<1>1. /\ seedRun' = [status |-> "running", seed |-> 1, row |-> 1, visited |-> {},
                     late |-> \E i \in DOMAIN copies["bookings"] :
                                Stored("bookings", i)]
      /\ UNCHANGED <<copies, profileOf>>
  BY DEF StartSeeds
<1>2. /\ DOMAIN seedRun' = {"status", "seed", "row", "visited", "late"}
      /\ seedRun'.status = "running" /\ seedRun'.seed = 1 /\ seedRun'.row = 1
      /\ seedRun'.visited = {} /\ seedRun'.late \in BOOLEAN
      /\ seedRun'.late <=> \E i \in DOMAIN copies["bookings"] : Stored("bookings", i)
  BY <1>1
<1>3. /\ "bookings" \in Seeds /\ DOMAIN copies["bookings"] = 1..SeedRows["bookings"]
      /\ SeedRows["bookings"] \in Nat \ {0} /\ SeedRows[SeedOrder[1]] \in Nat \ {0}
  BY SeedPlaces DEF SeedInv, SeedState, LastSeed
<1>4. SeedState'
  BY <1>1, <1>2, <1>3 DEF SeedInv, SeedState, SeedStatus, LastSeed
<1>5. BookingAhead'
  BY <1>1, <1>2, <1>3 DEF BookingAhead, Stored
<1>6. Progress'
  BY <1>2 DEF Progress
<1>7. ASSUME NEW k \in {10, 11}, NEW i \in 1..SeedRows[SeedOrder[k]],
             Stored(SeedOrder[k], i)
      PROVE  \E n \in 1..SeedRows["bookings"] : Stored("bookings", n)
  <2>1. SeedOrder[k] # "providers" /\ k \in DOMAIN SeedOrder /\ 9 \in 1..(k - 1)
    BY SeedPlaces DEF LastSeed
  <2>2. SeedComplete(SeedOrder[9])
    BY <1>7, <2>1 DEF SeedInv, SeedDependencies, SeedBegun
  <2> QED
    BY <1>3, <2>2, SeedPlaces DEF SeedComplete
<1>8. OwnRows(10)' /\ OwnRows(11)'
  BY <1>1, <1>2, <1>3, <1>7 DEF OwnRows, Stored
<1>9. SeedDependencies' /\ ProfilesMatched'
  BY <1>1 DEF SeedInv, SeedDependencies, ProfilesMatched, SeedBegun, SeedComplete,
              HasProfile, Stored
<1> QED
  BY <1>2, <1>4, <1>5, <1>6, <1>8, <1>9 DEF SeedInv, WhereRunsFail

\* Every step of the script keeps the invariant.
LEMMA SeedStepHolds ==
  ASSUME SeedInv, [SeedNext]_seedVars
  PROVE  SeedInv'
<1>1. CASE StartSeeds
  BY <1>1, StartHolds
<1>2. CASE KillSeeds
  BY <1>2, EndHolds DEF KillSeeds, SeedStatus
<1>3. CASE FinishSeeds
  <2>1. ~seedRun.late
    BY <1>3, SeedPlaces DEF FinishSeeds, SeedInv, BookingAhead, SeedState, LastSeed
  <2> QED
    BY <1>3, <2>1, EndHolds DEF FinishSeeds, SeedStatus
<1>4. CASE \/ SeedAdmin \/ SeedSystemSettings \/ SeedServiceCategories
           \/ SeedUsers \/ SeedWallets \/ SeedPromoCodes \/ SeedReviews
  BY <1>4, InsertMissingHolds
     DEF SeedAdmin, SeedSystemSettings, SeedServiceCategories, SeedUsers,
         SeedWallets, SeedPromoCodes, SeedReviews
<1>5. CASE SeedServices \/ SeedNotifications
  BY <1>5, AddRowHolds DEF SeedServices, SeedNotifications, InsertAlways
<1>6. ASSUME NEW u \in ProviderUsers, SeedProviders(u) PROVE SeedInv'
  <2>1. CASE HasProfile(u) \/ ~Taken(seedRun.row)
    BY <1>6, <2>1, SeedProvidersHolds
  <2>2. CASE ~(HasProfile(u) \/ ~Taken(seedRun.row))
    <3>1. Exit /\ At("providers") /\ ~SeedComplete("providers")
      BY <1>6, <2>2 DEF SeedProviders, SeedComplete
    <3> QED
      BY <3>1, EndHolds DEF Exit, At, SeedStatus
  <2> QED
    BY <2>1, <2>2
<1>7. CASE SeedBookings
  <2>1. CASE Stored("bookings", seedRun.row)
    BY <1>7, <2>1, EndHolds DEF SeedBookings, InsertUnique, Exit, At, SeedStatus
  <2>2. CASE ~Stored("bookings", seedRun.row)
    BY <1>7, <2>2, AddRowHolds DEF SeedBookings, InsertUnique
  <2> QED
    BY <2>1, <2>2
<1>8. ASSUME NEW k \in {10, 11}, InsertUnique(SeedOrder[k]) PROVE SeedInv'
  <2>1. At(SeedOrder[k]) /\ seedRun.status = "running"
    BY <1>8 DEF InsertUnique, At
  <2>2. /\ seedRun.seed = k /\ SeedOrder[k] \in Seeds
        /\ seedRun.row \in 1..SeedRows[SeedOrder[k]]
    <3>1. /\ k \in 1..LastSeed /\ seedRun.seed \in 1..LastSeed
          /\ SeedOrder[seedRun.seed] = SeedOrder[k]
      BY <2>1, SeedPlaces DEF At, SeedInv, SeedState, LastSeed
    <3>2. seedRun.seed = k /\ SeedOrder[k] \in Seeds
      BY <3>1, SeedPlaces
    <3> QED
      BY <3>1, <3>2, SeedPlaces DEF SeedInv, SeedState
  <2>3. ~seedRun.late
    BY <2>2 DEF SeedInv, BookingAhead
  <2>4. ~Stored(SeedOrder[k], seedRun.row)
    BY <2>1, <2>2, <2>3 DEF SeedInv, OwnRows
  <2> QED
    BY <1>8, <2>1, <2>4, AddRowHolds, SeedPlaces DEF InsertUnique
<1>9. CASE SeedPayments \/ SeedTransactions
  BY <1>8, <1>9, SeedPlaces DEF SeedPayments, SeedTransactions
<1>10. CASE UNCHANGED seedVars
  BY <1>10
     DEF seedVars, SeedInv, SeedState, Progress, BookingAhead, OwnRows,
         SeedDependencies, ProfilesMatched, WhereRunsFail, SeedBegun,
         SeedComplete, HasProfile, Stored
<1> QED
  BY <1>1, <1>2, <1>3, <1>4, <1>5, <1>6, <1>7, <1>9, <1>10 DEF SeedNext, RunSeeds

\* In every behaviour of the platform the invariant of the script holds.
LEMMA SeedsAlways == Spec => []SeedInv
<1>1. Init => SeedInv
  BY SeedInitHolds DEF Init
<1>2. SeedInv /\ [Next]_vars => SeedInv'
  <2> SUFFICES ASSUME SeedInv, [Next]_vars PROVE SeedInv'
    OBVIOUS
  <2>1. [SeedNext]_seedVars
    BY DEF Next, RunPart, vars, seedVars
  <2> QED
    BY <2>1, SeedStepHolds
<1> QED
  BY <1>1, <1>2, PTL DEF Spec

\* A row is stored only when every row it may refer to is, wherever runs were
\* killed before.
THEOREM ReferencesFirst == Spec => []SeedDependencies
<1>1. SeedInv => SeedDependencies
  BY DEF SeedInv
<1> QED
  BY <1>1, SeedsAlways, PTL

\* No profile goes to two users, whatever orders the queries return them in.
THEOREM ProfilesApart == Spec => []ProfilesMatched
<1>1. SeedInv => ProfilesMatched
  BY DEF SeedInv
<1> QED
  BY <1>1, SeedsAlways, PTL

\* Only bookings and providers can end a run: the unique numbers of payments
\* and transactions are never met twice.
THEOREM FailuresPlaced == Spec => []WhereRunsFail
<1>1. SeedInv => WhereRunsFail
  BY DEF SeedInv
<1> QED
  BY <1>1, SeedsAlways, PTL

\* A run that finds a booking stored never gets past the bookings.
THEOREM LateRunsEndEarly == Spec => []NeverFinished
<1>1. SeedInv => NeverFinished
  <2> SUFFICES ASSUME SeedInv, seedRun.late, NEW j \in DOMAIN SeedOrder,
                      NEW k \in DOMAIN SeedOrder, SeedOrder[j] = "bookings", j < k
               PROVE  seedRun.status # "done" /\ seedRun.seed < k
    BY DEF NeverFinished, SeedInv, BookingAhead
  <2>1. /\ j \in 1..LastSeed /\ k \in 1..LastSeed /\ 9 \in 1..LastSeed
        /\ SeedOrder[9] = "bookings"
    BY SeedPlaces DEF LastSeed
  <2>2. j = 9
    BY <2>1, SeedPlaces
  <2>3. seedRun.seed \in Nat /\ seedRun.seed <= 9 /\ seedRun.status # "done"
    BY DEF SeedInv, SeedState, BookingAhead, LastSeed
  <2> QED
    BY <2>1, <2>2, <2>3
<1> QED
  BY <1>1, SeedsAlways, PTL

(***************************************************************************)
(* The types.  A literal gets at most one row per run, because a run comes *)
(* by it once: what is ahead of a run has no row of that run yet.          *)
(***************************************************************************)
SeedRunRecords ==
  [status : SeedStatus, seed : 1..(LastSeed + 1), row : Nat,
   visited : SUBSET ProviderUsers, late : BOOLEAN]

Ahead(p, i) ==
  /\ seedRun.status = "running"
  /\ seedRun.seed < Place[p] \/ (seedRun.seed = Place[p] /\ seedRun.row <= i)

SeedBounds ==
  /\ seedRun \in SeedRunRecords
  /\ \A u \in ProviderUsers : profileOf[u] <= SeedRows["providers"]
  /\ seedStarts \in 0..MaxRuns /\ seedEnds \in Nat /\ seedEnds <= seedStarts
  /\ seedRun.status = "running" => seedEnds < seedStarts
  /\ \A p \in Seeds : \A i \in 1..SeedRows[p] :
       /\ copies[p][i] <= seedStarts
       /\ Ahead(p, i) => copies[p][i] < seedStarts

\* What the invariants say of the types.
LEMMA SeedTypes == SeedInv /\ SeedBounds => SeedTypeOK
<1> SUFFICES ASSUME SeedInv, SeedBounds PROVE SeedTypeOK
  OBVIOUS
<1>1. MaxRuns \in Nat /\ seedStarts \in 0..MaxRuns /\ seedEnds \in 0..MaxRuns
  BY SeedingAssumption DEF SeedBounds
<1>2. ASSUME NEW p \in Seeds PROVE copies[p] \in [1..SeedRows[p] -> 0..MaxRuns]
  <2>1. copies[p] \in [1..SeedRows[p] -> Nat]
    BY DEF SeedInv, SeedState
  <2>2. \A i \in 1..SeedRows[p] : copies[p][i] <= seedStarts
    BY DEF SeedBounds
  <2>3. ASSUME NEW i \in 1..SeedRows[p] PROVE copies[p][i] \in 0..MaxRuns
    <3>1. copies[p][i] \in Nat /\ copies[p][i] <= seedStarts
      BY <2>1, <2>2
    <3> QED
      BY <1>1, <3>1
  <2> QED
    BY <2>1, <2>3
<1>3. profileOf \in [ProviderUsers -> 0..SeedRows["providers"]]
  <2>1. /\ profileOf \in [ProviderUsers -> Nat]
        /\ \A u \in ProviderUsers : profileOf[u] <= SeedRows["providers"]
        /\ SeedRows["providers"] \in Nat
    BY SeedPlaces DEF SeedInv, SeedState, SeedBounds, LastSeed
  <2> QED
    BY <2>1
<1> QED
  BY <1>1, <1>2, <1>3, SeedPlaces
     DEF SeedTypeOK, SeedInv, SeedState, SeedBounds, SeedRunRecords, LastSeed

\* The record of the run is what its members say.
LEMMA RunRecord ==
  ASSUME SeedState', seedRun' = [status |-> seedRun'.status, seed |-> seedRun'.seed,
           row |-> seedRun'.row, visited |-> seedRun'.visited, late |-> seedRun'.late]
  PROVE  seedRun' \in SeedRunRecords
BY DEF SeedState, SeedRunRecords

\* An iteration: its own literal is no longer ahead, and gets one row at most.
LEMMA IterationBounds ==
  ASSUME SeedInv, SeedBounds, SeedState', NEW p, At(p),
         NEW u \in SUBSET ProviderUsers, NextRow(p, u),
         UNCHANGED <<seedStarts, seedEnds>>,
         UNCHANGED copies \/ copies' = [copies EXCEPT ![p][seedRun.row] = @ + 1],
         \A v \in ProviderUsers : profileOf'[v] <= SeedRows["providers"]
  PROVE  SeedBounds'
<1>1. /\ seedRun.status = "running" /\ seedRun.seed \in 1..LastSeed
      /\ p = SeedOrder[seedRun.seed] /\ p \in Seeds /\ Place[p] = seedRun.seed
      /\ seedRun.row \in 1..SeedRows[p] /\ SeedRows[p] \in Nat \ {0}
      /\ seedRun'.status = "running" /\ seedRun'.late = seedRun.late
      /\ \/ /\ seedRun.row < SeedRows[p] /\ seedRun'.seed = seedRun.seed
            /\ seedRun'.row = seedRun.row + 1
         \/ /\ seedRun.row = SeedRows[p] /\ seedRun'.seed = seedRun.seed + 1
            /\ seedRun'.row = 1
  BY Advance DEF SeedInv
<1>2. seedRun' \in SeedRunRecords
  <2>1. seedRun \in SeedRunRecords
    BY DEF SeedBounds
  <2>2. CASE seedRun.row < SeedRows[p]
    <3>1. seedRun' = [seedRun EXCEPT !.row = seedRun.row + 1,
                                     !.visited = seedRun.visited \cup u]
      BY <2>2 DEF NextRow
    <3>2. seedRun.visited \cup u \in SUBSET ProviderUsers /\ seedRun.row + 1 \in Nat
      BY <1>1, <2>1 DEF SeedRunRecords
    <3> QED
      BY <2>1, <3>1, <3>2 DEF SeedRunRecords
  <2>3. CASE ~(seedRun.row < SeedRows[p])
    <3>1. seedRun' = [seedRun EXCEPT !.row = 1, !.seed = seedRun.seed + 1,
                                     !.visited = {}]
      BY <2>3 DEF NextRow
    <3>2. seedRun.seed + 1 \in 1..(LastSeed + 1)
      BY <1>1 DEF LastSeed
    <3> QED
      BY <2>1, <3>1, <3>2 DEF SeedRunRecords
  <2> QED
    BY <2>2, <2>3
<1>3. ASSUME NEW q \in Seeds, NEW i \in 1..SeedRows[q]
      PROVE  /\ copies'[q][i] <= seedStarts
             /\ Ahead(q, i)' => copies'[q][i] < seedStarts
  <2>1. /\ copies[q][i] \in Nat /\ copies[q][i] <= seedStarts /\ seedStarts \in Nat
        /\ Ahead(q, i) => copies[q][i] < seedStarts
        /\ Place[q] \in 1..LastSeed /\ SeedRows[q] \in Nat
    <3>1. \E k \in 1..LastSeed : q = SeedOrder[k]
      BY SeedPlaces DEF Seeds
    <3>2. Place[q] \in 1..LastSeed
      BY <3>1, SeedPlaces
    <3>3. SeedRows[q] \in Nat
      BY SeedPlaces
    <3>4. /\ copies[q][i] <= seedStarts /\ seedStarts \in Nat
          /\ Ahead(q, i) => copies[q][i] < seedStarts
      BY SeedingAssumption DEF SeedBounds
    <3>5. copies[q][i] \in Nat
      BY DEF SeedInv, SeedState
    <3> QED
      BY <3>2, <3>3, <3>4, <3>5
  <2>2. Ahead(q, i)' => Ahead(q, i) /\ (q # p \/ i # seedRun.row)
    BY <1>1, <2>1 DEF Ahead
  <2>3. CASE q = p /\ i = seedRun.row
    <3>1. Ahead(q, i)
      BY <1>1, <2>3 DEF Ahead
    <3>2. copies'[q][i] \in {copies[q][i], copies[q][i] + 1}
      BY <1>1, <2>1, <2>3 DEF SeedInv, SeedState
    <3> QED
      BY <2>1, <2>2, <2>3, <3>1, <3>2
  <2>4. CASE q # p \/ i # seedRun.row
    <3>1. copies'[q][i] = copies[q][i]
      BY <1>1, <2>4 DEF SeedInv, SeedState
    <3> QED
      BY <2>1, <2>2, <3>1
  <2> QED
    BY <2>3, <2>4
<1> QED
  BY <1>1, <1>2, <1>3 DEF SeedBounds

\* A run that ends adds no row.
LEMMA EndBounds ==
  ASSUME SeedInv, SeedBounds, seedRun.status = "running",
         NEW status \in SeedStatus \ {"running"},
         seedRun' = [seedRun EXCEPT !.status = status],
         UNCHANGED <<copies, profileOf, seedStarts>>,
         seedEnds' \in {seedEnds, seedEnds + 1}
  PROVE  SeedBounds'
<1>1. seedRun' \in SeedRunRecords /\ seedRun'.status = status
  BY DEF SeedBounds, SeedRunRecords
<1>2. /\ seedEnds' \in Nat /\ seedEnds' <= seedStarts' /\ seedStarts' \in 0..MaxRuns
      /\ \A p \in Seeds : \A i \in 1..SeedRows[p] : copies'[p][i] <= seedStarts'
      /\ \A u \in ProviderUsers : profileOf'[u] <= SeedRows["providers"]
  BY SeedingAssumption DEF SeedBounds
<1> QED
  BY <1>1, <1>2 DEF SeedBounds, Ahead

\* A run that starts has everything ahead of it.
LEMMA StartBounds ==
  ASSUME SeedInv, SeedBounds, StartSeeds
  PROVE  SeedBounds'
<1>1. /\ seedRun' = [status |-> "running", seed |-> 1, row |-> 1, visited |-> {},
                     late |-> \E i \in DOMAIN copies["bookings"] :
                                Stored("bookings", i)]
      /\ seedStarts < MaxRuns /\ seedStarts' = seedStarts + 1
      /\ UNCHANGED <<copies, profileOf, seedEnds>>
  BY DEF StartSeeds
<1>2. seedRun' \in SeedRunRecords
  BY <1>1 DEF SeedRunRecords, SeedStatus, LastSeed
<1>3. /\ MaxRuns \in Nat /\ seedStarts \in 0..MaxRuns /\ seedEnds \in Nat
      /\ seedEnds <= seedStarts
  BY SeedingAssumption DEF SeedBounds
<1>4. /\ seedStarts' \in 0..MaxRuns /\ seedEnds' \in Nat /\ seedEnds' < seedStarts'
  BY <1>1, <1>3
<1>5. ASSUME NEW p \in Seeds, NEW i \in 1..SeedRows[p]
      PROVE  copies'[p][i] < seedStarts' /\ copies'[p][i] <= seedStarts'
  <2>1. copies[p] \in [1..SeedRows[p] -> Nat]
    BY DEF SeedInv, SeedState
  <2>2. copies[p][i] \in Nat /\ copies[p][i] <= seedStarts
    BY <2>1 DEF SeedBounds
  <2> QED
    BY <1>1, <1>3, <2>2
<1> QED
  BY <1>1, <1>2, <1>3, <1>4, <1>5 DEF SeedBounds

\* Every step of the script keeps the bounds.
LEMMA SeedStepBounds ==
  ASSUME SeedInv, SeedBounds, SeedInv', [SeedNext]_seedVars
  PROVE  SeedBounds'
<1> DEFINE Typed == \A v \in ProviderUsers : profileOf'[v] <= SeedRows["providers"]
<1>1. SeedState' /\ {} \in SUBSET ProviderUsers
  BY DEF SeedInv
<1>2. UNCHANGED profileOf => Typed
  BY DEF SeedBounds
<1>3. ASSUME NEW p, At(p), AddRow(p) \/ SkipRow(p) PROVE SeedBounds'
  BY <1>1, <1>2, <1>3, IterationBounds DEF AddRow, SkipRow
<1>4. ASSUME NEW p, At(p), Exit PROVE SeedBounds'
  BY <1>4, EndBounds DEF Exit, At, SeedStatus
<1>5. ASSUME NEW p, InsertMissing(p) \/ InsertUnique(p) \/ InsertAlways(p)
      PROVE  SeedBounds'
  BY <1>3, <1>4, <1>5 DEF InsertMissing, InsertUnique, InsertAlways
<1>6. ASSUME NEW u \in ProviderUsers, SeedProviders(u) PROVE SeedBounds'
  <2>1. At("providers")
    BY <1>6 DEF SeedProviders
  <2>2. CASE Exit
    BY <1>4, <2>1, <2>2
  <2>3. CASE Profile(u, seedRun.row)
    <3>1. /\ NextRow("providers", {u}) /\ UNCHANGED <<copies, seedStarts, seedEnds>>
          /\ profileOf' = IF HasProfile(u) THEN profileOf
                                           ELSE [profileOf EXCEPT ![u] = seedRun.row]
      BY <2>3 DEF Profile
    <3>2. seedRun.row \in 1..SeedRows["providers"]
      BY <2>1, <3>1, Advance DEF SeedInv
    <3>3. Typed
      BY <3>1, <3>2 DEF SeedInv, SeedState, SeedBounds
    <3> QED
      BY <1>1, <2>1, <3>1, <3>3, IterationBounds
  <2> QED
    BY <1>6, <2>2, <2>3 DEF SeedProviders
<1>7. CASE StartSeeds
  BY <1>7, StartBounds
<1>8. CASE KillSeeds
  BY <1>8, EndBounds DEF KillSeeds, SeedStatus
<1>9. CASE FinishSeeds
  BY <1>9, EndBounds DEF FinishSeeds, SeedStatus
<1>10. CASE \/ SeedAdmin \/ SeedSystemSettings \/ SeedServiceCategories
            \/ SeedUsers \/ SeedWallets \/ SeedPromoCodes \/ SeedReviews
  BY <1>5, <1>10
     DEF SeedAdmin, SeedSystemSettings, SeedServiceCategories, SeedUsers,
         SeedWallets, SeedPromoCodes, SeedReviews
<1>11. CASE \/ SeedServices \/ SeedNotifications \/ SeedBookings
            \/ SeedPayments \/ SeedTransactions
  BY <1>5, <1>11 DEF SeedServices, SeedNotifications, SeedBookings, SeedPayments,
                     SeedTransactions
<1>12. CASE UNCHANGED seedVars
  BY <1>12 DEF seedVars, SeedBounds, Ahead
<1> QED
  BY <1>6, <1>7, <1>8, <1>9, <1>10, <1>11, <1>12 DEF SeedNext, RunSeeds

\* In every behaviour of the platform the script keeps to its types.
LEMMA SeedsTyped == Spec => []SeedTypeOK
<1>1. Init => SeedInv /\ SeedBounds
  <2> SUFFICES ASSUME SeedInit PROVE SeedInv /\ SeedBounds
    BY DEF Init
  <2>1. SeedInv /\ SeedRows["providers"] \in Nat /\ MaxRuns \in Nat
    BY SeedInitHolds, SeedPlaces, SeedingAssumption DEF LastSeed
  <2> QED
    BY <2>1 DEF SeedInit, SeedBounds, SeedRunRecords, SeedStatus, LastSeed, Ahead
<1>2. SeedInv /\ SeedBounds /\ [Next]_vars => (SeedInv /\ SeedBounds)'
  <2> SUFFICES ASSUME SeedInv, SeedBounds, [Next]_vars
               PROVE  (SeedInv /\ SeedBounds)'
    OBVIOUS
  <2>1. [SeedNext]_seedVars
    BY DEF Next, RunPart, vars, seedVars
  <2> QED
    BY <2>1, SeedStepHolds, SeedStepBounds
<1> QED
  BY <1>1, <1>2, SeedTypes, PTL DEF Spec
=============================================================================
