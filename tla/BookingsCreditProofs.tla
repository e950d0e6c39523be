------------------------ MODULE BookingsCreditProofs ------------------------
(***************************************************************************)
(* What holds of the provider's counters for any tables, any number of     *)
(* calls and any degree of concurrency: complete saves the counters of an  *)
(* entity it loaded long before, so completions may be lost, but the two   *)
(* counters lose the same ones, and none is invented.                      *)
(***************************************************************************)
EXTENDS BookingsProofs

(***************************************************************************)
(* The two counters.  They agree on a row when both are as far from their  *)
(* seeded values.  They agree on every row and on every entity, and the    *)
(* UPDATE of an entity writes both or neither.                             *)
(***************************************************************************)
Agree(row, p) ==
  row.totalBookings + ProviderSeed[p].completedBookings
    = row.completedBookings + ProviderSeed[p].totalBookings

Completing(c) == pc[c] \in Waiting /\ op[c] = "complete"

AgreeInv ==
  /\ \A p \in Providers : Agree(provider[p], p)
  /\ \A c \in Calls : Completing(c) => Agree(account[c], ProviderOf[target[c]])
  /\ \A c \in Calls : pc[c] = "crediting" =>
       ("totalBookings" \in changed[c] <=> "completedBookings" \in changed[c])

\* A call that loads a booking to do anything but complete it has no entity of
\* a provider, and writes nothing.
LEMMA AgreeLoad ==
  ASSUME Typed, AgreeInv, NEW c \in Calls, NEW b \in Bookings, LoadStep(c, b)
  PROVE  AgreeInv'
BY DEF Typed, TypeOK, AgreeInv, Completing, LoadStep, LoadAs, tables

\* A call that ends, and has not changed the table, leaves its entity behind.
LEMMA AgreeEnd ==
  ASSUME Typed, AgreeInv, NEW c \in Calls, NEW outcome \in Ended,
         EndCall(c, outcome), \A p \in Providers : Agree(provider'[p], p)
  PROVE  AgreeInv'
BY DEF Typed, TypeOK, AgreeInv, Completing, EndCall, Waiting, Ended

\* Every step keeps the counters in agreement.
LEMMA AgreeStep == Typed /\ AgreeInv /\ [Next]_vars => AgreeInv'
<1> SUFFICES ASSUME Typed, AgreeInv, [Next]_vars PROVE AgreeInv'
  OBVIOUS
<1> USE DEF Typed
<1>1. ASSUME NEW c \in Calls, NEW b \in Bookings, Request(c, b) PROVE AgreeInv'
  <2>1. CASE LoadStep(c, b)
    BY <2>1, AgreeLoad
  <2>2. CASE Complete(c, b)
    <3>1. ProviderOf[b] \in Providers
      BY BookingsAssumption
    <3> QED
      BY <2>2, <3>1 DEF Complete, TypeOK, AgreeInv, Completing, tables
  <2>3. CASE \E o \in Op : Refuse(c, o, b)
    BY <2>3 DEF Refuse, TypeOK, AgreeInv, Completing, tables, Waiting
  <2> QED
    BY <1>1, <2>1, <2>2, <2>3, LoadSteps DEF Request
<1>2. ASSUME NEW c \in Calls, CompleteLoad(c) PROVE AgreeInv'
  <2>1. CASE EndCall(c, "refused")
    BY <1>2, <2>1, AgreeEnd DEF CompleteLoad, AgreeInv, tables, Ended
  <2>2. CASE pc' = [pc EXCEPT ![c] = "loaded"]
             /\ UNCHANGED <<op, target, account, changed>>
    BY <1>2, <2>2 DEF CompleteLoad, TypeOK, AgreeInv, Completing, tables, Waiting
  <2> QED
    BY <1>2, <2>1, <2>2 DEF CompleteLoad
<1>3. ASSUME NEW c \in Calls, SaveSelect(c) PROVE AgreeInv'
  BY <1>3 DEF SaveSelect, TypeOK, AgreeInv, Completing, tables, Waiting
<1>4. ASSUME NEW c \in Calls, SaveUpdate(c) PROVE AgreeInv'
  <2>1. CASE EndCall(c, "ok")
    BY <1>4, <2>1, AgreeEnd DEF SaveUpdate, AgreeInv, Ended
  <2>2. CASE pc' = [pc EXCEPT ![c] = "saved"]
             /\ UNCHANGED <<op, target, entity, account, changed>>
    BY <1>4, <2>2 DEF SaveUpdate, TypeOK, AgreeInv, Completing, Waiting
  <2> QED
    BY <1>4, <2>1, <2>2 DEF SaveUpdate
<1>5. ASSUME NEW c \in Calls, RecordTimeline(c) PROVE AgreeInv'
  <2>1. CASE EndCall(c, "ok")
    BY <1>5, <2>1, AgreeEnd DEF RecordTimeline, AgreeInv, Ended
  <2>2. CASE pc' = [pc EXCEPT ![c] = "credit"]
             /\ UNCHANGED <<op, target, entity, account, changed>>
    BY <1>5, <2>2 DEF RecordTimeline, TypeOK, AgreeInv, Completing, Waiting
  <2> QED
    BY <1>5, <2>1, <2>2 DEF RecordTimeline
<1>6. ASSUME NEW c \in Calls, CreditSelect(c) PROVE AgreeInv'
  <2> DEFINE b == target[c]
             p == ProviderOf[b]
             credited == Credited(account[c], b)
             cols == Changed(credited, provider[p], {"pendingEarnings"})
  <2>1. /\ pc[c] = "credit" /\ b \in Bookings /\ p \in Providers
        /\ op[c] = "complete" /\ account[c] \in ProviderRow
        /\ provider[p] \in ProviderRow /\ ProviderSeed[p] \in ProviderRow
    BY <1>6, BookingsAssumption DEF CreditSelect, TypeOK, CallOK, Waiting
  <2>2. /\ credited \in ProviderRow
        /\ credited.totalBookings = account[c].totalBookings + 1
        /\ credited.completedBookings = account[c].completedBookings + 1
    BY <2>1, CreditedProvider
  <2>3. /\ "totalBookings" \in cols
             <=> credited.totalBookings # provider[p].totalBookings
        /\ "completedBookings" \in cols
             <=> credited.completedBookings # provider[p].completedBookings
    BY <2>1, <2>2, ChangedProvider
  <2>4. Agree(account[c], p) /\ Agree(provider[p], p)
    BY <2>1 DEF AgreeInv, Completing, Waiting
  <2>5. Agree(credited, p)
    BY <2>1, <2>2, <2>4 DEF Agree, ProviderRow
  <2>6. "totalBookings" \in cols <=> "completedBookings" \in cols
    BY <2>1, <2>2, <2>3, <2>4, <2>5 DEF Agree, ProviderRow
  <2>7. /\ pc' = [pc EXCEPT ![c] = "crediting"]
        /\ account' = [account EXCEPT ![c] = credited]
        /\ changed' = [changed EXCEPT ![c] = cols]
        /\ UNCHANGED <<provider, op, target>>
    BY <1>6 DEF CreditSelect, tables
  <2>8. p = ProviderOf[target[c]]
    OBVIOUS
  <2> HIDE DEF b, p, credited, cols
  <2> QED
    BY <2>1, <2>5, <2>6, <2>7, <2>8 DEF AgreeInv, Completing, TypeOK, Waiting
<1>7. ASSUME NEW c \in Calls, CreditUpdate(c) PROVE AgreeInv'
  <2> DEFINE p == ProviderOf[target[c]]
             row == Updated(provider[p], account[c], changed[c])
  <2>1. /\ pc[c] = "crediting" /\ p \in Providers
        /\ op[c] = "complete" /\ account[c] \in ProviderRow
        /\ provider[p] \in ProviderRow
    BY <1>7, BookingsAssumption DEF CreditUpdate, TypeOK, CallOK, Waiting
  <2>2. Agree(account[c], p) /\ Agree(provider[p], p)
        /\ ("totalBookings" \in changed[c] <=> "completedBookings" \in changed[c])
    BY <2>1 DEF AgreeInv, Completing, Waiting
  <2>3. Agree(row, p)
    BY <2>1, <2>2, UpdatedProvider DEF Agree
  <2>4. provider' = [provider EXCEPT ![p] = row] \/ UNCHANGED provider
    BY <1>7 DEF CreditUpdate
  <2>5. \A q \in Providers : Agree(provider'[q], q)
    <3> HIDE DEF p, row
    <3> QED
      BY <2>1, <2>3, <2>4 DEF AgreeInv, TypeOK
  <2>6. \E outcome \in Ended : EndCall(c, outcome)
    BY <1>7 DEF CreditUpdate, Ended
  <2> QED
    BY <2>5, <2>6, AgreeEnd
<1>8. ASSUME NEW c \in Calls, Fail(c) PROVE AgreeInv'
  BY <1>8, AgreeEnd DEF Fail, AgreeInv, tables, Ended
<1>9. ASSUME NEW b \in Bookings, TimePasses(b) PROVE AgreeInv'
  BY <1>9 DEF TimePasses, AgreeInv, Completing, tables, calls
<1>10. CASE UNCHANGED vars
  BY <1>10 DEF vars, tables, calls, AgreeInv, Completing
<1> QED
  BY <1>1, <1>2, <1>3, <1>4, <1>5, <1>6, <1>7, <1>8, <1>9, <1>10
     DEF Next, Continue

\* The seeded rows agree with themselves.
LEMMA AgreeInit == Init => AgreeInv
BY BookingsAssumption DEF Init, AgreeInv, Agree, Completing, Waiting, ProviderRow

\* complete counts a booking in both counters of its provider or in neither,
\* for any number of interleaved completions and failures.
THEOREM CountersTogether == Spec => []CountersAgree
<1>1. AgreeInv => CountersAgree
  BY DEF AgreeInv, Agree, CountersAgree
<1>2. Spec => [](Typed /\ AgreeInv)
  BY TypedInit, TypedStep, AgreeInit, AgreeStep, PTL DEF Spec
<1> QED
  BY <1>1, <1>2, PTL

-----------------------------------------------------------------------------
(***************************************************************************)
(* No completion is invented.  An entity was loaded before its call wrote  *)
(* its row of the timeline, so it counts at most the rows of others, and   *)
(* one more once it is credited, when the call's own row is there.         *)
(***************************************************************************)
Before(c) == {t \in Completions(ProviderOf[target[c]]) : t.call # c}

Counts(row, p, rows) ==
  row.completedBookings <= ProviderSeed[p].completedBookings + Cardinality(rows)

TimelineInv ==
  /\ IsFiniteSet(timeline)
  /\ \A t \in timeline : pc[t.call] \in {"credit", "crediting"} \cup Ended
  /\ \A c \in Calls : Completing(c) /\ pc[c] # "account"
                        => entity[c].status = "COMPLETED"
  /\ \A c \in Calls : pc[c] \in {"credit", "crediting"} =>
       \E t \in timeline : /\ t.call = c /\ t.status = "COMPLETED"
                           /\ t.booking = target[c]

CountInv ==
  /\ NeverOvercounted
  /\ \A c \in Calls : Completing(c) /\ pc[c] # "crediting"
                        => Counts(account[c], ProviderOf[target[c]], Before(c))
  /\ \A c \in Calls : pc[c] = "crediting"
                        => Counts(account[c], ProviderOf[target[c]],
                                  Completions(ProviderOf[target[c]]))

\* A call that loads a booking to do anything but complete it has no row of
\* the timeline.
LEMMA TimelineLoad ==
  ASSUME Typed, TimelineInv, NEW c \in Calls, NEW b \in Bookings, LoadStep(c, b)
  PROVE  TimelineInv'
BY DEF Typed, TypeOK, TimelineInv, Completing, LoadStep, LoadAs, CanStart, tables,
       Ended, Waiting, TimelineRow

\* A call that ends and leaves the timeline alone.
LEMMA TimelineEnd ==
  ASSUME Typed, TimelineInv, NEW c \in Calls, NEW outcome \in Ended,
         EndCall(c, outcome), UNCHANGED timeline
  PROVE  TimelineInv'
BY DEF Typed, TypeOK, TimelineInv, Completing, EndCall, Waiting, Ended, TimelineRow

\* A call writes one row of the timeline, and complete writes it before it
\* credits the provider.
LEMMA TimelineStep == Typed /\ TimelineInv /\ [Next]_vars => TimelineInv'
<1> SUFFICES ASSUME Typed, TimelineInv, [Next]_vars PROVE TimelineInv'
  OBVIOUS
<1> USE DEF Typed
<1>1. ASSUME NEW c \in Calls, NEW b \in Bookings, Request(c, b) PROVE TimelineInv'
  <2>1. CASE LoadStep(c, b)
    BY <2>1, TimelineLoad
  <2>2. CASE Complete(c, b)
    BY <2>2 DEF Complete, CanStart, TypeOK, TimelineInv, Completing, tables, Ended,
                Waiting, TimelineRow
  <2>3. CASE \E o \in Op : Refuse(c, o, b)
    BY <2>3 DEF Refuse, CanStart, TypeOK, TimelineInv, Completing, tables, Ended,
                Waiting, TimelineRow
  <2> QED
    BY <1>1, <2>1, <2>2, <2>3, LoadSteps DEF Request
<1>2. ASSUME NEW c \in Calls, CompleteLoad(c) PROVE TimelineInv'
  <2>1. CASE EndCall(c, "refused")
    BY <1>2, <2>1, TimelineEnd DEF CompleteLoad, tables, Ended
  <2>2. CASE booking[target[c]].status \in Admitted["complete"]
    <3> DEFINE e == Assign(booking[target[c]],
                           [status |-> "COMPLETED", completedAt |-> TRUE])
    <3>1. booking[target[c]] \in BookingRow
      BY <1>2 DEF CompleteLoad, TypeOK, CallOK, Waiting
    <3>2. e.status = "COMPLETED"
      BY <3>1 DEF Assign, BookingRow
    <3>3. /\ pc[c] = "account" /\ pc' = [pc EXCEPT ![c] = "loaded"]
          /\ entity' = [entity EXCEPT ![c] = e]
          /\ UNCHANGED <<timeline, op, target>>
      BY <1>2, <2>2 DEF CompleteLoad, tables
    <3> HIDE DEF e
    <3> QED
      BY <3>2, <3>3 DEF TypeOK, TimelineInv, Completing, Waiting, Ended, TimelineRow
  <2> QED
    BY <1>2, <2>1, <2>2 DEF CompleteLoad
<1>3. ASSUME NEW c \in Calls, SaveSelect(c) PROVE TimelineInv'
  BY <1>3 DEF SaveSelect, TypeOK, TimelineInv, Completing, tables, Waiting, Ended,
              TimelineRow
<1>4. ASSUME NEW c \in Calls, SaveUpdate(c) PROVE TimelineInv'
  <2>1. CASE EndCall(c, "ok")
    BY <1>4, <2>1, TimelineEnd DEF SaveUpdate, Ended
  <2>2. CASE pc' = [pc EXCEPT ![c] = "saved"]
             /\ UNCHANGED <<op, target, entity, account, changed>>
    BY <1>4, <2>2 DEF SaveUpdate, TypeOK, TimelineInv, Completing, Waiting, Ended,
                      TimelineRow
  <2> QED
    BY <1>4, <2>1, <2>2 DEF SaveUpdate
<1>5. ASSUME NEW c \in Calls, RecordTimeline(c) PROVE TimelineInv'
  <2> DEFINE t == [call |-> c, booking |-> target[c], status |-> entity[c].status]
  <2>1. /\ pc[c] = "saved" /\ timeline' = timeline \cup {t}
        /\ t.call = c /\ t.booking = target[c] /\ t.status = entity[c].status
    BY <1>5 DEF RecordTimeline
  <2> HIDE DEF t
  <2>2. IsFiniteSet(timeline')
    <3>1. IsFiniteSet(timeline)
      BY DEF TimelineInv
    <3>2. IsFiniteSet(timeline \cup {t})
      BY <3>1, FS_AddElement
    <3> QED
      BY <2>1, <3>2
  <2>3. CASE EndCall(c, "ok")
    BY <2>1, <2>2, <2>3 DEF EndCall, TypeOK, TimelineInv, Completing, Waiting, Ended,
                            TimelineRow
  <2>4. CASE /\ op[c] = "complete" /\ pc' = [pc EXCEPT ![c] = "credit"]
             /\ UNCHANGED <<op, target, entity, account, changed>>
    BY <2>1, <2>2, <2>4 DEF TypeOK, TimelineInv, Completing, Waiting, Ended,
                            TimelineRow
  <2> QED
    BY <1>5, <2>3, <2>4 DEF RecordTimeline
<1>6. ASSUME NEW c \in Calls, CreditSelect(c) PROVE TimelineInv'
  BY <1>6 DEF CreditSelect, TypeOK, TimelineInv, Completing, tables, Waiting, Ended,
              TimelineRow
<1>7. ASSUME NEW c \in Calls, CreditUpdate(c) PROVE TimelineInv'
  BY <1>7, TimelineEnd DEF CreditUpdate, Ended
<1>8. ASSUME NEW c \in Calls, Fail(c) PROVE TimelineInv'
  BY <1>8, TimelineEnd DEF Fail, tables, Ended
<1>9. ASSUME NEW b \in Bookings, TimePasses(b) PROVE TimelineInv'
  BY <1>9 DEF TimePasses, TimelineInv, Completing, tables, calls
<1>10. CASE UNCHANGED vars
  BY <1>10 DEF vars, tables, calls, TimelineInv, Completing
<1> QED
  BY <1>1, <1>2, <1>3, <1>4, <1>5, <1>6, <1>7, <1>8, <1>9, <1>10
     DEF Next, Continue

\* Sets of rows of the timeline: fewer rows, no greater a number.
LEMMA FewerRows ==
  ASSUME NEW T, IsFiniteSet(T), NEW S, S \subseteq T
  PROVE  /\ Cardinality(S) \in Nat /\ Cardinality(T) \in Nat
         /\ Cardinality(S) <= Cardinality(T)
BY FS_Subset, FS_CardinalityType

\* A bound on a counter stays one when rows are added to the timeline.
LEMMA CountsGrow ==
  ASSUME NEW row \in ProviderRow, NEW p \in Providers, NEW T, IsFiniteSet(T),
         NEW S, S \subseteq T, Counts(row, p, S)
  PROVE  Counts(row, p, T)
<1>1. Cardinality(S) \in Nat /\ Cardinality(T) \in Nat /\ Cardinality(S) <= Cardinality(T)
  BY FewerRows
<1>2. ProviderSeed[p].completedBookings \in Nat /\ row.completedBookings \in Nat
  BY BookingsAssumption DEF ProviderRow
<1> QED
  BY <1>1, <1>2 DEF Counts

\* The sets CountInv counts are finite.
LEMMA RowsFinite ==
  ASSUME TimelineInv
  PROVE  /\ \A p : IsFiniteSet(Completions(p))
         /\ \A c : IsFiniteSet(Before(c))
<1>1. IsFiniteSet(timeline)
  BY DEF TimelineInv
<1>2. \A p : IsFiniteSet(Completions(p))
  <2>1. \A p : Completions(p) \subseteq timeline
    BY DEF Completions
  <2> QED
    BY <1>1, <2>1, FS_Subset
<1>3. \A c : IsFiniteSet(Before(c))
  <2>1. \A c : Before(c) \subseteq timeline
    BY DEF Before, Completions
  <2> QED
    BY <1>1, <2>1, FS_Subset
<1> QED
  BY <1>2, <1>3

\* A step of call c that leaves provider and timeline alone and the entities of
\* other calls too: what it must show of its own entity.
LEMMA CountKept ==
  ASSUME Typed, CountInv, UNCHANGED <<provider, timeline>>, NEW c \in Calls,
         \A d \in Calls \ {c} : /\ pc'[d] = pc[d] /\ op'[d] = op[d]
                                /\ target'[d] = target[d] /\ account'[d] = account[d],
         (Completing(c) /\ pc[c] # "crediting")'
           => Counts(account[c], ProviderOf[target[c]], Before(c))',
         (pc[c] = "crediting")'
           => Counts(account[c], ProviderOf[target[c]],
                     Completions(ProviderOf[target[c]]))'
  PROVE  CountInv'
<1>1. NeverOvercounted'
  BY DEF CountInv, NeverOvercounted, Completions
<1>2. \A p : Completions(p)' = Completions(p)
  BY DEF Completions
<1>3. ASSUME NEW d \in Calls \ {c}
      PROVE  /\ Completing(d)' <=> Completing(d)
             /\ Before(d)' = Before(d)
             /\ ProviderOf[target[d]]' = ProviderOf[target[d]]
             /\ account[d]' = account[d] /\ pc[d]' = pc[d]
  BY <1>2 DEF Completing, Before, Completions
<1>4. ASSUME NEW d \in Calls, (Completing(d) /\ pc[d] # "crediting")'
      PROVE  Counts(account[d], ProviderOf[target[d]], Before(d))'
  <2>1. CASE d = c
    BY <1>4, <2>1
  <2>2. CASE d # c
    BY <1>3, <1>4, <2>2 DEF CountInv, Counts
  <2> QED
    BY <2>1, <2>2
<1>5. ASSUME NEW d \in Calls, (pc[d] = "crediting")'
      PROVE  Counts(account[d], ProviderOf[target[d]],
                    Completions(ProviderOf[target[d]]))'
  <2>1. CASE d = c
    BY <1>5, <2>1
  <2>2. CASE d # c
    BY <1>2, <1>3, <1>5, <2>2 DEF CountInv, Counts, Completions
  <2> QED
    BY <2>1, <2>2
<1> QED
  BY <1>1, <1>4, <1>5 DEF CountInv

\* Every step keeps the counters below what the timeline shows.
LEMMA CountStep ==
  Typed /\ TimelineInv /\ CountInv /\ [Next]_vars => CountInv'
<1> SUFFICES ASSUME Typed, TimelineInv, CountInv, [Next]_vars PROVE CountInv'
  OBVIOUS
<1> USE DEF Typed
<1>1. ASSUME NEW c \in Calls, NEW b \in Bookings, Request(c, b) PROVE CountInv'
  <2>1. CASE LoadStep(c, b)
    BY <2>1, CountKept DEF LoadStep, LoadAs, TypeOK, Completing, tables
  <2>2. CASE Complete(c, b)
    <3> DEFINE p == ProviderOf[b]
    <3>1. /\ pc[c] = "idle" /\ pc'[c] = "account" /\ target'[c] = b
          /\ account'[c] = provider[p]
          /\ p \in Providers /\ UNCHANGED <<provider, timeline>>
      BY <2>2, BookingsAssumption DEF Complete, CanStart, TypeOK, tables
    <3>2. Before(c)' = Completions(p)
      BY <3>1 DEF TimelineInv, Before, Completions, Ended
    <3>3. Counts(account[c], ProviderOf[target[c]], Before(c))'
      BY <3>1, <3>2 DEF CountInv, NeverOvercounted, Counts
    <3>4. \A d \in Calls \ {c} :
            /\ pc'[d] = pc[d] /\ op'[d] = op[d]
            /\ target'[d] = target[d] /\ account'[d] = account[d]
      BY <2>2 DEF Complete, TypeOK
    <3> QED
      BY <3>1, <3>3, <3>4, CountKept
  <2>3. CASE \E o \in Op : Refuse(c, o, b)
    BY <2>3, CountKept DEF Refuse, TypeOK, Completing, tables, Waiting
  <2> QED
    BY <1>1, <2>1, <2>2, <2>3, LoadSteps DEF Request
<1>2. ASSUME NEW c \in Calls, NEW outcome \in Ended, EndCall(c, outcome),
             UNCHANGED <<provider, timeline>>
      PROVE  CountInv'
  BY <1>2, CountKept DEF EndCall, TypeOK, Completing, Waiting, Ended
<1>3. ASSUME NEW c \in Calls, NEW at \in Waiting \ {"account", "credit", "crediting"},
             pc[c] \in Waiting \ {"crediting"},
             pc' = [pc EXCEPT ![c] = at],
             UNCHANGED <<provider, timeline, op, target, account>>
      PROVE  CountInv'
  <2>1. Completing(c)' => Completing(c)
    BY <1>3 DEF Completing
  <2>2. Before(c)' = Before(c)
    BY <1>3 DEF Before, Completions
  <2>3. (Completing(c) /\ pc[c] # "crediting")'
           => Counts(account[c], ProviderOf[target[c]], Before(c))'
    BY <1>3, <2>1, <2>2 DEF CountInv, Counts
  <2> QED
    BY <1>3, <2>3, CountKept DEF TypeOK
<1>4. ASSUME NEW c \in Calls, CompleteLoad(c) PROVE CountInv'
  <2>1. CASE EndCall(c, "refused")
    BY <1>2, <1>4, <2>1 DEF CompleteLoad, tables, Ended
  <2>2. CASE pc' = [pc EXCEPT ![c] = "loaded"]
             /\ UNCHANGED <<op, target, account, changed>>
    BY <1>3, <1>4, <2>2 DEF CompleteLoad, tables, Waiting
  <2> QED
    BY <1>4, <2>1, <2>2 DEF CompleteLoad
<1>5. ASSUME NEW c \in Calls, SaveSelect(c) PROVE CountInv'
  BY <1>3, <1>5 DEF SaveSelect, tables, Waiting
<1>6. ASSUME NEW c \in Calls, SaveUpdate(c) PROVE CountInv'
  <2>1. CASE EndCall(c, "ok")
    BY <1>2, <1>6, <2>1 DEF SaveUpdate, Ended
  <2>2. CASE pc' = [pc EXCEPT ![c] = "saved"]
             /\ UNCHANGED <<op, target, entity, account, changed>>
    BY <1>3, <1>6, <2>2 DEF SaveUpdate, Waiting
  <2> QED
    BY <1>6, <2>1, <2>2 DEF SaveUpdate
<1>7. ASSUME NEW c \in Calls, CreditUpdate(c) PROVE CountInv'
  <2> DEFINE p == ProviderOf[target[c]]
             row == Updated(provider[p], account[c], changed[c])
  <2>1. /\ pc[c] = "crediting" /\ p \in Providers
        /\ account[c] \in ProviderRow /\ provider[p] \in ProviderRow
    BY <1>7, BookingsAssumption DEF CreditUpdate, TypeOK, CallOK, Waiting
  <2>2. Counts(account[c], p, Completions(p)) /\ Counts(provider[p], p, Completions(p))
    BY <2>1 DEF CountInv, NeverOvercounted, Counts
  <2>3. Counts(row, p, Completions(p))
    BY <2>1, <2>2, UpdatedProvider DEF Counts
  <2>4. /\ provider' = [provider EXCEPT ![p] = row] \/ UNCHANGED provider
        /\ UNCHANGED timeline
    BY <1>7 DEF CreditUpdate
  <2>5. \A q : Completions(q)' = Completions(q)
    BY <2>4 DEF Completions
  <2> HIDE DEF p, row
  <2>6. NeverOvercounted'
    BY <2>1, <2>3, <2>4, <2>5 DEF CountInv, NeverOvercounted, Counts, TypeOK
  <2>7. PICK outcome \in Ended : EndCall(c, outcome)
    BY <1>7 DEF CreditUpdate, Ended
  <2>8. ASSUME NEW d \in Calls, pc'[d] \in Waiting
        PROVE  /\ pc'[d] = pc[d] /\ op'[d] = op[d] /\ target'[d] = target[d]
               /\ account'[d] = account[d] /\ Before(d)' = Before(d)
    BY <2>5, <2>7, <2>8 DEF EndCall, TypeOK, Waiting, Ended, Before
  <2>9. ASSUME NEW d \in Calls, (Completing(d) /\ pc[d] # "crediting")'
        PROVE  Counts(account[d], ProviderOf[target[d]], Before(d))'
    BY <2>8, <2>9 DEF CountInv, Completing, Counts
  <2>10. ASSUME NEW d \in Calls, (pc[d] = "crediting")'
         PROVE  Counts(account[d], ProviderOf[target[d]],
                       Completions(ProviderOf[target[d]]))'
    BY <2>5, <2>8, <2>10 DEF CountInv, Counts, Waiting
  <2> QED
    BY <2>6, <2>9, <2>10 DEF CountInv
<1>8. ASSUME NEW c \in Calls, CreditSelect(c) PROVE CountInv'
  <2> DEFINE b == target[c]
             p == ProviderOf[b]
             credited == Credited(account[c], b)
  <2>1. /\ pc[c] = "credit" /\ b \in Bookings /\ p \in Providers
        /\ Completing(c) /\ account[c] \in ProviderRow
    BY <1>8, BookingsAssumption DEF CreditSelect, TypeOK, CallOK, Waiting, Completing
  <2>2. credited.completedBookings = account[c].completedBookings + 1
    BY <2>1, CreditedProvider
  <2>3. Counts(account[c], p, Before(c))
    BY <2>1 DEF CountInv
  <2>4. PICK t \in timeline : t.call = c /\ t.status = "COMPLETED" /\ t.booking = b
    BY <2>1 DEF TimelineInv
  <2>5. t \notin Before(c) /\ Before(c) \cup {t} \subseteq Completions(p)
    BY <2>4 DEF Before, Completions
  <2>6. IsFiniteSet(Before(c)) /\ IsFiniteSet(Completions(p))
    BY RowsFinite
  <2>7. Cardinality(Before(c) \cup {t}) = Cardinality(Before(c)) + 1
    BY <2>5, <2>6, FS_AddElement
  <2>8. /\ Cardinality(Before(c)) \in Nat /\ Cardinality(Completions(p)) \in Nat
        /\ Cardinality(Before(c)) + 1 <= Cardinality(Completions(p))
    <3>1. Cardinality(Before(c)) \in Nat
      BY <2>6, FS_CardinalityType
    <3> QED
      BY <2>5, <2>6, <2>7, <3>1, FewerRows
  <2>9. account[c].completedBookings \in Nat /\ ProviderSeed[p].completedBookings \in Nat
    BY <2>1, BookingsAssumption DEF ProviderRow
  <2>10. Counts(credited, p, Completions(p))
    BY <2>2, <2>3, <2>8, <2>9 DEF Counts
  <2>11. /\ pc' = [pc EXCEPT ![c] = "crediting"]
         /\ account' = [account EXCEPT ![c] = credited]
         /\ UNCHANGED <<provider, timeline, op, target>>
    BY <1>8 DEF CreditSelect, tables
  <2>12. Completions(p)' = Completions(p) /\ p' = p
    BY <2>11 DEF Completions
  <2>13. Counts(account[c], ProviderOf[target[c]], Completions(ProviderOf[target[c]]))'
    <3>1. account'[c] = credited
      BY <2>11 DEF TypeOK
    <3> QED
      BY <2>10, <2>12, <3>1 DEF Counts
  <2> HIDE DEF b, p, credited
  <2>14. pc'[c] = "crediting"
    BY <2>11 DEF TypeOK
  <2> QED
    BY <2>11, <2>13, <2>14, CountKept DEF TypeOK
<1>9. ASSUME NEW c \in Calls, RecordTimeline(c) PROVE CountInv'
  <2> DEFINE t == [call |-> c, booking |-> target[c], status |-> entity[c].status]
  <2>1. /\ pc[c] = "saved" /\ timeline' = timeline \cup {t} /\ t.call = c
        /\ UNCHANGED provider
    BY <1>9 DEF RecordTimeline
  <2> HIDE DEF t
  <2>2. IsFiniteSet(timeline')
    <3>1. IsFiniteSet(timeline)
      BY DEF TimelineInv
    <3> QED
      BY <2>1, <3>1, FS_AddElement
  <2>3. \A p : Completions(p) \subseteq Completions(p)' /\ IsFiniteSet(Completions(p)')
    <3>1. \A p : Completions(p) \subseteq Completions(p)' /\ Completions(p)' \subseteq timeline'
      BY <2>1 DEF Completions
    <3> QED
      BY <2>2, <3>1, FS_Subset
  <2>4. NeverOvercounted'
    <3>1. ASSUME NEW p \in Providers PROVE Counts(provider[p], p, Completions(p)')
      <4>1. provider[p] \in ProviderRow /\ Counts(provider[p], p, Completions(p))
        BY DEF CountInv, NeverOvercounted, Counts, TypeOK
      <4> QED
        BY <2>3, <4>1, CountsGrow
    <3> QED
      BY <2>1, <3>1 DEF NeverOvercounted, Counts
  <2>5. ASSUME NEW d \in Calls, pc'[d] \in Waiting
        PROVE  /\ pc[d] \in Waiting /\ op'[d] = op[d] /\ target'[d] = target[d]
               /\ account'[d] = account[d]
               /\ pc'[d] = "crediting" <=> pc[d] = "crediting"
               /\ d = c => pc'[d] = "credit"
    <3>1. CASE EndCall(c, "ok")
      BY <2>1, <2>5, <3>1 DEF EndCall, TypeOK, Waiting
    <3>2. CASE pc' = [pc EXCEPT ![c] = "credit"]
               /\ UNCHANGED <<op, target, entity, account, changed>>
      BY <2>1, <2>5, <3>2 DEF TypeOK, Waiting
    <3> QED
      BY <1>9, <3>1, <3>2 DEF RecordTimeline
  <2>6. ASSUME NEW d \in Calls, (Completing(d) /\ pc[d] # "crediting")'
        PROVE  Counts(account[d], ProviderOf[target[d]], Before(d))'
    <3> DEFINE p == ProviderOf[target[d]]
    <3>1. /\ Completing(d) /\ pc[d] # "crediting" /\ account'[d] = account[d]
          /\ target'[d] = target[d]
      BY <2>5, <2>6 DEF Completing
    <3>2. p \in Providers /\ account[d] \in ProviderRow
      BY <3>1, BookingsAssumption DEF Completing, CallOK
    <3>3. Counts(account[d], p, Before(d))
      BY <3>1 DEF CountInv
    <3>4. Before(d) \subseteq Before(d)'
      BY <2>3, <3>1 DEF Before
    <3>5. IsFiniteSet(Before(d)')
      <4>1. Before(d)' \subseteq timeline'
        BY DEF Before, Completions
      <4> QED
        BY <2>2, <4>1, FS_Subset
    <3>6. Counts(account[d], p, Before(d)')
      BY <3>2, <3>3, <3>4, <3>5, CountsGrow
    <3> QED
      BY <3>1, <3>6 DEF Counts
  <2>7. ASSUME NEW d \in Calls, (pc[d] = "crediting")'
        PROVE  Counts(account[d], ProviderOf[target[d]],
                      Completions(ProviderOf[target[d]]))'
    <3>1. /\ pc[d] = "crediting" /\ account'[d] = account[d] /\ target'[d] = target[d]
      BY <2>5, <2>7 DEF Waiting
    <3>2. ProviderOf[target[d]] \in Providers /\ account[d] \in ProviderRow
      BY <3>1, BookingsAssumption DEF CallOK, Waiting
    <3>3. PICK p \in Providers : p = ProviderOf[target[d]]
      BY <3>2
    <3>4. Counts(account[d], p, Completions(p))
      BY <3>1, <3>3 DEF CountInv
    <3>5. Counts(account[d], p, Completions(p)')
      BY <2>3, <3>2, <3>4, CountsGrow
    <3> QED
      BY <3>1, <3>3, <3>5 DEF Counts, Completions
  <2> QED
    BY <2>4, <2>6, <2>7 DEF CountInv
<1>10. ASSUME NEW c \in Calls, Fail(c) PROVE CountInv'
  BY <1>2, <1>10 DEF Fail, tables, Ended
<1>11. ASSUME UNCHANGED <<provider, timeline, pc, op, target, account>>
       PROVE  CountInv'
  BY <1>11 DEF CountInv, NeverOvercounted, Completing, Counts, Before, Completions
<1>12. ASSUME NEW b \in Bookings, TimePasses(b) PROVE CountInv'
  BY <1>11, <1>12 DEF TimePasses, tables, calls
<1>13. CASE UNCHANGED vars
  BY <1>11, <1>13 DEF vars, tables, calls
<1> QED
  BY <1>1, <1>4, <1>5, <1>6, <1>7, <1>8, <1>9, <1>10, <1>12, <1>13
     DEF Next, Continue

\* At first the timeline is empty and the seeded counters are their own bound.
LEMMA CountInit == Init => TimelineInv /\ CountInv
<1> SUFFICES ASSUME Init PROVE TimelineInv /\ CountInv
  OBVIOUS
<1>1. TimelineInv
  BY FS_EmptySet DEF Init, TimelineInv, Completing, Waiting
<1>2. NeverOvercounted
  <2>1. \A p : Completions(p) = {}
    BY DEF Init, Completions
  <2>2. Cardinality({}) = 0
    BY FS_EmptySet
  <2>3. \A p \in Providers : ProviderSeed[p].completedBookings \in Nat
    BY BookingsAssumption DEF ProviderRow
  <2>4. ASSUME NEW p \in Providers
        PROVE  provider[p].completedBookings
                 <= ProviderSeed[p].completedBookings + Cardinality(Completions(p))
    <3>1. provider[p] = ProviderSeed[p]
      BY DEF Init
    <3>2. Cardinality(Completions(p)) = 0
      BY <2>1, <2>2
    <3> QED
      BY <2>3, <3>1, <3>2
  <2> QED
    BY <2>4 DEF NeverOvercounted
<1>3. CountInv
  BY <1>2 DEF Init, CountInv, Completing, Waiting
<1> QED
  BY <1>1, <1>3

\* completedBookings never counts a completion the timeline does not show, for
\* any number of interleaved completions, stale saves and failures.
THEOREM NoInventedCompletions == Spec => []NeverOvercounted
<1>1. CountInv => NeverOvercounted
  BY DEF CountInv
<1>2. Spec => [](Typed /\ TimelineInv /\ CountInv)
  BY TypedInit, TypedStep, TimelineStep, CountInit, CountStep, PTL DEF Spec
<1> QED
  BY <1>1, <1>2, PTL

-----------------------------------------------------------------------------
(***************************************************************************)
(* A lock on the provider's row.  When no two calls of complete hold the   *)
(* same provider, no completion is lost either: nobody saves the row       *)
(* between complete's load of it and its UPDATE, so the counter it writes  *)
(* is one more than the row's, and the row counts every completion of the  *)
(* timeline but those that are about to be credited.  Other calls, and     *)
(* completions for other providers, may be interleaved at will.            *)
(***************************************************************************)
ProvidersLocked ==
  \A c, d \in Calls :
    /\ Completing(c) /\ Completing(d)
    /\ ProviderOf[target[c]] = ProviderOf[target[d]]
    => c = d

Crediting(c) == pc[c] \in {"credit", "crediting"}

Tallied(p) == {t \in Completions(p) : ~Crediting(t.call)}

NoneFailed == \A c \in Calls : pc[c] # "failed"

\* What the entity of a completing call counts, against the row it will save.
Fresher(c) ==
  LET row == provider[ProviderOf[target[c]]] IN
  /\ Completing(c) /\ pc[c] # "crediting"
       => account[c].completedBookings = row.completedBookings
  /\ pc[c] = "crediting"
       => /\ account[c].completedBookings = row.completedBookings + 1
          /\ "completedBookings" \in changed[c]

Exact(p) ==
  provider[p].completedBookings
    = ProviderSeed[p].completedBookings + Cardinality(Tallied(p))

\* Each call has one row of the timeline, and only complete's tells of a
\* completion.
RowsInv ==
  /\ \A t, u \in timeline : t.call = u.call => t = u
  /\ \A c \in Calls : pc[c] \in {"loaded", "diffed", "saved"} /\ op[c] # "complete"
                        => entity[c].status # "COMPLETED"

ExactInv ==
  NoneFailed => (\A p \in Providers : Exact(p)) /\ (\A c \in Calls : Fresher(c))

ExactTyped == Typed /\ TimelineInv /\ RowsInv

\* A step of call c leaves the rest of the calls what they hold.
Others(c) ==
  \A d \in Calls \ {c} :
    /\ op'[d] = op[d] /\ target'[d] = target[d]
    /\ account'[d] = account[d] /\ changed'[d] = changed[d]

\* A step of call c to x, when it saves no provider and the row of the timeline
\* it may have counts after it as it did before.
LEMMA ExactFrame ==
  ASSUME ExactTyped, ExactInv, NEW c \in Calls, Others(c), pc[c] # "failed",
         NEW x, pc' = [pc EXCEPT ![c] = x], UNCHANGED <<provider, timeline>>,
         Crediting(c) <=> x \in {"credit", "crediting"},
         NoneFailed /\ Fresher(c) => Fresher(c)'
  PROVE  ExactInv'
<1> SUFFICES ASSUME NoneFailed'
             PROVE  /\ \A p \in Providers : Exact(p)'
                    /\ \A d \in Calls : Fresher(d)'
  BY DEF ExactInv
<1>1. \A d \in Calls : pc'[d] = IF d = c THEN x ELSE pc[d]
  BY DEF ExactTyped, Typed, TypeOK
<1>2. NoneFailed
  BY <1>1 DEF NoneFailed
<1>3. \A t \in timeline : Crediting(t.call)' <=> Crediting(t.call)
  BY <1>1 DEF Crediting, ExactTyped, Typed, TypeOK, TimelineRow
<1>4. \A p \in Providers : Tallied(p)' = Tallied(p)
  BY <1>3 DEF Tallied, Completions
<1>5. \A p \in Providers : Exact(p)'
  BY <1>2, <1>4 DEF ExactInv, Exact
<1>6. ASSUME NEW d \in Calls \ {c} PROVE Fresher(d)'
  <2>1. Fresher(d)
    BY <1>2 DEF ExactInv
  <2>2. pc'[d] = pc[d]
    BY <1>1
  <2> QED
    BY <2>1, <2>2 DEF Others, Fresher, Completing
<1> QED
  BY <1>2, <1>5, <1>6 DEF ExactInv

\* A call that ends, and has credited nothing.
LEMMA ExactEnd ==
  ASSUME ExactTyped, ExactInv, NEW c \in Calls, pc[c] # "failed",
         ~Crediting(c), NEW x \in Ended, EndCall(c, x),
         UNCHANGED <<provider, timeline>>
  PROVE  ExactInv'
<1>1. pc' = [pc EXCEPT ![c] = x] /\ x \notin {"credit", "crediting"}
  BY DEF EndCall, Ended
<1>2. pc'[c] = x
  BY <1>1 DEF ExactTyped, Typed, TypeOK
<1>3. Fresher(c)'
  BY <1>2 DEF Fresher, Completing, Waiting, Ended
<1>4. Others(c)
  BY DEF EndCall, Others, ExactTyped, Typed, TypeOK
<1> QED
  BY <1>1, <1>3, <1>4, ExactFrame

\* Each call writes its one row, and every step keeps it so.
LEMMA RowsStep ==
  ASSUME Typed, TimelineInv, RowsInv, [Next]_vars
  PROVE  RowsInv'
<1> USE DEF Typed
<1>1. ASSUME NEW c \in Calls, NEW b \in Bookings, Request(c, b) PROVE RowsInv'
  <2>1. CASE SerialLoad(c, b)
    BY <2>1 DEF SerialLoad, LoadAs, tables, TypeOK, RowsInv
  <2>2. CASE Complete(c, b)
    BY <2>2 DEF Complete, tables, TypeOK, RowsInv
  <2>3. CASE \E o \in Op : Refuse(c, o, b)
    BY <2>3 DEF Refuse, tables, TypeOK, RowsInv
  <2> QED
    BY <1>1, <2>1, <2>2, <2>3, SerialLoads DEF Request
<1>2. ASSUME NEW c \in Calls, NEW x \in Ended, EndCall(c, x), UNCHANGED timeline
      PROVE  RowsInv'
  BY <1>2 DEF EndCall, TypeOK, RowsInv, Ended
<1>3. ASSUME NEW c \in Calls, CompleteLoad(c) PROVE RowsInv'
  <2>1. op[c] = "complete"
    BY <1>3 DEF CompleteLoad, CallOK
  <2>2. CASE EndCall(c, "refused")
    BY <1>2, <1>3, <2>2 DEF CompleteLoad, tables, Ended
  <2>3. CASE booking[target[c]].status \in Admitted["complete"]
    BY <1>3, <2>1, <2>3 DEF CompleteLoad, tables, TypeOK, RowsInv
  <2> QED
    BY <1>3, <2>2, <2>3 DEF CompleteLoad
<1>4. ASSUME NEW c \in Calls, SaveSelect(c) PROVE RowsInv'
  BY <1>4 DEF SaveSelect, tables, TypeOK, RowsInv
<1>5. ASSUME NEW c \in Calls, SaveUpdate(c) PROVE RowsInv'
  <2>1. CASE EndCall(c, "ok")
    BY <1>2, <1>5, <2>1 DEF SaveUpdate, Ended
  <2>2. CASE pc' = [pc EXCEPT ![c] = "saved"]
             /\ UNCHANGED <<op, target, entity, account, changed>>
    BY <1>5, <2>2 DEF SaveUpdate, TypeOK, RowsInv
  <2> QED
    BY <1>5, <2>1, <2>2 DEF SaveUpdate
<1>6. ASSUME NEW c \in Calls, RecordTimeline(c) PROVE RowsInv'
  <2>1. \A t \in timeline : t.call # c
    BY <1>6 DEF RecordTimeline, TimelineInv, Ended
  <2>2. \A t, u \in timeline' : t.call = u.call => t = u
    BY <1>6, <2>1 DEF RecordTimeline, RowsInv
  <2>3. CASE EndCall(c, "ok")
    BY <2>2, <2>3 DEF EndCall, TypeOK, RowsInv
  <2>4. CASE pc' = [pc EXCEPT ![c] = "credit"]
             /\ UNCHANGED <<op, target, entity, account, changed>>
    BY <2>2, <2>4 DEF TypeOK, RowsInv
  <2> QED
    BY <1>6, <2>3, <2>4 DEF RecordTimeline
<1>7. ASSUME NEW c \in Calls, CreditSelect(c) PROVE RowsInv'
  BY <1>7 DEF CreditSelect, tables, TypeOK, RowsInv
<1>8. ASSUME NEW c \in Calls, CreditUpdate(c) \/ Fail(c) PROVE RowsInv'
  BY <1>2, <1>8 DEF CreditUpdate, Fail, tables, Ended
<1>9. CASE (\E b \in Bookings : TimePasses(b)) \/ UNCHANGED vars
  BY <1>9 DEF TimePasses, vars, tables, calls, RowsInv
<1> QED
  BY <1>1, <1>3, <1>4, <1>5, <1>6, <1>7, <1>8, <1>9 DEF Next, Continue

\* The UPDATE of the provider counts the completion the call recorded.
LEMMA ExactCredit ==
  ASSUME ProvidersLocked, ExactTyped, ExactInv, NEW c \in Calls, CreditUpdate(c)
  PROVE  ExactInv'
<1> USE DEF ExactTyped, Typed
<1> SUFFICES ASSUME NoneFailed'
             PROVE  /\ \A q \in Providers : Exact(q)'
                    /\ \A d \in Calls : Fresher(d)'
  BY DEF ExactInv
<1>1. PICK p \in Providers : p = ProviderOf[target[c]]
  BY BookingsAssumption DEF CreditUpdate, CallOK, Waiting
<1>2. /\ pc[c] = "crediting" /\ target[c] \in Bookings
      /\ account[c] \in ProviderRow /\ provider[p] \in ProviderRow
  BY <1>1, BookingsAssumption DEF CreditUpdate, TypeOK, CallOK, Waiting
<1>3. /\ provider' = [provider EXCEPT ![p] =
                        Updated(provider[p], account[c], changed[c])]
      /\ EndCall(c, "ok") /\ UNCHANGED timeline
  <2>1. ~EndCall(c, "failed")
    BY DEF EndCall, NoneFailed, TypeOK
  <2> QED
    BY <1>1, <2>1 DEF CreditUpdate
<1>4. \A d \in Calls : pc'[d] = IF d = c THEN "ok" ELSE pc[d]
  BY <1>3 DEF EndCall, TypeOK
<1>5. NoneFailed
  BY <1>2, <1>4 DEF NoneFailed
<1>6. provider'[p].completedBookings = provider[p].completedBookings + 1
  <2>1. /\ account[c].completedBookings = provider[p].completedBookings + 1
        /\ "completedBookings" \in changed[c]
    BY <1>1, <1>2, <1>5 DEF ExactInv, Fresher
  <2>2. provider'[p] = Updated(provider[p], account[c], changed[c])
    BY <1>3 DEF TypeOK
  <2> QED
    BY <1>2, <2>1, <2>2, UpdatedProvider
<1>7. PICK t \in timeline : t.call = c /\ t.status = "COMPLETED"
                              /\ t.booking = target[c]
  BY <1>2 DEF TimelineInv
<1>8. \A u \in timeline : u.call = c => u = t
  BY <1>7 DEF RowsInv
<1>9. Tallied(p)' = Tallied(p) \cup {t} /\ t \notin Tallied(p)
  BY <1>1, <1>2, <1>3, <1>4, <1>7, <1>8
     DEF Tallied, Completions, Crediting, TypeOK, TimelineRow
<1>10. IsFiniteSet(Tallied(p))
  <2>1. Tallied(p) \subseteq Completions(p)
    BY DEF Tallied
  <2> QED
    BY <2>1, RowsFinite, FS_Subset
<1>11. Cardinality(Tallied(p)') = Cardinality(Tallied(p)) + 1
  BY <1>9, <1>10, FS_AddElement
<1>12. Exact(p)'
  <2>1. Cardinality(Tallied(p)) \in Nat /\ ProviderSeed[p].completedBookings \in Nat
    BY <1>10, FS_CardinalityType, BookingsAssumption DEF ProviderRow
  <2>2. Exact(p)
    BY <1>5 DEF ExactInv
  <2> QED
    BY <1>6, <1>11, <2>1, <2>2 DEF Exact
<1>13. ASSUME NEW q \in Providers \ {p} PROVE Exact(q)'
  <2>1. Tallied(q)' = Tallied(q)
    BY <1>1, <1>3, <1>4, <1>7, <1>8
       DEF Tallied, Completions, Crediting, TypeOK, TimelineRow
  <2>2. provider'[q] = provider[q] /\ Exact(q)
    BY <1>3, <1>5 DEF TypeOK, ExactInv
  <2> QED
    BY <2>1, <2>2 DEF Exact
<1>14. ASSUME NEW d \in Calls PROVE Fresher(d)'
  <2>1. CASE d = c
    BY <1>4, <2>1 DEF Fresher, Completing, Waiting
  <2>2. CASE d # c /\ ~Completing(d)
    BY <1>3, <1>4, <2>2 DEF Fresher, Completing, EndCall, CallOK, Waiting, TypeOK
  <2>3. CASE d # c /\ Completing(d)
    <3>1. /\ pc'[d] = pc[d] /\ op'[d] = op[d] /\ target'[d] = target[d]
          /\ account'[d] = account[d] /\ changed'[d] = changed[d]
      BY <1>3, <1>4, <2>3 DEF EndCall, TypeOK
    <3>2. Completing(c)
      BY <1>2 DEF Completing, CallOK, Waiting
    <3>3. ProviderOf[target[d]] # p
      BY <1>1, <2>3, <3>2 DEF ProvidersLocked
    <3>4. provider'[ProviderOf[target[d]]] = provider[ProviderOf[target[d]]]
      <4>1. ProviderOf[target[d]] \in Providers
        BY <2>3, BookingsAssumption DEF Completing, CallOK
      <4> QED
        BY <1>3, <3>3, <4>1 DEF TypeOK
    <3>5. Fresher(d)
      BY <1>5 DEF ExactInv
    <3> QED
      BY <3>1, <3>4, <3>5 DEF Fresher, Completing
  <2> QED
    BY <2>1, <2>2, <2>3
<1> QED
  BY <1>12, <1>13, <1>14

\* While the providers are locked, every step keeps the counters exact, as long
\* as no call has failed.
LEMMA ExactStep ==
  ASSUME ProvidersLocked, ExactTyped, ExactInv, [Next]_vars
  PROVE  ExactInv'
<1> USE DEF ExactTyped, Typed
<1>1. ASSUME NEW c \in Calls, NEW b \in Bookings, Request(c, b) PROVE ExactInv'
  <2>1. pc[c] = "idle" /\ UNCHANGED <<provider, timeline>>
    BY <1>1, SerialLoads DEF Request, SerialLoad, LoadAs, Complete, Refuse, CanStart,
       tables
  <2>2. CASE SerialLoad(c, b)
    <3>1. pc' = [pc EXCEPT ![c] = "loaded"] /\ pc'[c] = "loaded" /\ op'[c] # "complete"
      BY <2>2 DEF SerialLoad, LoadAs, TypeOK
    <3>2. Fresher(c)'
      BY <3>1 DEF Fresher, Completing
    <3>3. Others(c)
      BY <2>2 DEF SerialLoad, LoadAs, Others, TypeOK
    <3> QED
      BY <2>1, <3>1, <3>2, <3>3, ExactFrame DEF Crediting
  <2>3. CASE Complete(c, b)
    <3>1. /\ pc' = [pc EXCEPT ![c] = "account"] /\ pc'[c] = "account"
          /\ target'[c] = b /\ account'[c] = provider[ProviderOf[b]]
      BY <2>3 DEF Complete, TypeOK
    <3>2. Fresher(c)'
      BY <2>1, <3>1 DEF Fresher
    <3>3. Others(c)
      BY <2>3 DEF Complete, Others, TypeOK
    <3> QED
      BY <2>1, <3>1, <3>2, <3>3, ExactFrame DEF Crediting
  <2>4. CASE \E o \in Op : Refuse(c, o, b)
    <3>1. pc' = [pc EXCEPT ![c] = "refused"] /\ pc'[c] = "refused"
      BY <2>4 DEF Refuse, TypeOK
    <3>2. Fresher(c)'
      BY <3>1 DEF Fresher, Completing, Waiting
    <3>3. Others(c)
      BY <2>4 DEF Refuse, Others
    <3> QED
      BY <2>1, <3>1, <3>2, <3>3, ExactFrame DEF Crediting
  <2> QED
    BY <1>1, <2>2, <2>3, <2>4, SerialLoads DEF Request
\* On its way to the timeline, a call keeps the entity it has.
<1>2. ASSUME NEW c \in Calls, pc[c] \in Waiting \ {"credit", "crediting"},
             NEW x \in {"loaded", "diffed", "saved"}, pc' = [pc EXCEPT ![c] = x],
             UNCHANGED <<provider, timeline, op, target, account>>,
             \A d \in Calls \ {c} : changed'[d] = changed[d]
      PROVE  ExactInv'
  <2>1. pc'[c] = x /\ pc[c] # "failed"
    BY <1>2 DEF TypeOK, Waiting
  <2>2. Fresher(c) => Fresher(c)'
    BY <1>2, <2>1 DEF Fresher, Completing, Waiting
  <2>3. Others(c)
    BY <1>2 DEF Others
  <2> QED
    BY <1>2, <2>1, <2>2, <2>3, ExactFrame DEF Crediting
<1>3. ASSUME NEW c \in Calls, CompleteLoad(c) PROVE ExactInv'
  <2>1. CASE EndCall(c, "refused")
    BY <1>3, <2>1, ExactEnd DEF CompleteLoad, tables, Ended, Crediting
  <2>2. CASE booking[target[c]].status \in Admitted["complete"]
    BY <1>2, <1>3, <2>2 DEF CompleteLoad, tables, Waiting
  <2> QED
    BY <1>3, <2>1, <2>2 DEF CompleteLoad
<1>4. ASSUME NEW c \in Calls, SaveSelect(c) PROVE ExactInv'
  <2>1. \A d \in Calls \ {c} : changed'[d] = changed[d]
    BY <1>4 DEF SaveSelect, TypeOK
  <2> QED
    BY <1>2, <1>4, <2>1 DEF SaveSelect, tables, Waiting
<1>5. ASSUME NEW c \in Calls, SaveUpdate(c) PROVE ExactInv'
  <2>1. CASE EndCall(c, "ok")
    BY <1>5, <2>1, ExactEnd DEF SaveUpdate, Ended, Crediting
  <2>2. CASE pc' = [pc EXCEPT ![c] = "saved"]
             /\ UNCHANGED <<op, target, entity, account, changed>>
    BY <1>2, <1>5, <2>2 DEF SaveUpdate, Waiting
  <2> QED
    BY <1>5, <2>1, <2>2 DEF SaveUpdate
<1>6. ASSUME NEW c \in Calls, RecordTimeline(c) PROVE ExactInv'
  <2> SUFFICES ASSUME NoneFailed'
               PROVE  /\ \A p \in Providers : Exact(p)'
                      /\ \A d \in Calls : Fresher(d)'
    BY DEF ExactInv
  <2> DEFINE t == [call |-> c, booking |-> target[c], status |-> entity[c].status]
  <2>1. /\ pc[c] = "saved" /\ UNCHANGED provider
        /\ timeline' = timeline \cup {t} /\ t.call = c /\ t.status = entity[c].status
        /\ \A u \in timeline : u.call # c
    BY <1>6 DEF RecordTimeline, TimelineInv, Ended
  <2>2. PICK x \in {"ok", "credit"} :
          /\ pc' = [pc EXCEPT ![c] = x]
          /\ x = "credit" <=> op[c] = "complete"
          /\ x = "credit" => UNCHANGED <<op, target, account>>
    BY <1>6 DEF RecordTimeline, EndCall
  <2>3. \A d \in Calls : pc'[d] = IF d = c THEN x ELSE pc[d]
    BY <2>2 DEF TypeOK
  <2>4. NoneFailed
    BY <2>1, <2>3 DEF NoneFailed
  <2>5. x = "ok" => t.status # "COMPLETED"
    BY <2>1, <2>2 DEF RowsInv
  <2> HIDE DEF t
  <2>6. \A p \in Providers : Tallied(p)' = Tallied(p)
    BY <2>1, <2>3, <2>5 DEF Tallied, Completions, Crediting, TypeOK, TimelineRow
  <2>7. \A p \in Providers : Exact(p)'
    BY <2>1, <2>4, <2>6 DEF ExactInv, Exact
  <2>8. ASSUME NEW d \in Calls PROVE Fresher(d)'
    <3>1. CASE d = c /\ x = "ok"
      BY <2>3, <3>1 DEF Fresher, Completing, Waiting
    <3>2. CASE d = c /\ x = "credit"
      BY <2>1, <2>2, <2>3, <2>4, <3>2 DEF ExactInv, Fresher, Completing, Waiting
    <3>3. CASE d # c
      <4>1. Others(c)
        BY <1>6 DEF RecordTimeline, EndCall, Others, TypeOK
      <4>2. Fresher(d) /\ pc'[d] = pc[d]
        BY <2>3, <2>4, <3>3 DEF ExactInv
      <4> QED
        BY <2>1, <3>3, <4>1, <4>2 DEF Others, Fresher, Completing
    <3> QED
      BY <3>1, <3>2, <3>3
  <2> QED
    BY <2>7, <2>8
<1>7. ASSUME NEW c \in Calls, CreditSelect(c) PROVE ExactInv'
  <2> DEFINE b == target[c]
             credited == Credited(account[c], b)
             row == provider[ProviderOf[b]]
             cols == Changed(credited, row, {"pendingEarnings"})
  <2>1. /\ pc[c] = "credit" /\ b \in Bookings /\ op[c] = "complete"
        /\ account[c] \in ProviderRow /\ row \in ProviderRow
    BY <1>7, BookingsAssumption DEF CreditSelect, TypeOK, CallOK, Waiting
  <2>2. /\ credited \in ProviderRow
        /\ credited.completedBookings = account[c].completedBookings + 1
    BY <2>1, CreditedProvider
  <2>3. "completedBookings" \in cols
           <=> credited.completedBookings # row.completedBookings
    BY <2>1, <2>2, ChangedProvider
  <2>4. /\ pc' = [pc EXCEPT ![c] = "crediting"]
        /\ account' = [account EXCEPT ![c] = credited]
        /\ changed' = [changed EXCEPT ![c] = cols]
        /\ UNCHANGED <<provider, timeline, op, target>>
    BY <1>7 DEF CreditSelect, tables
  <2>5. /\ pc'[c] = "crediting" /\ account'[c] = credited /\ changed'[c] = cols
        /\ provider'[ProviderOf[target[c]]'] = row
    BY <2>4 DEF TypeOK
  <2>6. Fresher(c) => account[c].completedBookings = row.completedBookings
    BY <2>1 DEF Fresher, Completing, Waiting
  <2>7. row.completedBookings \in Nat
    BY <2>1 DEF ProviderRow
  <2> HIDE DEF credited, cols
  <2>8. Fresher(c) => Fresher(c)'
    BY <2>2, <2>3, <2>4, <2>5, <2>6, <2>7 DEF Fresher
  <2>9. Others(c)
    BY <2>4 DEF Others, TypeOK
  <2> QED
    BY <2>1, <2>4, <2>8, <2>9, ExactFrame DEF Crediting
<1>8. ASSUME NEW c \in Calls, CreditUpdate(c) PROVE ExactInv'
  BY <1>8, ExactCredit
<1>9. ASSUME NEW c \in Calls, Fail(c) PROVE ExactInv'
  BY <1>9 DEF Fail, EndCall, TypeOK, ExactInv, NoneFailed
<1>10. CASE (\E b \in Bookings : TimePasses(b)) \/ UNCHANGED vars
  BY <1>10 DEF TimePasses, vars, tables, calls, ExactInv, NoneFailed, Exact, Tallied,
     Completions, Crediting, Fresher, Completing
<1> QED
  BY <1>1, <1>3, <1>4, <1>5, <1>6, <1>7, <1>8, <1>9, <1>10 DEF Next, Continue

\* At first nothing is counted but the seeded completions.
LEMMA ExactInit == Init => RowsInv /\ ExactInv
<1> SUFFICES ASSUME Init PROVE RowsInv /\ ExactInv
  OBVIOUS
<1>1. RowsInv
  BY DEF Init, RowsInv
<1>2. ASSUME NEW p \in Providers PROVE Exact(p)
  <2>1. Tallied(p) = {} /\ provider[p] = ProviderSeed[p]
    BY DEF Init, Tallied, Completions
  <2>2. Cardinality(Tallied(p)) = 0
    BY <2>1, FS_EmptySet
  <2>3. ProviderSeed[p].completedBookings \in Nat
    BY BookingsAssumption DEF ProviderRow
  <2> QED
    BY <2>1, <2>2, <2>3 DEF Exact
<1>3. \A c \in Calls : Fresher(c)
  BY DEF Init, Fresher, Completing, Waiting
<1> QED
  BY <1>1, <1>2, <1>3 DEF ExactInv

\* As long as no two calls of complete hold the same provider: with no call
\* failed and none under way, every completion of the timeline has been counted.
THEOREM NoLostCompletionsUnderLock == Spec /\ []ProvidersLocked => []CompletionsCounted
<1>1. ExactTyped /\ ExactInv => CompletionsCounted
  <2> SUFFICES ASSUME ExactTyped, ExactInv,
                      \A c \in Calls : pc[c] \in {"idle", "ok", "refused"},
                      NEW p \in Providers
               PROVE  provider[p].completedBookings
                        = ProviderSeed[p].completedBookings + Cardinality(Completions(p))
    BY DEF CompletionsCounted
  <2>1. NoneFailed /\ \A c \in Calls : ~Crediting(c)
    BY DEF NoneFailed, Crediting
  <2>2. Tallied(p) = Completions(p)
    BY <2>1 DEF Tallied, Completions, ExactTyped, Typed, TypeOK, TimelineRow
  <2> QED
    BY <2>1, <2>2 DEF ExactInv, Exact
<1>2. ProvidersLocked /\ ExactTyped /\ ExactInv /\ [Next]_vars
        => (ExactTyped /\ ExactInv)'
  BY TypedStep, TimelineStep, RowsStep, ExactStep DEF ExactTyped
<1>3. Init => ExactTyped /\ ExactInv
  BY TypedInit, CountInit, ExactInit DEF ExactTyped
<1> QED
  BY <1>1, <1>2, <1>3, PTL DEF Spec

\* Served one at a time, with no call failed and none under way, every completion
\* of the timeline has been counted on its provider.
THEOREM NoLostCompletions ==
  ASSUME MaxInFlight = 1
  PROVE  Spec => []CompletionsCounted
<1>1. OneAtATime => ProvidersLocked
  BY DEF OneAtATime, ProvidersLocked, Completing
<1> QED
  BY <1>1, Serial, NoLostCompletionsUnderLock, PTL
=============================================================================
