--------------------------- MODULE BookingsProofs ---------------------------
(***************************************************************************)
(* What holds of Bookings for any tables, any number of calls and any      *)
(* degree of concurrency.                                                  *)
(***************************************************************************)
EXTENDS Bookings, FiniteSetTheorems, TLAPS

(***************************************************************************)
(* Rows.                                                                   *)
(***************************************************************************)

\* An UPDATE with an entity of the table's type leaves a row of that type.
LEMMA UpdatedBooking ==
  ASSUME NEW row \in BookingRow, NEW e \in BookingRow, NEW cols
  PROVE  /\ Updated(row, e, cols) \in BookingRow
         /\ Updated(row, e, cols).status
              = IF "status" \in cols THEN e.status ELSE row.status
BY DEF Updated, BookingRow, Status

\* The same for a provider row, and which counters the UPDATE moves.
LEMMA UpdatedProvider ==
  ASSUME NEW row \in ProviderRow, NEW e \in ProviderRow, NEW cols
  PROVE  /\ Updated(row, e, cols) \in ProviderRow
         /\ Updated(row, e, cols).totalBookings
              = IF "totalBookings" \in cols THEN e.totalBookings ELSE row.totalBookings
         /\ Updated(row, e, cols).completedBookings
              = IF "completedBookings" \in cols THEN e.completedBookings
                                                ELSE row.completedBookings
BY DEF Updated, ProviderRow

\* The columns of a pending UPDATE are columns of the table.
LEMMA ChangedBooking ==
  ASSUME NEW row \in BookingRow, NEW e \in BookingRow,
         NEW fresh \in SUBSET BookingColumns
  PROVE  /\ Changed(e, row, fresh) \subseteq BookingColumns
         /\ e.status # row.status => "status" \in Changed(e, row, fresh)
BY DEF Changed, BookingRow, BookingColumns

\* The same for a provider row: a counter is written exactly when it differs.
LEMMA ChangedProvider ==
  ASSUME NEW row \in ProviderRow, NEW e \in ProviderRow
  PROVE  LET cols == Changed(e, row, {"pendingEarnings"}) IN
         /\ cols \subseteq ProviderColumns
         /\ "totalBookings" \in cols <=> e.totalBookings # row.totalBookings
         /\ "completedBookings" \in cols
              <=> e.completedBookings # row.completedBookings
BY DEF Changed, ProviderRow, ProviderColumns

\* A refund is a whole number of hundredths.
LEMMA SharesAreNatural ==
  ASSUME NEW amount \in Nat, NEW percent \in Nat
  PROVE  RoundedShare(amount, percent) \in Nat
BY DEF RoundedShare

\* What complete makes of the provider entity it loaded.
LEMMA CreditedProvider ==
  ASSUME NEW row \in ProviderRow, NEW b \in Bookings
  PROVE  /\ Credited(row, b) \in ProviderRow
         /\ Credited(row, b).totalBookings = row.totalBookings + 1
         /\ Credited(row, b).completedBookings = row.completedBookings + 1
<1>1. Appended(row.pendingEarnings, Earning(b) \div 10000) \in Nat
  BY DEF Appended, ProviderRow
<1>2. QED
  BY <1>1 DEF Credited, Assign, ProviderRow

-----------------------------------------------------------------------------
(***************************************************************************)
(* The seven handlers that load the booking and go straight to its save    *)
(* are one kind of step: they differ in the entity they hand to save.      *)
(***************************************************************************)

\* A status a handler may assign when it has loaded a row of status s: the
\* row's own, or one whose prerequisite is s.
Follows(s, assigned) ==
  assigned = s \/ (assigned \in DOMAIN Needs => Needs[assigned] = s)

LoadAs(c, o, b, e) ==
  /\ CanStart(c)
  /\ pc' = [pc EXCEPT ![c] = "loaded"]
  /\ op' = [op EXCEPT ![c] = o]
  /\ target' = [target EXCEPT ![c] = b]
  /\ entity' = [entity EXCEPT ![c] = e]
  /\ UNCHANGED <<tables, slack, account, changed>>

LoadStep(c, b) ==
  \E o \in Op \ {"complete"}, e \in BookingRow :
    LoadAs(c, o, b, e) /\ Follows(booking[b].status, e.status)

\* Each request that loads a booking is a LoadStep: its status follows from the
\* one it found.
LEMMA LoadSteps ==
  ASSUME TypeOK, NEW c \in Calls, NEW b \in Bookings
  PROVE  /\ Update(c, b) => LoadStep(c, b)
         /\ Cancel(c, b) => LoadStep(c, b)
         /\ Accept(c, b) => LoadStep(c, b)
         /\ Reject(c, b) => LoadStep(c, b)
         /\ Start(c, b) => LoadStep(c, b)
         /\ MarkEnRoute(c, b) => LoadStep(c, b)
         /\ MarkArrived(c, b) => LoadStep(c, b)
<1> DEFINE row == booking[b]
<1>0. row \in BookingRow
  BY DEF TypeOK
<1>1. ASSUME Update(c, b) PROVE LoadStep(c, b)
  <2> DEFINE e == Assign(row, <<>>)
  <2>1. e \in BookingRow /\ e.status = row.status
    BY <1>0 DEF Assign, BookingRow
  <2>2. LoadAs(c, "update", b, e)
    BY <1>1 DEF Update, Load, LoadAs
  <2>3. QED
    BY <2>1, <2>2 DEF LoadStep, Follows, Op
<1>2. ASSUME Cancel(c, b) PROVE LoadStep(c, b)
  <2> DEFINE share == RoundedShare(Total[b], RefundPercentage(b))
             refund == IF RefundPercentage(b) > 0 THEN "PENDING"
                                                  ELSE "NOT_APPLICABLE"
             e == Assign(row, [status |-> "CANCELLED", cancelledAt |-> TRUE,
                               refundAmount |-> share, refundStatus |-> refund])
  <2>1. share \in Nat
    <3>1. Total[b] \in Nat
      BY BookingsAssumption
    <3>2. RefundPercentage(b) \in Nat
      BY DEF TypeOK, RefundPercentage
    <3>3. QED
      BY <3>1, <3>2, SharesAreNatural
  <2>2. e \in BookingRow /\ e.status = "CANCELLED"
    <3> HIDE DEF share
    <3> QED BY <1>0, <2>1 DEF Assign, BookingRow, Status
  <2>3. LoadAs(c, "cancel", b, e)
    BY <1>2 DEF Cancel, Load, LoadAs
  <2>4. QED
    BY <2>2, <2>3 DEF LoadStep, Follows, Op, Needs
<1>3. ASSUME Accept(c, b) PROVE LoadStep(c, b)
  <2> DEFINE e == Assign(row, [status |-> "CONFIRMED", confirmedAt |-> TRUE])
  <2>1. e \in BookingRow /\ e.status = "CONFIRMED"
    BY <1>0 DEF Assign, BookingRow, Status
  <2>2. LoadAs(c, "accept", b, e) /\ row.status = "PENDING"
    BY <1>3 DEF Accept, Load, LoadAs, Admitted
  <2>3. QED
    BY <2>1, <2>2 DEF LoadStep, Follows, Op, Needs
<1>4. ASSUME Reject(c, b) PROVE LoadStep(c, b)
  <2> DEFINE e == Assign(row, [status |-> "REJECTED"])
  <2>1. e \in BookingRow /\ e.status = "REJECTED"
    BY <1>0 DEF Assign, BookingRow, Status
  <2>2. LoadAs(c, "reject", b, e) /\ row.status = "PENDING"
    BY <1>4 DEF Reject, Load, LoadAs, Admitted
  <2>3. QED
    BY <2>1, <2>2 DEF LoadStep, Follows, Op, Needs
<1>5. ASSUME Start(c, b) PROVE LoadStep(c, b)
  <2> DEFINE e == Assign(row, [status |-> "IN_PROGRESS", startedAt |-> TRUE])
  <2>1. e \in BookingRow /\ e.status = "IN_PROGRESS"
    BY <1>0 DEF Assign, BookingRow, Status
  <2>2. LoadAs(c, "start", b, e) /\ row.status = "PROVIDER_ARRIVED"
    BY <1>5 DEF Start, Load, LoadAs, Admitted
  <2>3. QED
    BY <2>1, <2>2 DEF LoadStep, Follows, Op, Needs
<1>6. ASSUME MarkEnRoute(c, b) PROVE LoadStep(c, b)
  <2> DEFINE e == Assign(row, [status |-> "PROVIDER_EN_ROUTE"])
  <2>1. e \in BookingRow /\ e.status = "PROVIDER_EN_ROUTE"
    BY <1>0 DEF Assign, BookingRow, Status
  <2>2. LoadAs(c, "enRoute", b, e)
    BY <1>6 DEF MarkEnRoute, Load, LoadAs
  <2>3. QED
    BY <2>1, <2>2 DEF LoadStep, Follows, Op, Needs
<1>7. ASSUME MarkArrived(c, b) PROVE LoadStep(c, b)
  <2> DEFINE e == Assign(row, [status |-> "PROVIDER_ARRIVED", arrivedAt |-> TRUE])
  <2>1. e \in BookingRow /\ e.status = "PROVIDER_ARRIVED"
    BY <1>0 DEF Assign, BookingRow, Status
  <2>2. LoadAs(c, "arrived", b, e)
    BY <1>7 DEF MarkArrived, Load, LoadAs
  <2>3. QED
    BY <2>1, <2>2 DEF LoadStep, Follows, Op, Needs
<1>8. QED
  BY <1>1, <1>2, <1>3, <1>4, <1>5, <1>6, <1>7

-----------------------------------------------------------------------------
(***************************************************************************)
(* Typing.  A call's entities are there whenever a step needs them.        *)
(***************************************************************************)
CallOK ==
  \A c \in Calls :
    /\ pc[c] \in Waiting => op[c] \in Op /\ target[c] \in Bookings
    /\ pc[c] \in Waiting \ {"account"} => entity[c] \in BookingRow
    /\ pc[c] \in {"account", "credit", "crediting"} => op[c] = "complete"
    /\ pc[c] \in Waiting /\ op[c] = "complete" => account[c] \in ProviderRow

Typed == TypeOK /\ CallOK

\* The seeded tables and the idle calls have their types.
LEMMA TypedInit == Init => Typed
<1> SUFFICES ASSUME Init PROVE Typed
  OBVIOUS
<1>1. TypeOK
  BY BookingsAssumption DEF Init, TypeOK, BookingRow
<1>2. CallOK
  BY DEF Init, CallOK, Waiting
<1>3. QED
  BY <1>1, <1>2 DEF Typed

\* A call that loads a booking keeps them.
LEMMA TypedLoad ==
  ASSUME Typed, NEW c \in Calls, NEW b \in Bookings, LoadStep(c, b)
  PROVE  Typed'
BY DEF Typed, TypeOK, CallOK, LoadStep, LoadAs, CanStart, tables, Waiting

\* A call that ends keeps them.
LEMMA TypedEnd ==
  ASSUME Typed, NEW c \in Calls, NEW outcome \in Ended, EndCall(c, outcome),
         booking' \in [Bookings -> BookingRow],
         provider' \in [Providers -> ProviderRow], timeline' \subseteq TimelineRow,
         slack' \in [Bookings -> 0..2], held' \in [Bookings -> SUBSET Status]
  PROVE  Typed'
BY DEF Typed, TypeOK, CallOK, EndCall, Waiting, Ended

\* Every step of the handlers keeps them.
LEMMA TypedStep == Typed /\ [Next]_vars => Typed'
<1> SUFFICES ASSUME Typed, [Next]_vars PROVE Typed'
  OBVIOUS
<1> USE DEF Typed
<1>1. ASSUME NEW c \in Calls, NEW b \in Bookings, Request(c, b) PROVE Typed'
  <2>1. CASE LoadStep(c, b)
    BY <2>1, TypedLoad
  <2>2. CASE Complete(c, b)
    <3>1. provider[ProviderOf[b]] \in ProviderRow
      BY BookingsAssumption DEF TypeOK
    <3>2. TypeOK'
      BY <2>2, <3>1 DEF Complete, CanStart, TypeOK, tables, Waiting, Op
    <3>3. CallOK'
      BY <2>2, <3>1 DEF Complete, CanStart, TypeOK, CallOK, tables, Waiting, Op
    <3>4. QED
      BY <3>2, <3>3
  <2>3. CASE \E o \in Op : Refuse(c, o, b)
    BY <2>3 DEF Refuse, CanStart, TypeOK, CallOK, tables, Waiting, Ended
  <2>4. QED
    BY <1>1, <2>1, <2>2, <2>3, LoadSteps DEF Request
<1>2. ASSUME NEW c \in Calls, CompleteLoad(c) PROVE Typed'
  <2> DEFINE row == booking[target[c]]
             e == Assign(row, [status |-> "COMPLETED", completedAt |-> TRUE])
  <2>1. target[c] \in Bookings /\ row \in BookingRow /\ op[c] = "complete"
    BY <1>2 DEF CompleteLoad, TypeOK, CallOK, Waiting
  <2>2. e \in BookingRow
    BY <2>1 DEF Assign, BookingRow, Status
  <2>3. CASE row.status \in Admitted["complete"]
    <3>1. /\ pc' = [pc EXCEPT ![c] = "loaded"]
          /\ entity' = [entity EXCEPT ![c] = e]
          /\ UNCHANGED <<op, target, account, changed, tables, slack>>
          /\ pc[c] = "account"
      BY <1>2, <2>3 DEF CompleteLoad
    <3> HIDE DEF e
    <3>2. TypeOK'
      BY <2>2, <3>1 DEF TypeOK, tables, Waiting
    <3>3. CallOK'
      BY <2>1, <2>2, <3>1 DEF TypeOK, CallOK, tables, Waiting
    <3>4. QED
      BY <3>2, <3>3
  <2>4. CASE row.status \notin Admitted["complete"]
    <3>1. EndCall(c, "refused") /\ UNCHANGED <<tables, slack>>
      BY <1>2, <2>4 DEF CompleteLoad
    <3>2. QED
      BY <3>1, TypedEnd DEF TypeOK, tables, Ended
  <2>5. QED
    BY <2>3, <2>4
<1>3. ASSUME NEW c \in Calls, SaveSelect(c) PROVE Typed'
  <2> DEFINE cols == Changed(entity[c], booking[target[c]], Fresh[op[c]])
  <2>1. /\ target[c] \in Bookings /\ op[c] \in Op
        /\ entity[c] \in BookingRow /\ booking[target[c]] \in BookingRow
    BY <1>3 DEF SaveSelect, TypeOK, CallOK, Waiting
  <2>2. Fresh[op[c]] \in SUBSET BookingColumns
    BY <2>1 DEF Fresh, Op, BookingColumns
  <2>3. cols \subseteq BookingColumns
    BY <2>1, <2>2, ChangedBooking
  <2>4. /\ pc[c] = "loaded" /\ pc' = [pc EXCEPT ![c] = "diffed"]
        /\ changed' = [changed EXCEPT ![c] = cols]
        /\ UNCHANGED <<tables, slack, op, target, entity, account>>
    BY <1>3 DEF SaveSelect
  <2> HIDE DEF cols
  <2>5. TypeOK'
    BY <2>3, <2>4 DEF TypeOK, tables, Waiting
  <2>6. CallOK'
    BY <2>4 DEF TypeOK, CallOK, tables, Waiting
  <2>7. QED
    BY <2>5, <2>6
<1>4. ASSUME NEW c \in Calls, SaveUpdate(c) PROVE Typed'
  <2> DEFINE row == Updated(booking[target[c]], entity[c], changed[c])
  <2>1. /\ target[c] \in Bookings /\ op[c] \in Op
        /\ entity[c] \in BookingRow /\ booking[target[c]] \in BookingRow
    BY <1>4 DEF SaveUpdate, TypeOK, CallOK, Waiting
  <2>2. row \in BookingRow /\ row.status \in Status
    BY <2>1, UpdatedBooking DEF BookingRow
  <2>3. /\ pc[c] = "diffed"
        /\ booking' = [booking EXCEPT ![target[c]] = row]
        /\ held' = [held EXCEPT ![target[c]] = held[target[c]] \cup {row.status}]
        /\ UNCHANGED <<provider, timeline, slack>>
        /\ \/ EndCall(c, "ok")
           \/ /\ pc' = [pc EXCEPT ![c] = "saved"]
              /\ UNCHANGED <<op, target, entity, account, changed>>
    BY <1>4 DEF SaveUpdate
  <2> HIDE DEF row
  <2>4. /\ booking' \in [Bookings -> BookingRow]
        /\ held' \in [Bookings -> SUBSET Status]
    BY <2>1, <2>2, <2>3 DEF TypeOK
  <2>5. CASE EndCall(c, "ok")
    BY <2>3, <2>4, <2>5, TypedEnd DEF TypeOK, Ended
  <2>6. CASE /\ pc' = [pc EXCEPT ![c] = "saved"]
             /\ UNCHANGED <<op, target, entity, account, changed>>
    BY <2>3, <2>4, <2>6 DEF TypeOK, CallOK, Waiting
  <2>7. QED
    BY <2>3, <2>5, <2>6
<1>5. ASSUME NEW c \in Calls, RecordTimeline(c) PROVE Typed'
  <2>1. /\ target[c] \in Bookings /\ entity[c].status \in Status
    BY <1>5 DEF RecordTimeline, TypeOK, CallOK, Waiting, BookingRow
  <2>2. timeline' \subseteq TimelineRow
    BY <1>5, <2>1 DEF RecordTimeline, TypeOK, TimelineRow
  <2>3. CASE op[c] = "complete"
    BY <1>5, <2>2, <2>3 DEF RecordTimeline, TypeOK, CallOK, Waiting
  <2>4. CASE op[c] # "complete"
    <3>1. EndCall(c, "ok") /\ UNCHANGED <<booking, provider, slack, held>>
      BY <1>5, <2>4 DEF RecordTimeline
    <3>2. QED
      BY <2>2, <3>1, TypedEnd DEF TypeOK, Ended
  <2>5. QED
    BY <2>3, <2>4
<1>6. ASSUME NEW c \in Calls, CreditSelect(c) PROVE Typed'
  <2> DEFINE b == target[c]
             credited == Credited(account[c], b)
             cols == Changed(credited, provider[ProviderOf[b]], {"pendingEarnings"})
  <2>1. b \in Bookings /\ account[c] \in ProviderRow /\ op[c] = "complete"
    BY <1>6 DEF CreditSelect, TypeOK, CallOK, Waiting
  <2>2. credited \in ProviderRow
    BY <2>1, CreditedProvider
  <2>3. cols \subseteq ProviderColumns
    BY <2>1, <2>2, ChangedProvider, BookingsAssumption DEF TypeOK
  <2>4. /\ pc[c] = "credit" /\ pc' = [pc EXCEPT ![c] = "crediting"]
        /\ account' = [account EXCEPT ![c] = credited]
        /\ changed' = [changed EXCEPT ![c] = cols]
        /\ UNCHANGED <<tables, slack, op, target, entity>>
    BY <1>6 DEF CreditSelect
  <2> HIDE DEF b, credited, cols
  <2>5. TypeOK'
    BY <2>2, <2>3, <2>4 DEF TypeOK, tables, Waiting
  <2>6. CallOK'
    BY <2>1, <2>2, <2>4 DEF TypeOK, CallOK, tables, Waiting
  <2>7. QED
    BY <2>5, <2>6
<1>7. ASSUME NEW c \in Calls, CreditUpdate(c) PROVE Typed'
  <2>1. target[c] \in Bookings /\ account[c] \in ProviderRow
    BY <1>7 DEF CreditUpdate, TypeOK, CallOK, Waiting
  <2> DEFINE p == ProviderOf[target[c]]
             written == Updated(provider[p], account[c], changed[c])
  <2>2. provider' \in [Providers -> ProviderRow]
    <3>1. provider' = provider \/ provider' = [provider EXCEPT ![p] = written]
      BY <1>7 DEF CreditUpdate
    <3>2. p \in Providers /\ provider \in [Providers -> ProviderRow]
      BY <2>1, BookingsAssumption DEF TypeOK
    <3>3. written \in ProviderRow
      BY <2>1, <3>2, UpdatedProvider
    <3> HIDE DEF p, written
    <3>4. QED
      BY <3>1, <3>2, <3>3
  <2>3. \E outcome \in Ended : EndCall(c, outcome)
    BY <1>7 DEF CreditUpdate, Ended
  <2>4. QED
    BY <1>7, <2>2, <2>3, TypedEnd DEF CreditUpdate, TypeOK
<1>8. ASSUME NEW c \in Calls, Fail(c) PROVE Typed'
  BY <1>8, TypedEnd DEF Fail, TypeOK, tables, Ended
<1>9. ASSUME NEW b \in Bookings, TimePasses(b) PROVE Typed'
  BY <1>9 DEF TimePasses, TypeOK, CallOK, tables, calls
<1>10. CASE UNCHANGED vars
  BY <1>10 DEF vars, tables, calls, TypeOK, CallOK
<1>11. QED
  BY <1>1, <1>2, <1>3, <1>4, <1>5, <1>6, <1>7, <1>8, <1>9, <1>10
     DEF Next, Continue

\* Every column keeps its type, whatever calls are interleaved or fail.
THEOREM TypeCorrect == Spec => []TypeOK
<1>1. Spec => []Typed
  BY TypedInit, TypedStep, PTL DEF Spec
<1>2. Typed => TypeOK
  BY DEF Typed
<1>3. QED
  BY <1>1, <1>2, PTL

-----------------------------------------------------------------------------
(***************************************************************************)
(* What the history and the timeline say.  Beyond the history of the row   *)
(* itself, the invariant follows the status each call is about to save:    *)
(* its prerequisite has been held, and once it is saved, or is not among   *)
(* the columns to write because the SELECT already returned it, it has     *)
(* been held itself.                                                       *)
(***************************************************************************)
Prepared(c) ==
  \/ entity[c].status \in held[target[c]]
  \/ entity[c].status \notin DOMAIN Needs
  \/ Needs[entity[c].status] \in held[target[c]]

HistoryInv ==
  /\ \A b \in Bookings : booking[b].status \in held[b]
  /\ \A c \in Calls :
       /\ pc[c] \in {"loaded", "diffed"} => Prepared(c)
       /\ pc[c] = "diffed" /\ "status" \notin changed[c]
            => entity[c].status \in held[target[c]]
       /\ pc[c] = "saved" => entity[c].status \in held[target[c]]
  /\ TimelineIsTruthful

\* A step that ends a call and leaves bookings and timeline alone.
LEMMA HistoryEnd ==
  ASSUME Typed, HistoryInv, NEW c \in Calls, NEW outcome \in Ended,
         EndCall(c, outcome), UNCHANGED <<booking, held, timeline>>
  PROVE  HistoryInv'
BY DEF Typed, TypeOK, CallOK, HistoryInv, Prepared, TimelineIsTruthful,
       EndCall, Ended

\* A call that loads a booking writes neither bookings nor timeline.
LEMMA HistoryLoad ==
  ASSUME Typed, HistoryInv, NEW c \in Calls, NEW b \in Bookings, LoadStep(c, b)
  PROVE  HistoryInv'
<1>1. PICK o \in Op \ {"complete"}, e \in BookingRow :
        LoadAs(c, o, b, e) /\ Follows(booking[b].status, e.status)
  BY DEF LoadStep
<1>2. \/ e.status \in held[b]
      \/ e.status \notin DOMAIN Needs
      \/ Needs[e.status] \in held[b]
  BY <1>1 DEF HistoryInv, Follows, BookingRow, Status
<1>3. QED
  BY <1>1, <1>2 DEF Typed, TypeOK, CallOK, HistoryInv, Prepared,
     TimelineIsTruthful, LoadAs, tables

\* Every step leaves the timeline and the pending saves explained by the
\* history.
LEMMA HistoryStep == Typed /\ HistoryInv /\ [Next]_vars => HistoryInv'
<1> SUFFICES ASSUME Typed, HistoryInv, [Next]_vars PROVE HistoryInv'
  OBVIOUS
<1> USE DEF Typed
<1>1. ASSUME NEW c \in Calls, NEW b \in Bookings, Request(c, b) PROVE HistoryInv'
  <2>1. CASE LoadStep(c, b)
    BY <2>1, HistoryLoad
  <2>2. CASE Complete(c, b)
    BY <2>2 DEF Complete, TypeOK, HistoryInv, Prepared, TimelineIsTruthful, tables
  <2>3. CASE \E o \in Op : Refuse(c, o, b)
    BY <2>3 DEF Refuse, TypeOK, HistoryInv, Prepared, TimelineIsTruthful, tables
  <2>4. QED
    BY <1>1, <2>1, <2>2, <2>3, LoadSteps DEF Request
<1>2. ASSUME NEW c \in Calls, CompleteLoad(c) PROVE HistoryInv'
  <2> DEFINE row == booking[target[c]]
             e == Assign(row, [status |-> "COMPLETED", completedAt |-> TRUE])
  <2>1. target[c] \in Bookings /\ row \in BookingRow
    BY <1>2 DEF CompleteLoad, TypeOK, CallOK, Waiting
  <2>2. CASE row.status \in Admitted["complete"]
    <3>1. e.status = "COMPLETED" /\ "IN_PROGRESS" \in held[target[c]]
      BY <2>1, <2>2 DEF Assign, BookingRow, Admitted, HistoryInv
    <3>2. /\ pc' = [pc EXCEPT ![c] = "loaded"]
          /\ entity' = [entity EXCEPT ![c] = e]
          /\ UNCHANGED <<op, target, account, changed, tables, slack>>
      BY <1>2, <2>2 DEF CompleteLoad
    <3> HIDE DEF e
    <3>3. Prepared(c)'
      BY <3>1, <3>2 DEF Prepared, Needs, tables, TypeOK
    <3>4. QED
      BY <3>2, <3>3 DEF HistoryInv, Prepared, TimelineIsTruthful, tables, TypeOK
  <2>3. CASE row.status \notin Admitted["complete"]
    <3>1. EndCall(c, "refused") /\ UNCHANGED <<tables, slack>>
      BY <1>2, <2>3 DEF CompleteLoad
    <3>2. QED
      BY <3>1, HistoryEnd DEF tables, Ended
  <2>4. QED
    BY <2>2, <2>3
<1>3. ASSUME NEW c \in Calls, SaveSelect(c) PROVE HistoryInv'
  <2>1. /\ target[c] \in Bookings /\ op[c] \in Op
        /\ entity[c] \in BookingRow /\ booking[target[c]] \in BookingRow
    BY <1>3 DEF SaveSelect, TypeOK, CallOK, Waiting
  <2>2. Fresh[op[c]] \in SUBSET BookingColumns
    BY <2>1 DEF Fresh, Op, BookingColumns
  <2>3. "status" \notin changed'[c] => entity[c].status \in held[target[c]]
    BY <1>3, <2>1, <2>2, ChangedBooking DEF SaveSelect, TypeOK, HistoryInv
  <2>4. QED
    BY <1>3, <2>3 DEF SaveSelect, TypeOK, HistoryInv, Prepared,
       TimelineIsTruthful, tables
<1>4. ASSUME NEW c \in Calls, SaveUpdate(c) PROVE HistoryInv'
  <2> DEFINE b == target[c]
             row == Updated(booking[b], entity[c], changed[c])
  <2>1. /\ b \in Bookings /\ entity[c] \in BookingRow /\ booking[b] \in BookingRow
    BY <1>4 DEF SaveUpdate, TypeOK, CallOK, Waiting
  <2>2. row.status = IF "status" \in changed[c] THEN entity[c].status
                                                ELSE booking[b].status
    BY <2>1, UpdatedBooking
  <2>3. /\ pc[c] = "diffed"
        /\ booking' = [booking EXCEPT ![b] = row]
        /\ held' = [held EXCEPT ![b] = held[b] \cup {row.status}]
        /\ UNCHANGED <<provider, timeline, slack>>
        /\ \/ EndCall(c, "ok")
           \/ /\ pc' = [pc EXCEPT ![c] = "saved"]
              /\ UNCHANGED <<op, target, entity, account, changed>>
    BY <1>4 DEF SaveUpdate
  <2>4. entity[c].status \in held'[b]
    BY <2>1, <2>2, <2>3 DEF HistoryInv, TypeOK
  <2>5. \A bb \in Bookings : booking'[bb].status \in held'[bb] /\ held[bb] \subseteq held'[bb]
    BY <2>1, <2>3 DEF HistoryInv, TypeOK
  <2> HIDE DEF row, b
  <2>6. CASE EndCall(c, "ok")
    BY <2>3, <2>5, <2>6 DEF EndCall, HistoryInv, Prepared, TimelineIsTruthful,
       TypeOK, CallOK, Waiting, TimelineRow
  <2>7. CASE /\ pc' = [pc EXCEPT ![c] = "saved"]
             /\ UNCHANGED <<op, target, entity, account, changed>>
    BY <2>3, <2>4, <2>5, <2>7 DEF HistoryInv, Prepared, TimelineIsTruthful,
       TypeOK, CallOK, Waiting, TimelineRow, b
  <2>8. QED
    BY <2>3, <2>6, <2>7
<1>5. ASSUME NEW c \in Calls, RecordTimeline(c) PROVE HistoryInv'
  <2>1. TimelineIsTruthful'
    BY <1>5 DEF RecordTimeline, HistoryInv, TimelineIsTruthful
  <2>2. CASE op[c] = "complete"
    BY <1>5, <2>1, <2>2 DEF RecordTimeline, HistoryInv, Prepared, TypeOK
  <2>3. CASE EndCall(c, "ok")
    BY <1>5, <2>1, <2>3 DEF RecordTimeline, EndCall, HistoryInv, Prepared, TypeOK
  <2>4. QED
    BY <1>5, <2>2, <2>3 DEF RecordTimeline
<1>6. ASSUME NEW c \in Calls, CreditSelect(c) PROVE HistoryInv'
  BY <1>6 DEF CreditSelect, HistoryInv, Prepared, TimelineIsTruthful, TypeOK, tables
<1>7. ASSUME NEW c \in Calls, CreditUpdate(c) PROVE HistoryInv'
  <2>1. \E outcome \in Ended : EndCall(c, outcome)
    BY <1>7 DEF CreditUpdate, Ended
  <2>2. QED
    BY <1>7, <2>1, HistoryEnd DEF CreditUpdate
<1>8. ASSUME NEW c \in Calls, Fail(c) PROVE HistoryInv'
  BY <1>8, HistoryEnd DEF Fail, tables, Ended
<1>9. ASSUME NEW b \in Bookings, TimePasses(b) PROVE HistoryInv'
  BY <1>9 DEF TimePasses, HistoryInv, Prepared, TimelineIsTruthful, tables, calls
<1>10. CASE UNCHANGED vars
  BY <1>10 DEF vars, tables, calls, HistoryInv, Prepared, TimelineIsTruthful
<1>11. QED
  BY <1>1, <1>2, <1>3, <1>4, <1>5, <1>6, <1>7, <1>8, <1>9, <1>10
     DEF Next, Continue

\* At first there is no timeline and no pending save.
LEMMA HistoryInit == Init => HistoryInv
BY DEF Init, HistoryInv, TimelineIsTruthful

\* The types and the history hold in every state.
LEMMA History == Spec => [](Typed /\ HistoryInv)
BY TypedInit, TypedStep, HistoryInit, HistoryStep, PTL DEF Spec

\* The timeline tells only of statuses the booking has had, for any number
\* of calls at a time.
THEOREM TimelineTruthful == Spec => []TimelineIsTruthful
<1>1. HistoryInv => TimelineIsTruthful
  BY DEF HistoryInv
<1>2. QED
  BY <1>1, History, PTL

\* Only SaveUpdate changes the history, and the call that takes the step has
\* seen to the prerequisite.
LEMMA OrderStep ==
  ASSUME Typed, HistoryInv, [Next]_vars, NEW b \in Bookings,
         NEW s \in (held'[b] \ held[b]) \cap DOMAIN Needs
  PROVE  Needs[s] \in held[b]
<1> USE DEF Typed
<1>1. ASSUME NEW c \in Calls, SaveUpdate(c) PROVE Needs[s] \in held[b]
  <2> DEFINE row == Updated(booking[target[c]], entity[c], changed[c])
  <2>1. /\ target[c] \in Bookings /\ entity[c] \in BookingRow
        /\ booking[target[c]] \in BookingRow /\ pc[c] = "diffed"
    BY <1>1 DEF SaveUpdate, TypeOK, CallOK, Waiting
  <2>2. row.status = entity[c].status \/ row.status = booking[target[c]].status
    BY <2>1, UpdatedBooking
  <2>3. held' = [held EXCEPT ![target[c]] = held[target[c]] \cup {row.status}]
    BY <1>1 DEF SaveUpdate
  <2>4. b = target[c] /\ s = row.status /\ s = entity[c].status
    BY <2>1, <2>2, <2>3 DEF HistoryInv, TypeOK
  <2>5. QED
    BY <2>1, <2>4 DEF HistoryInv, Prepared
<1>2. ASSUME NEW c \in Calls, NEW bb \in Bookings, Request(c, bb)
      PROVE  held' = held
  BY <1>2, LoadSteps DEF Request, LoadStep, LoadAs, Complete, Refuse, tables
<1>3. ASSUME NEW c \in Calls, Continue(c), ~SaveUpdate(c) PROVE held' = held
  BY <1>3 DEF Continue, CompleteLoad, SaveSelect, RecordTimeline, CreditSelect,
     CreditUpdate, tables
<1>4. QED
  BY <1>1, <1>2, <1>3 DEF Next, Fail, TimePasses, vars, tables

\* A booking is confirmed or rejected only after it was pending, in progress
\* only after the provider arrived, completed only after it was in progress.
THEOREM OrderOfLife == Spec => LifecycleOrder
<1> DEFINE Ordered == \A b \in Bookings :
      \A s \in (held'[b] \ held[b]) \cap DOMAIN Needs : Needs[s] \in held[b]
<1>1. Typed /\ HistoryInv /\ [Next]_vars => [Ordered]_vars
  BY OrderStep
<1>2. QED
  BY <1>1, History, PTL DEF Spec, LifecycleOrder

-----------------------------------------------------------------------------
(***************************************************************************)
(* A lock on the booking's row.  Any number of calls may be under way, but *)
(* no two of them hold the entity of the same booking: what serving one    *)
(* call at a time brings about, and what `FOR UPDATE` in the handlers'     *)
(* findOne would.  Nobody else then changes the row between a handler's    *)
(* decision and its UPDATE, and the save stores the entity: the two are    *)
(* one step of the lifecycle the status checks promise.                    *)
(***************************************************************************)
Transition == Lifecycle!Transition

\* Between two statuses there is nothing to do, or a transition.
Moves(s, t) == s = t \/ <<s, t>> \in Transition

RefundOK(row) ==
  /\ row.refundStatus = "PENDING" => row.refundAmount > 0
  /\ row.refundStatus = "NOT_APPLICABLE" => row.refundAmount = 0

\* A total there is half of, and seeds whose refunds match.
RefundAssumption ==
  /\ \A b \in Bookings : Total[b] > 0
  /\ \A row \in BookingSeeds : RefundOK(row)

\* The call has the entity of a booking that it has not saved yet.
Holds(c) == pc[c] \in {"loaded", "diffed"}

RowsLocked ==
  \A c, d \in Calls : Holds(c) /\ Holds(d) /\ target[c] = target[d] => c = d

\* What a call under way is about to store, given the row as it is.
Decided(c) ==
  /\ Moves(booking[target[c]].status, entity[c].status)
  /\ RefundAssumption => RefundOK(entity[c])

\* What the UPDATE does not write is in the entity already.
Covers(c) ==
  \A col \in BookingColumns :
    col \in changed[c] \/ entity[c][col] = booking[target[c]][col]

LockedInv ==
  /\ \A c \in Calls : Holds(c) => Decided(c)
  /\ \A c \in Calls : pc[c] = "diffed" => Covers(c)
  /\ RefundAssumption => RefundMatchesStatus

\* A request that loads booking b means to move it along the lifecycle, though
\* not to its completion.
SerialLoad(c, b) ==
  \E o \in Op \ {"complete"}, e \in BookingRow :
    /\ LoadAs(c, o, b, e)
    /\ Moves(booking[b].status, e.status)
    /\ e.status # "COMPLETED"
    /\ RefundAssumption /\ RefundOK(booking[b]) => RefundOK(e)

\* The amount and the status of a refund, at each of the three distances.
LEMMA RefundDecided ==
  ASSUME NEW t \in Nat, t > 0, NEW n \in 0..2
  PROVE  /\ n = 0 => RoundedShare(t, 50 * n) = 0 /\ ~(50 * n > 0)
         /\ n # 0 => RoundedShare(t, 50 * n) > 0 /\ 50 * n > 0
<1>1. CASE n = 0
  BY <1>1 DEF RoundedShare
<1>2. CASE n = 1
  BY <1>2 DEF RoundedShare
<1>3. CASE n = 2
  BY <1>3 DEF RoundedShare
<1> QED
  BY <1>1, <1>2, <1>3

\* Each handler's assignments, given what it checked of the row.
LEMMA SerialLoads ==
  ASSUME TypeOK, NEW c \in Calls, NEW b \in Bookings
  PROVE  /\ Update(c, b) => SerialLoad(c, b)
         /\ Cancel(c, b) => SerialLoad(c, b)
         /\ Accept(c, b) => SerialLoad(c, b)
         /\ Reject(c, b) => SerialLoad(c, b)
         /\ Start(c, b) => SerialLoad(c, b)
         /\ MarkEnRoute(c, b) => SerialLoad(c, b)
         /\ MarkArrived(c, b) => SerialLoad(c, b)
<1> DEFINE row == booking[b]
<1>0. row \in BookingRow /\ row.status \in Status
  BY DEF TypeOK, BookingRow
<1> USE DEF Lifecycle!Transition, Lifecycle!Status, Transition, Moves
<1>1. ASSUME Update(c, b) PROVE SerialLoad(c, b)
  <2> DEFINE e == Assign(row, <<>>)
  <2>1. e \in BookingRow /\ e.status = row.status /\ (RefundOK(row) => RefundOK(e))
    BY <1>0 DEF Assign, BookingRow, RefundOK
  <2>2. LoadAs(c, "update", b, e) /\ row.status = "PENDING"
    BY <1>1 DEF Update, Load, LoadAs, Admitted
  <2> QED
    BY <2>1, <2>2 DEF SerialLoad, Op
<1>2. ASSUME Cancel(c, b) PROVE SerialLoad(c, b)
  <2> DEFINE share == RoundedShare(Total[b], RefundPercentage(b))
             refund == IF RefundPercentage(b) > 0 THEN "PENDING"
                                                  ELSE "NOT_APPLICABLE"
             e == Assign(row, [status |-> "CANCELLED", cancelledAt |-> TRUE,
                               refundAmount |-> share, refundStatus |-> refund])
  <2>1. share \in Nat
    <3>1. Total[b] \in Nat /\ RefundPercentage(b) \in Nat
      BY BookingsAssumption DEF TypeOK, RefundPercentage
    <3> QED
      BY <3>1, SharesAreNatural
  <2>2. RefundAssumption => (refund = "PENDING" => share > 0)
                              /\ (refund = "NOT_APPLICABLE" => share = 0)
    <3>1. Total[b] \in Nat /\ slack[b] \in 0..2
      BY BookingsAssumption DEF TypeOK
    <3> QED
      BY <3>1, RefundDecided DEF RefundAssumption, RefundPercentage
  <2>3. refund \in {"PENDING", "NOT_APPLICABLE"}
    OBVIOUS
  <2>4. LoadAs(c, "cancel", b, e) /\ row.status \in Status \ {"COMPLETED", "CANCELLED"}
    BY <1>2, <1>0 DEF Cancel, Load, LoadAs, Admitted
  <2> HIDE DEF share, refund
  <2>5. /\ e \in BookingRow /\ e.status = "CANCELLED"
        /\ e.refundAmount = share /\ e.refundStatus = refund
    BY <1>0, <2>1, <2>3 DEF Assign, BookingRow, Status
  <2>6. RefundAssumption => RefundOK(e)
    BY <2>2, <2>5 DEF RefundOK
  <2> QED
    BY <2>4, <2>5, <2>6 DEF SerialLoad, Op, Status
<1>3. ASSUME Accept(c, b) PROVE SerialLoad(c, b)
  <2> DEFINE e == Assign(row, [status |-> "CONFIRMED", confirmedAt |-> TRUE])
  <2>1. e \in BookingRow /\ e.status = "CONFIRMED" /\ (RefundOK(row) => RefundOK(e))
    BY <1>0 DEF Assign, BookingRow, Status, RefundOK
  <2>2. LoadAs(c, "accept", b, e) /\ row.status = "PENDING"
    BY <1>3 DEF Accept, Load, LoadAs, Admitted
  <2> QED
    BY <2>1, <2>2 DEF SerialLoad, Op
<1>4. ASSUME Reject(c, b) PROVE SerialLoad(c, b)
  <2> DEFINE e == Assign(row, [status |-> "REJECTED"])
  <2>1. e \in BookingRow /\ e.status = "REJECTED" /\ (RefundOK(row) => RefundOK(e))
    BY <1>0 DEF Assign, BookingRow, Status, RefundOK
  <2>2. LoadAs(c, "reject", b, e) /\ row.status = "PENDING"
    BY <1>4 DEF Reject, Load, LoadAs, Admitted
  <2> QED
    BY <2>1, <2>2 DEF SerialLoad, Op
<1>5. ASSUME Start(c, b) PROVE SerialLoad(c, b)
  <2> DEFINE e == Assign(row, [status |-> "IN_PROGRESS", startedAt |-> TRUE])
  <2>1. e \in BookingRow /\ e.status = "IN_PROGRESS" /\ (RefundOK(row) => RefundOK(e))
    BY <1>0 DEF Assign, BookingRow, Status, RefundOK
  <2>2. LoadAs(c, "start", b, e) /\ row.status = "PROVIDER_ARRIVED"
    BY <1>5 DEF Start, Load, LoadAs, Admitted
  <2> QED
    BY <2>1, <2>2 DEF SerialLoad, Op
<1>6. ASSUME MarkEnRoute(c, b) PROVE SerialLoad(c, b)
  <2> DEFINE e == Assign(row, [status |-> "PROVIDER_EN_ROUTE"])
  <2>1. e \in BookingRow /\ e.status = "PROVIDER_EN_ROUTE"
        /\ (RefundOK(row) => RefundOK(e))
    BY <1>0 DEF Assign, BookingRow, Status, RefundOK
  <2>2. LoadAs(c, "enRoute", b, e)
    BY <1>6 DEF MarkEnRoute, Load, LoadAs
  <2> QED
    BY <1>0, <2>1, <2>2 DEF SerialLoad, Op, Status
<1>7. ASSUME MarkArrived(c, b) PROVE SerialLoad(c, b)
  <2> DEFINE e == Assign(row, [status |-> "PROVIDER_ARRIVED", arrivedAt |-> TRUE])
  <2>1. e \in BookingRow /\ e.status = "PROVIDER_ARRIVED"
        /\ (RefundOK(row) => RefundOK(e))
    BY <1>0 DEF Assign, BookingRow, Status, RefundOK
  <2>2. LoadAs(c, "arrived", b, e)
    BY <1>7 DEF MarkArrived, Load, LoadAs
  <2> QED
    BY <1>0, <2>1, <2>2 DEF SerialLoad, Op, Status
<1> QED
  BY <1>1, <1>2, <1>3, <1>4, <1>5, <1>6, <1>7

\* What has to be shown of a step of call c: what it has decided, if it still
\* holds the row, and that it has touched no row another call holds.
LEMMA LockedFrame ==
  ASSUME Typed, LockedInv, NEW c \in Calls, NEW x, pc' = [pc EXCEPT ![c] = x],
         \A d \in Calls \ {c} :
           /\ entity'[d] = entity[d] /\ target'[d] = target[d]
           /\ changed'[d] = changed[d]
           /\ Holds(d) => booking'[target[d]] = booking[target[d]],
         x \in {"loaded", "diffed"} => Decided(c)',
         x = "diffed" => Covers(c)',
         RefundAssumption => RefundMatchesStatus'
  PROVE  LockedInv'
<1>1. \A d \in Calls : pc'[d] = IF d = c THEN x ELSE pc[d]
  BY DEF Typed, TypeOK
<1>2. ASSUME NEW d \in Calls, Holds(d)' PROVE Decided(d)'
  <2>1. CASE d = c
    BY <1>1, <1>2, <2>1 DEF Holds
  <2>2. CASE d # c
    <3>1. Holds(d) /\ Decided(d)
      BY <1>1, <1>2, <2>2 DEF Holds, LockedInv
    <3> QED
      BY <2>2, <3>1 DEF Decided
  <2> QED
    BY <2>1, <2>2
<1>3. ASSUME NEW d \in Calls, (pc[d] = "diffed")' PROVE Covers(d)'
  <2>1. CASE d = c
    BY <1>1, <1>3, <2>1
  <2>2. CASE d # c
    <3>1. Holds(d) /\ Covers(d)
      BY <1>1, <1>3, <2>2 DEF Holds, LockedInv
    <3> QED
      BY <2>2, <3>1 DEF Covers
  <2> QED
    BY <2>1, <2>2
<1> QED
  BY <1>2, <1>3 DEF LockedInv

\* A call that ends, and has not changed the bookings.
LEMMA LockedEnd ==
  ASSUME Typed, LockedInv, NEW c \in Calls, NEW outcome \in Ended,
         EndCall(c, outcome), UNCHANGED booking
  PROVE  LockedInv'
<1>1. pc' = [pc EXCEPT ![c] = outcome] /\ outcome \notin {"loaded", "diffed"}
  BY DEF EndCall, Ended
<1>2. \A d \in Calls \ {c} : /\ entity'[d] = entity[d] /\ target'[d] = target[d]
                              /\ changed'[d] = changed[d]
  BY DEF EndCall, Typed, TypeOK
<1>3. RefundAssumption => RefundMatchesStatus'
  BY DEF LockedInv, RefundMatchesStatus
<1> QED
  BY <1>1, <1>2, <1>3, LockedFrame

\* The save of a decided entity stores it.
LEMMA SavedWhole ==
  ASSUME Typed, LockedInv, NEW c \in Calls, SaveUpdate(c)
  PROVE  /\ target[c] \in Bookings /\ booking[target[c]] \in BookingRow
         /\ entity[c] \in BookingRow
         /\ booking' = [booking EXCEPT ![target[c]] = entity[c]]
<1>1. /\ target[c] \in Bookings /\ booking[target[c]] \in BookingRow
      /\ entity[c] \in BookingRow /\ pc[c] = "diffed"
  BY DEF SaveUpdate, Typed, TypeOK, CallOK, Waiting
<1>2. Covers(c)
  BY <1>1 DEF LockedInv
<1>3. Updated(booking[target[c]], entity[c], changed[c]) = entity[c]
  <2>1. /\ DOMAIN booking[target[c]] = BookingColumns
        /\ DOMAIN entity[c] = BookingColumns
        /\ entity[c] = [col \in BookingColumns |-> entity[c][col]]
    BY <1>1 DEF BookingRow, BookingColumns
  <2> QED
    BY <2>1, <1>2 DEF Updated, Covers
<1> QED
  BY <1>1, <1>3 DEF SaveUpdate

\* While the rows are locked, every step keeps what the calls have decided.
LEMMA LockedStep ==
  ASSUME RowsLocked, Typed, LockedInv, [Next]_vars
  PROVE  LockedInv'
<1> USE DEF Typed
<1>1. ASSUME NEW c \in Calls, NEW b \in Bookings, Request(c, b) PROVE LockedInv'
  <2>1. CASE SerialLoad(c, b)
    <3>1. PICK o \in Op \ {"complete"}, e \in BookingRow :
            /\ LoadAs(c, o, b, e)
            /\ Moves(booking[b].status, e.status)
            /\ RefundAssumption /\ RefundOK(booking[b]) => RefundOK(e)
      BY <2>1 DEF SerialLoad
    <3>2. /\ pc' = [pc EXCEPT ![c] = "loaded"]
          /\ UNCHANGED booking /\ target'[c] = b /\ entity'[c] = e
      BY <3>1 DEF LoadAs, tables, TypeOK
    <3>3. \A d \in Calls \ {c} : /\ entity'[d] = entity[d] /\ target'[d] = target[d]
                                  /\ changed'[d] = changed[d]
      BY <3>1 DEF LoadAs, TypeOK
    <3>4. RefundAssumption => RefundMatchesStatus' /\ RefundOK(booking[b])
      BY <3>2 DEF LockedInv, RefundMatchesStatus, RefundOK
    <3>5. Decided(c)'
      BY <3>1, <3>2, <3>4 DEF Decided
    <3> QED
      BY <3>2, <3>3, <3>4, <3>5, LockedFrame
  <2>2. CASE Complete(c, b)
    <3>1. /\ pc' = [pc EXCEPT ![c] = "account"] /\ UNCHANGED booking
          /\ \A d \in Calls \ {c} : /\ entity'[d] = entity[d] /\ target'[d] = target[d]
                                    /\ changed'[d] = changed[d]
      BY <2>2 DEF Complete, tables, TypeOK
    <3>2. RefundAssumption => RefundMatchesStatus'
      BY <3>1 DEF LockedInv, RefundMatchesStatus
    <3> QED
      BY <3>1, <3>2, LockedFrame
  <2>3. CASE \E o \in Op : Refuse(c, o, b)
    <3>1. /\ pc' = [pc EXCEPT ![c] = "refused"]
          /\ UNCHANGED <<booking, entity, target, changed>>
      BY <2>3 DEF Refuse, tables
    <3>2. RefundAssumption => RefundMatchesStatus'
      BY <3>1 DEF LockedInv, RefundMatchesStatus
    <3> QED
      BY <3>1, <3>2, LockedFrame
  <2> QED
    BY <1>1, <2>1, <2>2, <2>3, SerialLoads DEF Request
<1>2. ASSUME NEW c \in Calls, CompleteLoad(c) PROVE LockedInv'
  <2> DEFINE row == booking[target[c]]
             e == Assign(row, [status |-> "COMPLETED", completedAt |-> TRUE])
  <2>1. target[c] \in Bookings /\ row \in BookingRow
    BY <1>2 DEF CompleteLoad, TypeOK, CallOK, Waiting
  <2>2. RefundAssumption => RefundMatchesStatus' /\ RefundOK(row)
    BY <1>2, <2>1 DEF CompleteLoad, tables, LockedInv, RefundMatchesStatus, RefundOK
  <2>3. CASE row.status \in Admitted["complete"]
    <3>1. /\ row.status = "IN_PROGRESS" /\ e.status = "COMPLETED"
          /\ RefundOK(row) => RefundOK(e)
      BY <2>1, <2>3 DEF Admitted, Assign, BookingRow, RefundOK
    <3>2. /\ pc' = [pc EXCEPT ![c] = "loaded"] /\ entity' = [entity EXCEPT ![c] = e]
          /\ entity'[c] = e /\ UNCHANGED <<target, changed, booking>>
      BY <1>2, <2>3 DEF CompleteLoad, tables, TypeOK
    <3>3. Moves(row.status, e.status)
      BY <3>1 DEF Moves, Transition, Lifecycle!Transition
    <3> HIDE DEF e
    <3>4. Decided(c)'
      BY <2>2, <3>1, <3>2, <3>3 DEF Decided
    <3>5. \A d \in Calls \ {c} : entity'[d] = entity[d]
      BY <3>2 DEF TypeOK
    <3> QED
      BY <2>2, <3>2, <3>4, <3>5, LockedFrame
  <2>4. CASE row.status \notin Admitted["complete"]
    BY <1>2, <2>4, LockedEnd DEF CompleteLoad, tables, Ended
  <2> QED
    BY <2>3, <2>4
<1>3. ASSUME NEW c \in Calls, SaveSelect(c) PROVE LockedInv'
  <2>1. /\ pc' = [pc EXCEPT ![c] = "diffed"] /\ pc[c] = "loaded"
        /\ UNCHANGED <<booking, target, entity>>
        /\ target[c] \in Bookings /\ booking[target[c]] \in BookingRow
        /\ changed'[c] = Changed(entity[c], booking[target[c]], Fresh[op[c]])
        /\ \A d \in Calls \ {c} : changed'[d] = changed[d]
    BY <1>3 DEF SaveSelect, tables, TypeOK, CallOK, Waiting
  <2>2. Decided(c)' /\ (RefundAssumption => RefundMatchesStatus')
    BY <2>1 DEF LockedInv, Holds, Decided, RefundMatchesStatus
  <2>3. DOMAIN booking[target[c]] = BookingColumns
    BY <2>1 DEF BookingRow, BookingColumns
  <2>4. Covers(c)'
    BY <2>1, <2>3 DEF Covers, Changed
  <2> QED
    BY <2>1, <2>2, <2>4, LockedFrame
<1>4. ASSUME NEW c \in Calls, SaveUpdate(c) PROVE LockedInv'
  <2>1. Holds(c) /\ Decided(c)
    BY <1>4 DEF SaveUpdate, LockedInv, Holds
  <2>2. \E x \in {"ok", "saved"} : pc' = [pc EXCEPT ![c] = x]
    BY <1>4 DEF SaveUpdate, EndCall
  <2>3. \A b \in Bookings :
          booking'[b] = IF b = target[c] THEN entity[c] ELSE booking[b]
    BY <1>4, SavedWhole DEF TypeOK
  <2>4. RefundAssumption => RefundMatchesStatus'
    BY <2>1, <2>3 DEF LockedInv, Decided, RefundMatchesStatus, RefundOK
  <2>5. \A d \in Calls \ {c} : /\ entity'[d] = entity[d] /\ target'[d] = target[d]
                                /\ changed'[d] = changed[d]
    BY <1>4 DEF SaveUpdate, EndCall, TypeOK
  <2>6. \A d \in Calls \ {c} : Holds(d) => booking'[target[d]] = booking[target[d]]
    BY <2>1, <2>3 DEF RowsLocked, CallOK, Holds, Waiting
  <2> QED
    BY <2>2, <2>4, <2>5, <2>6, LockedFrame
<1>5. ASSUME NEW c \in Calls,
             RecordTimeline(c) \/ CreditSelect(c) \/ CreditUpdate(c) \/ Fail(c)
      PROVE  LockedInv'
  <2>1. /\ UNCHANGED booking
        /\ \A d \in Calls \ {c} : /\ entity'[d] = entity[d] /\ target'[d] = target[d]
                                  /\ changed'[d] = changed[d]
    BY <1>5 DEF RecordTimeline, CreditSelect, CreditUpdate, Fail, EndCall, tables, TypeOK
  <2>2. \E x \in {"ok", "failed", "credit", "crediting"} : pc' = [pc EXCEPT ![c] = x]
    BY <1>5 DEF RecordTimeline, CreditSelect, CreditUpdate, Fail, EndCall
  <2>3. RefundAssumption => RefundMatchesStatus'
    BY <2>1 DEF LockedInv, RefundMatchesStatus
  <2> QED
    BY <2>1, <2>2, <2>3, LockedFrame
<1>6. CASE (\E b \in Bookings : TimePasses(b)) \/ UNCHANGED vars
  BY <1>6 DEF TimePasses, vars, tables, calls, LockedInv, Holds, Decided, Covers,
     RefundMatchesStatus
<1> QED
  BY <1>1, <1>2, <1>3, <1>4, <1>5, <1>6 DEF Next, Continue

\* At first no call is under way.
LEMMA LockedInit == Init => LockedInv
<1> SUFFICES ASSUME Init PROVE LockedInv
  OBVIOUS
<1>1. \A c \in Calls : pc[c] = "idle"
  BY DEF Init
<1>2. RefundAssumption => RefundMatchesStatus
  BY DEF Init, RefundAssumption, RefundMatchesStatus, RefundOK
<1> QED
  BY <1>1, <1>2 DEF LockedInv, Holds

\* The types and what each call has decided, for as long as the rows are locked.
LEMMA Locked == Spec /\ []RowsLocked => [](Typed /\ LockedInv)
<1>1. RowsLocked /\ Typed /\ LockedInv /\ [Next]_vars => (Typed /\ LockedInv)'
  BY TypedStep, LockedStep
<1> QED
  BY <1>1, TypedInit, LockedInit, PTL DEF Spec

\* A move of one booking is a step of the lifecycle.
LEMMA MoveIsNext ==
  ASSUME NEW x \in Bookings, NEW t \in Lifecycle!Status, Lifecycle!Move(x, t)
  PROVE  Lifecycle!Next
<1>1. \E y \in Bookings, u \in Lifecycle!Status : Lifecycle!Move(y, u)
  OBVIOUS
<1> QED
  BY <1>1 DEF Lifecycle!Next

\* A step of the handlers is a transition of one booking, or leaves every
\* booking's status as it is.
LEMMA StatusStep ==
  ASSUME Typed, LockedInv, [Next]_vars
  PROVE  \/ \E b \in Bookings, s \in Status :
               /\ Moves(booking[b].status, s)
               /\ \A a \in Bookings :
                    booking'[a].status = IF a = b THEN s ELSE booking[a].status
         \/ UNCHANGED booking
<1>1. ASSUME NEW c \in Calls, SaveUpdate(c)
      PROVE  \E b \in Bookings, s \in Status :
               /\ Moves(booking[b].status, s)
               /\ \A a \in Bookings :
                    booking'[a].status = IF a = b THEN s ELSE booking[a].status
  <2>1. /\ target[c] \in Bookings /\ entity[c] \in BookingRow
        /\ booking' = [booking EXCEPT ![target[c]] = entity[c]]
        /\ booking \in [Bookings -> BookingRow]
    BY <1>1, SavedWhole DEF Typed, TypeOK
  <2>2. PICK b \in Bookings, s \in Status : b = target[c] /\ s = entity[c].status
    BY <2>1 DEF BookingRow
  <2>3. Moves(booking[b].status, s)
    BY <1>1, <2>2 DEF SaveUpdate, LockedInv, Holds, Decided
  <2>4. \A a \in Bookings :
          booking'[a].status = IF a = b THEN s ELSE booking[a].status
    BY <2>1, <2>2
  <2> QED
    BY <2>3, <2>4
<1>2. ASSUME NEW c \in Calls, NEW b \in Bookings, Request(c, b)
      PROVE  UNCHANGED booking
  BY <1>2, LoadSteps DEF Request, LoadStep, LoadAs, Complete, Refuse, tables, Typed
<1>3. ASSUME NEW c \in Calls, Continue(c), ~SaveUpdate(c) PROVE UNCHANGED booking
  BY <1>3 DEF Continue, CompleteLoad, SaveSelect, RecordTimeline, CreditSelect,
     CreditUpdate, tables
<1>4. (\E c \in Calls : SaveUpdate(c)) \/ UNCHANGED booking
  BY <1>2, <1>3 DEF Next, Continue, Fail, TimePasses, vars, tables
<1> QED
  BY <1>1, <1>4

\* The same, in the words of the abstract specification.
LEMMA LifecycleStep ==
  ASSUME Typed, LockedInv, [Next]_vars
  PROVE  [Lifecycle!Next]_([b \in Bookings |-> booking[b].status])
<1> DEFINE status == [b \in Bookings |-> booking[b].status]
<1>1. CASE UNCHANGED booking
  BY <1>1
<1>2. ASSUME NEW b \in Bookings, NEW s \in Status, Moves(booking[b].status, s),
             \A a \in Bookings :
               booking'[a].status = IF a = b THEN s ELSE booking[a].status
      PROVE  Lifecycle!Next \/ status' = status
  <2>1. status' = [status EXCEPT ![b] = s]
    BY <1>2
  <2>2. CASE status[b] = s
    BY <1>2, <2>2
  <2>3. CASE <<status[b], s>> \in Lifecycle!Transition
    <3>1. Lifecycle!Move(b, s) /\ s \in Lifecycle!Status
      BY <2>1, <2>3 DEF Lifecycle!Move, Lifecycle!Status, Status
    <3> QED
      BY <3>1, MoveIsNext
  <2> QED
    BY <1>2, <2>2, <2>3 DEF Moves, Transition
<1> QED
  BY <1>1, <1>2, StatusStep

\* Any statuses the table may start with are a start of the lifecycle.
LEMMA LifecycleInit == Init => Lifecycle!Init
<1> SUFFICES ASSUME Init PROVE Lifecycle!Init
  OBVIOUS
<1>1. booking \in [Bookings -> BookingRow]
  BY TypedInit DEF Typed, TypeOK
<1> QED
  BY <1>1 DEF Lifecycle!Init, Lifecycle!Status, BookingRow, Status

\* For as long as no two calls hold the same booking, however many are under
\* way and wherever they fail, the handlers implement the lifecycle their status
\* checks promise.
THEOREM LifecycleUnderLock == Spec /\ []RowsLocked => ImplementsLifecycle
<1>1. Typed /\ LockedInv /\ [Next]_vars
        => [Lifecycle!Next]_([b \in Bookings |-> booking[b].status])
  BY LifecycleStep
<1> QED
  BY <1>1, LifecycleInit, Locked, PTL DEF Spec, ImplementsLifecycle, Lifecycle!Spec

\* Under the same lock cancel never takes a completed booking back: the answer
\* "Cannot cancel booking in current status" is kept, which it is not without.
THEOREM CompletionFinalUnderLock == Spec /\ []RowsLocked => CompletedNotCancelled
<1> DEFINE Kept == \A b \in Bookings :
      booking[b].status = "COMPLETED" => booking'[b].status # "CANCELLED"
<1>1. Typed /\ LockedInv /\ [Next]_vars => [Kept]_vars
  <2> SUFFICES ASSUME Typed, LockedInv, [Next]_vars, NEW a \in Bookings,
                      booking[a].status = "COMPLETED", booking'[a].status = "CANCELLED"
               PROVE  FALSE
    OBVIOUS
  <2>1. ~UNCHANGED booking
    OBVIOUS
  <2>2. PICK b \in Bookings, s \in Status :
          /\ Moves(booking[b].status, s)
          /\ booking'[a].status = IF a = b THEN s ELSE booking[a].status
    BY <2>1, StatusStep
  <2>3. Moves("COMPLETED", "CANCELLED")
    BY <2>2
  <2> QED
    BY <2>3 DEF Moves, Transition, Lifecycle!Transition, Lifecycle!Status
<1> QED
  BY <1>1, Locked, PTL DEF Spec, CompletedNotCancelled

\* Under the same lock a refund is awaited exactly when there is something to
\* refund: cancel computes both columns and its save stores both.
THEOREM RefundsAwaitedUnderLock ==
  ASSUME RefundAssumption
  PROVE  Spec /\ []RowsLocked => []RefundMatchesStatus
<1>1. LockedInv => RefundMatchesStatus
  BY DEF LockedInv
<1> QED
  BY <1>1, Locked, PTL

-----------------------------------------------------------------------------
(***************************************************************************)
(* One call at a time: the process serves a single call, and a call that   *)
(* is alone holds its rows alone.                                          *)
(***************************************************************************)
OneAtATime == \A c, d \in Calls : pc[c] \in Waiting /\ pc[d] \in Waiting => c = d

Alone(c) == \A d \in Calls : pc[d] \in Waiting => d = c

\* With one slot, the call that takes it is alone.
LEMMA AloneToStart ==
  ASSUME MaxInFlight = 1, NEW c \in Calls, CanStart(c)
  PROVE  Alone(c)
<1>1. IsFiniteSet(InFlight)
  <2>1. InFlight \subseteq Calls
    BY DEF InFlight
  <2> QED
    BY <2>1, FS_Subset, BookingsAssumption
<1>2. Cardinality(InFlight) \in Nat /\ Cardinality(InFlight) < 1
  BY <1>1, FS_CardinalityType DEF CanStart
<1>3. InFlight = {}
  BY <1>1, <1>2, FS_EmptySet
<1> QED
  BY <1>3 DEF InFlight, Alone

\* With one slot, a step is one of the call that is under way, or of one that
\* finds nobody under way.
LEMMA OneAtATimeStep ==
  ASSUME MaxInFlight = 1, Typed, OneAtATime, [Next]_vars
  PROVE  OneAtATime'
<1> USE DEF Typed
<1>1. ASSUME NEW c \in Calls, Alone(c), NEW x, pc' = [pc EXCEPT ![c] = x]
      PROVE  OneAtATime'
  BY <1>1 DEF Alone, OneAtATime, TypeOK
<1>2. ASSUME NEW c \in Calls, NEW b \in Bookings, Request(c, b) PROVE OneAtATime'
  <2>1. CanStart(c) /\ \E x : pc' = [pc EXCEPT ![c] = x]
    BY <1>2, LoadSteps DEF Request, LoadStep, LoadAs, Complete, Refuse
  <2> QED
    BY <1>1, <2>1, AloneToStart
<1>3. ASSUME NEW c \in Calls, Continue(c) \/ Fail(c) PROVE OneAtATime'
  <2>1. pc[c] \in Waiting /\ \E x : pc' = [pc EXCEPT ![c] = x]
    BY <1>3 DEF Continue, CompleteLoad, SaveSelect, SaveUpdate, RecordTimeline,
       CreditSelect, CreditUpdate, Fail, EndCall, Waiting
  <2>2. Alone(c)
    BY <2>1 DEF OneAtATime, Alone
  <2> QED
    BY <1>1, <2>1, <2>2
<1>4. CASE (\E b \in Bookings : TimePasses(b)) \/ UNCHANGED vars
  BY <1>4 DEF TimePasses, vars, calls, OneAtATime
<1> QED
  BY <1>2, <1>3, <1>4 DEF Next

\* With one slot there is one call under way, in every state.
LEMMA Serial == ASSUME MaxInFlight = 1 PROVE Spec => []OneAtATime
<1>1. Init => OneAtATime
  BY DEF Init, OneAtATime, Waiting
<1>2. Typed /\ OneAtATime /\ [Next]_vars => (Typed /\ OneAtATime)'
  BY TypedStep, OneAtATimeStep
<1> QED
  BY <1>1, <1>2, TypedInit, PTL DEF Spec

\* One call at a time keeps the rows locked.
LEMMA SerialLocks == ASSUME MaxInFlight = 1 PROVE Spec => []RowsLocked
<1>1. OneAtATime => RowsLocked
  BY DEF OneAtATime, RowsLocked, Holds, Waiting
<1> QED
  BY <1>1, Serial, PTL

\* Served one at a time, the handlers implement the lifecycle their status
\* checks promise, wherever a call may fail.
THEOREM LifecycleImplemented ==
  ASSUME MaxInFlight = 1
  PROVE  Spec => ImplementsLifecycle
BY SerialLocks, LifecycleUnderLock, PTL

\* Served one at a time, a refund is awaited exactly when there is something to
\* refund.
THEOREM RefundsAwaited ==
  ASSUME MaxInFlight = 1, RefundAssumption
  PROVE  Spec => []RefundMatchesStatus
BY SerialLocks, RefundsAwaitedUnderLock, PTL

\* Served one at a time, no completed booking is cancelled.
THEOREM CompletionFinal ==
  ASSUME MaxInFlight = 1
  PROVE  Spec => CompletedNotCancelled
BY SerialLocks, CompletionFinalUnderLock, PTL
=============================================================================
