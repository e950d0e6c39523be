------------------------------ MODULE SeedData ------------------------------
(***************************************************************************)
(* The rows the seeds insert (src/database/seeds), in the columns the      *)
(* other modules hold: the only source of bookings, as no handler can      *)
(* insert one (README.md, Bookings).  Amounts are in hundredths.           *)
(***************************************************************************)
EXTENDS Naturals, Sequences

LOCAL Row(status, stamps, refundAmount, refundStatus) ==
  [status       |-> status,
   confirmedAt  |-> "confirmedAt" \in stamps,
   arrivedAt    |-> "arrivedAt" \in stamps,
   startedAt    |-> "startedAt" \in stamps,
   completedAt  |-> "completedAt" \in stamps,
   cancelledAt  |-> "cancelledAt" \in stamps,
   refundAmount |-> refundAmount,
   refundStatus |-> refundStatus]

\* BK2025010001 to BK2025010005.
SeededBookings ==
  <<Row("COMPLETED", {"startedAt", "completedAt"}, 0, "NONE"),
    Row("IN_PROGRESS", {"startedAt"}, 0, "NONE"),
    Row("CONFIRMED", {"confirmedAt"}, 0, "NONE"),
    Row("CANCELLED", {"cancelledAt"}, 35250, "COMPLETED"),
    Row("PENDING", {}, 0, "NONE")>>

SeededTotals == <<40250, 23000, 20700, 40250, 24150>>

\* Quick Clean Services, Expert Electricians, Prime Plumbing, Pro Painters.
SeededProviders ==
  LET Provider(status, pending, total, completed) ==
        [status |-> status, suspensionCount |-> 0, pendingEarnings |-> pending,
         totalBookings |-> total, completedBookings |-> completed]
  IN <<Provider("ACTIVE", 230000, 234, 220),
       Provider("ACTIVE", 350000, 312, 298),
       Provider("ACTIVE", 180000, 189, 175),
       Provider("PENDING_APPROVAL", 0, 0, 0)>>

SeededRates == <<15, 12, 15, 15>>

\* The bookings are dealt to the first three providers in turn.
SeededProviderOf == [i \in 1..5 |-> ((i - 1) % 3) + 1]
=============================================================================
