------------------------------ MODULE Bookings ------------------------------
(***************************************************************************)
(* BookingsService (src/modules/bookings/bookings.service.ts): the         *)
(* handlers that change a booking, each split at its awaits.  A call is    *)
(* one HTTP request: it loads rows, decides, saves the booking (a SELECT   *)
(* and an UPDATE), inserts a timeline row and, for complete, saves the     *)
(* provider row it loaded before anything else.                            *)
(***************************************************************************)
EXTENDS Rows, FiniteSets

CONSTANTS
  Bookings,      \* rows of table bookings
  Providers,     \* rows of table providers
  Calls,         \* the requests that may be made, each at most once
  MaxInFlight,   \* how many of them the process serves at the same time
  ProviderOf,    \* bookings.provider_id
  Total,         \* bookings.total_amount, in hundredths
  Rate,          \* providers.commission_rate, in percent
  BookingSeeds,  \* the rows table bookings may start with
  ProviderSeed,  \* the rows table providers starts with
  NULL           \* no value

Status == {"PENDING", "CONFIRMED", "REJECTED", "PROVIDER_EN_ROUTE",
           "PROVIDER_ARRIVED", "IN_PROGRESS", "COMPLETED", "CANCELLED"}

\* A timestamp column is TRUE when it is set and FALSE when it is NULL.
BookingRow == [status : Status, confirmedAt : BOOLEAN, arrivedAt : BOOLEAN,
               startedAt : BOOLEAN, completedAt : BOOLEAN,
               cancelledAt : BOOLEAN, refundAmount : Nat,
               refundStatus : {"NONE", "PENDING", "NOT_APPLICABLE", "COMPLETED"}]

BookingColumns == {"status", "confirmedAt", "arrivedAt", "startedAt",
                   "completedAt", "cancelledAt", "refundAmount", "refundStatus"}

ProviderRow == [status : {"PENDING_APPROVAL", "ACTIVE", "SUSPENDED", "REJECTED"},
                suspensionCount : Nat, pendingEarnings : Nat,
                totalBookings : Nat, completedBookings : Nat]

ProviderColumns == {"status", "suspensionCount", "pendingEarnings",
                    "totalBookings", "completedBookings"}

ASSUME BookingsAssumption ==
  /\ MaxInFlight \in Nat
  /\ ProviderOf \in [Bookings -> Providers]
  /\ Total \in [Bookings -> Nat]
  /\ Rate \in [Providers -> 0..100]
  /\ BookingSeeds \subseteq BookingRow
  /\ ProviderSeed \in [Providers -> ProviderRow]
  /\ IsFiniteSet(Calls)

Op == {"update", "cancel", "accept", "reject", "start", "complete",
       "enRoute", "arrived"}

VARIABLES
  booking,    \* table bookings
  provider,   \* table providers
  timeline,   \* table booking_timeline; a row is named by the call that wrote it
  slack,      \* whole two-hour periods left before scheduledAt, at most 2
  held,       \* history: the statuses each booking has had in the table
  pc,         \* where each call stands
  op,         \* the operation it performs
  target,     \* the booking it names
  entity,     \* the booking entity it holds
  account,    \* the provider entity it holds
  changed     \* the columns its pending UPDATE writes

tables == <<booking, provider, timeline, held>>
calls == <<pc, op, target, entity, account, changed>>
vars == <<tables, slack, calls>>

Waiting == {"account", "loaded", "diffed", "saved", "credit", "crediting"}
Ended == {"ok", "refused", "failed"}
InFlight == {c \in Calls : pc[c] \in Waiting}

TimelineRow == [call : Calls, booking : Bookings, status : Status]

TypeOK ==
  /\ booking \in [Bookings -> BookingRow]
  /\ provider \in [Providers -> ProviderRow]
  /\ timeline \subseteq TimelineRow
  /\ slack \in [Bookings -> 0..2]
  /\ held \in [Bookings -> SUBSET Status]
  /\ pc \in [Calls -> {"idle"} \cup Waiting \cup Ended]
  /\ op \in [Calls -> Op \cup {NULL}]
  /\ target \in [Calls -> Bookings \cup {NULL}]
  /\ entity \in [Calls -> BookingRow \cup {NULL}]
  /\ account \in [Calls -> ProviderRow \cup {NULL}]
  /\ changed \in [Calls -> SUBSET (BookingColumns \cup ProviderColumns)]

Init ==
  /\ booking \in [Bookings -> BookingSeeds]
  /\ provider = ProviderSeed
  /\ timeline = {}
  /\ slack \in [Bookings -> 0..2]
  /\ held = [b \in Bookings |-> {booking[b].status}]
  /\ pc = [c \in Calls |-> "idle"]
  /\ op = [c \in Calls |-> NULL]
  /\ target = [c \in Calls |-> NULL]
  /\ entity = [c \in Calls |-> NULL]
  /\ account = [c \in Calls |-> NULL]
  /\ changed = [c \in Calls |-> {}]

-----------------------------------------------------------------------------
(***************************************************************************)
(* Loading and deciding.  Between the await that returns the booking and   *)
(* the call of save there is no other await: the check of the status and   *)
(* the assignments are one step with the read.                             *)
(***************************************************************************)

\* Fault: cancel forgets that a completed booking is final.
AdmittedAfterCompletion ==
  [update |-> {"PENDING"}, cancel |-> Status \ {"CANCELLED"},
   accept |-> {"PENDING"}, reject |-> {"PENDING"},
   start |-> {"PROVIDER_ARRIVED"}, complete |-> {"IN_PROGRESS"},
   enRoute |-> Status, arrived |-> Status]

\* The statuses in which a handler goes on; in the others it throws.
Admitted == [update   |-> {"PENDING"},
             cancel   |-> Status \ {"COMPLETED", "CANCELLED"},
             accept   |-> {"PENDING"},
             reject   |-> {"PENDING"},
             start    |-> {"PROVIDER_ARRIVED"},
             complete |-> {"IN_PROGRESS"},
             enRoute  |-> Status,
             arrived  |-> Status]

\* Columns assigned a new Date, or a number where a decimal is stored.
Fresh == [update |-> {}, cancel |-> {"cancelledAt", "refundAmount"},
          accept |-> {"confirmedAt"}, reject |-> {}, start |-> {"startedAt"},
          complete |-> {"completedAt"}, enRoute |-> {}, arrived |-> {"arrivedAt"}]

\* A call that has ended leaves nothing behind but its outcome.
EndCall(c, outcome) ==
  /\ pc' = [pc EXCEPT ![c] = outcome]
  /\ op' = [op EXCEPT ![c] = NULL]
  /\ target' = [target EXCEPT ![c] = NULL]
  /\ entity' = [entity EXCEPT ![c] = NULL]
  /\ account' = [account EXCEPT ![c] = NULL]
  /\ changed' = [changed EXCEPT ![c] = {}]

CanStart(c) == pc[c] = "idle" /\ Cardinality(InFlight) < MaxInFlight

\* Fault: the handlers do not check the status they loaded.
LoadUnchecked(c, o, b, patch) ==
  /\ CanStart(c)
  /\ pc' = [pc EXCEPT ![c] = "loaded"]
  /\ op' = [op EXCEPT ![c] = o]
  /\ target' = [target EXCEPT ![c] = b]
  /\ entity' = [entity EXCEPT ![c] = Assign(booking[b], patch)]
  /\ UNCHANGED <<tables, slack, account, changed>>

\* A request reaches its handler and loads booking b, which admits o.
Load(c, o, b, patch) ==
  /\ CanStart(c)
  /\ booking[b].status \in Admitted[o]
  /\ pc' = [pc EXCEPT ![c] = "loaded"]
  /\ op' = [op EXCEPT ![c] = o]
  /\ target' = [target EXCEPT ![c] = b]
  /\ entity' = [entity EXCEPT ![c] = Assign(booking[b], patch)]
  /\ UNCHANGED <<tables, slack, account, changed>>

\* The DTO's fields are no columns of the row, except serviceId, which the
\* loaded relation `service` overrides: nothing is assigned that is stored.
Update(c, b) == Load(c, "update", b, <<>>)

\* Fault: the percentages are taken one threshold too late.
RefundPercentageLate(b) == 50 * (slack[b] - 1)

\* calculateRefundPercentage: 100 from four hours on, 50 from two, else 0.
RefundPercentage(b) == 50 * slack[b]

\* Fault: a refund of nothing is awaited too (>= for >).
CancelAwaitingNothing(c, b) ==
  Load(c, "cancel", b,
       [status |-> "CANCELLED", cancelledAt |-> TRUE,
        refundAmount |-> RoundedShare(Total[b], RefundPercentage(b)),
        refundStatus |-> IF RefundPercentage(b) >= 0 THEN "PENDING"
                                                     ELSE "NOT_APPLICABLE"])

Cancel(c, b) ==
  Load(c, "cancel", b,
       [status |-> "CANCELLED", cancelledAt |-> TRUE,
        refundAmount |-> RoundedShare(Total[b], RefundPercentage(b)),
        refundStatus |-> IF RefundPercentage(b) > 0 THEN "PENDING"
                                                    ELSE "NOT_APPLICABLE"])

Accept(c, b) ==
  Load(c, "accept", b, [status |-> "CONFIRMED", confirmedAt |-> TRUE])

Reject(c, b) == Load(c, "reject", b, [status |-> "REJECTED"])

Start(c, b) ==
  Load(c, "start", b, [status |-> "IN_PROGRESS", startedAt |-> TRUE])

MarkEnRoute(c, b) == Load(c, "enRoute", b, [status |-> "PROVIDER_EN_ROUTE"])

MarkArrived(c, b) ==
  Load(c, "arrived", b, [status |-> "PROVIDER_ARRIVED", arrivedAt |-> TRUE])

\* The status check of any handler but complete fails: it throws.
Refuse(c, o, b) ==
  /\ CanStart(c)
  /\ o # "complete"
  /\ booking[b].status \notin Admitted[o]
  /\ pc' = [pc EXCEPT ![c] = "refused"]
  /\ UNCHANGED <<tables, slack, op, target, entity, account, changed>>

\* complete keeps the provider row it reads first; the other provider
\* handlers use only its id, which never changes.
Complete(c, b) ==
  /\ CanStart(c)
  /\ pc' = [pc EXCEPT ![c] = "account"]
  /\ op' = [op EXCEPT ![c] = "complete"]
  /\ target' = [target EXCEPT ![c] = b]
  /\ account' = [account EXCEPT ![c] = provider[ProviderOf[b]]]
  /\ UNCHANGED <<tables, slack, entity, changed>>

CompleteLoad(c) ==
  LET row == booking[target[c]] IN
  /\ pc[c] = "account"
  /\ IF row.status \in Admitted["complete"]
       THEN /\ pc' = [pc EXCEPT ![c] = "loaded"]
            /\ entity' = [entity EXCEPT ![c] =
                 Assign(row, [status |-> "COMPLETED", completedAt |-> TRUE])]
            /\ UNCHANGED <<op, target, account, changed>>
       ELSE EndCall(c, "refused")
  /\ UNCHANGED <<tables, slack>>

-----------------------------------------------------------------------------
(***************************************************************************)
(* bookingRepository.save, createTimelineEntry, providerRepository.save.   *)
(***************************************************************************)
SaveSelect(c) ==
  /\ pc[c] = "loaded"
  /\ pc' = [pc EXCEPT ![c] = "diffed"]
  /\ changed' = [changed EXCEPT ![c] =
       Changed(entity[c], booking[target[c]], Fresh[op[c]])]
  /\ UNCHANGED <<tables, slack, op, target, entity, account>>

\* Fault: complete credits the provider before it records the timeline.
SaveUpdateThenCredit(c) ==
  LET b == target[c]
      row == Updated(booking[b], entity[c], changed[c])
  IN
  /\ pc[c] = "diffed"
  /\ booking' = [booking EXCEPT ![b] = row]
  /\ held' = [held EXCEPT ![b] = held[b] \cup {row.status}]
  /\ pc' = [pc EXCEPT ![c] = IF op[c] = "complete" THEN "credit" ELSE "saved"]
  /\ UNCHANGED <<provider, timeline, slack, op, target, entity, account, changed>>

SaveUpdate(c) ==
  LET b == target[c]
      row == Updated(booking[b], entity[c], changed[c])
  IN
  /\ pc[c] = "diffed"
  /\ booking' = [booking EXCEPT ![b] = row]
  /\ held' = [held EXCEPT ![b] = held[b] \cup {row.status}]
  /\ IF op[c] = "update"
       THEN EndCall(c, "ok")
       ELSE /\ pc' = [pc EXCEPT ![c] = "saved"]
            /\ UNCHANGED <<op, target, entity, account, changed>>
  /\ UNCHANGED <<provider, timeline, slack>>

\* Fault: the timeline is recorded and the booking is not saved.
RecordTimelineUnsaved(c) ==
  /\ pc[c] \in {"loaded", "saved"}
  /\ timeline' = timeline \cup
       {[call |-> c, booking |-> target[c], status |-> entity[c].status]}
  /\ EndCall(c, "ok")
  /\ UNCHANGED <<booking, provider, slack, held>>

\* Fault: complete returns once the timeline is recorded.
RecordTimelineAndReturn(c) ==
  /\ pc[c] = "saved"
  /\ timeline' = timeline \cup
       {[call |-> c, booking |-> target[c], status |-> entity[c].status]}
  /\ EndCall(c, "ok")
  /\ UNCHANGED <<booking, provider, slack, held>>

RecordTimeline(c) ==
  /\ pc[c] = "saved"
  /\ timeline' = timeline \cup
       {[call |-> c, booking |-> target[c], status |-> entity[c].status]}
  /\ IF op[c] = "complete"
       THEN /\ pc' = [pc EXCEPT ![c] = "credit"]
            /\ UNCHANGED <<op, target, entity, account, changed>>
       ELSE EndCall(c, "ok")
  /\ UNCHANGED <<booking, provider, slack, held>>

\* totalAmount less commission, in ten-thousandths.
Earning(b) == Total[b] * (100 - Rate[ProviderOf[b]])

\* Fault: complete counts the booking in one of the two counters.
CreditedOnce(row, b) ==
  Assign(row, [pendingEarnings   |-> Appended(row.pendingEarnings, Earning(b) \div 10000),
               completedBookings |-> row.completedBookings + 1])

\* The three increments of complete, on the provider entity it loaded.
Credited(row, b) ==
  Assign(row, [pendingEarnings   |-> Appended(row.pendingEarnings, Earning(b) \div 10000),
               totalBookings     |-> row.totalBookings + 1,
               completedBookings |-> row.completedBookings + 1])

CreditSelect(c) ==
  LET b == target[c]
      credited == Credited(account[c], b)
  IN
  /\ pc[c] = "credit"
  /\ pc' = [pc EXCEPT ![c] = "crediting"]
  /\ account' = [account EXCEPT ![c] = credited]
  /\ changed' = [changed EXCEPT ![c] =
       Changed(credited, provider[ProviderOf[b]], {"pendingEarnings"})]
  /\ UNCHANGED <<tables, slack, op, target, entity>>

\* The UPDATE, which the server refuses when pendingEarnings is no numeric.
CreditUpdate(c) ==
  LET p == ProviderOf[target[c]] IN
  /\ pc[c] = "crediting"
  /\ IF IsWhole(Earning(target[c]))
       THEN /\ provider' = [provider EXCEPT ![p] =
                 Updated(provider[p], account[c], changed[c])]
            /\ EndCall(c, "ok")
       ELSE /\ EndCall(c, "failed")
            /\ UNCHANGED provider
  /\ UNCHANGED <<booking, timeline, slack, held>>

-----------------------------------------------------------------------------
\* A statement of the call fails, or the process stops: what it has written
\* stays, the rest never happens.
Fail(c) ==
  /\ pc[c] \in Waiting
  /\ EndCall(c, "failed")
  /\ UNCHANGED <<tables, slack>>

\* scheduledAt draws nearer.
TimePasses(b) ==
  /\ slack[b] > 0
  /\ slack' = [slack EXCEPT ![b] = slack[b] - 1]
  /\ UNCHANGED <<tables, calls>>

Request(c, b) ==
  \/ Update(c, b)
  \/ Cancel(c, b)
  \/ Accept(c, b)
  \/ Reject(c, b)
  \/ Start(c, b)
  \/ Complete(c, b)
  \/ MarkEnRoute(c, b)
  \/ MarkArrived(c, b)
  \/ \E o \in Op : Refuse(c, o, b)

Continue(c) ==
  \/ CompleteLoad(c)
  \/ SaveSelect(c)
  \/ SaveUpdate(c)
  \/ RecordTimeline(c)
  \/ CreditSelect(c)
  \/ CreditUpdate(c)

Next ==
  \/ \E c \in Calls : (\E b \in Bookings : Request(c, b)) \/ Continue(c) \/ Fail(c)
  \/ \E b \in Bookings : TimePasses(b)

Spec == Init /\ [][Next]_vars

-----------------------------------------------------------------------------
(* Properties.                                                             *)

\* What must have been stored before a status can be.
Needs == [CONFIRMED |-> "PENDING", REJECTED |-> "PENDING",
          IN_PROGRESS |-> "PROVIDER_ARRIVED", COMPLETED |-> "IN_PROGRESS"]

\* Whatever is interleaved, lost or written back stale, a booking is first
\* confirmed or rejected only after it was pending, first in progress only
\* after the provider had arrived, and first completed only after it was in
\* progress: the status checks of accept, reject, start and complete.
LifecycleOrder ==
  [][\A b \in Bookings : \A s \in (held'[b] \ held[b]) \cap DOMAIN Needs :
        Needs[s] \in held[b]]_vars

\* A row of the timeline tells of a status the booking has really had: the
\* handlers insert it only after the save of the booking.
TimelineIsTruthful == \A t \in timeline : t.status \in held[t.booking]

\* complete counts a booking in both counters of the provider row, and no
\* interleaving of two calls' loads, SELECTs and UPDATEs separates them.
CountersAgree ==
  \A p \in Providers :
    provider[p].totalBookings + ProviderSeed[p].completedBookings
      = provider[p].completedBookings + ProviderSeed[p].totalBookings

Completions(p) ==
  {t \in timeline : t.status = "COMPLETED" /\ ProviderOf[t.booking] = p}

\* completedBookings may lose completions but never counts one that the
\* timeline does not show.
NeverOvercounted ==
  \A p \in Providers :
    provider[p].completedBookings
      <= ProviderSeed[p].completedBookings + Cardinality(Completions(p))

\* A refund is awaited exactly when there is something to refund.
RefundMatchesStatus ==
  \A b \in Bookings :
    /\ booking[b].refundStatus = "PENDING" => booking[b].refundAmount > 0
    /\ booking[b].refundStatus = "NOT_APPLICABLE" => booking[b].refundAmount = 0

\* When no call has failed and none is running, every completion the
\* timeline shows has been counted on the provider row.
CompletionsCounted ==
  (\A c \in Calls : pc[c] \in {"idle", "ok", "refused"}) =>
     \A p \in Providers :
       provider[p].completedBookings
         = ProviderSeed[p].completedBookings + Cardinality(Completions(p))

\* cancel answers "Cannot cancel booking in current status" for a completed
\* booking: no completed booking becomes a cancelled one.
CompletedNotCancelled ==
  [][\A b \in Bookings : booking[b].status = "COMPLETED"
                             => booking'[b].status # "CANCELLED"]_vars

\* complete's comment "Update provider earnings": the value its UPDATE
\* carries is one the column can store.
CreditIsStorable ==
  \A c \in Calls : pc[c] = "crediting" => IsWhole(Earning(target[c]))

\* Served one at a time (MaxInFlight = 1), the handlers implement the
\* lifecycle their checks promise, wherever a call may fail.
Lifecycle == INSTANCE BookingLifecycle
  WITH status <- [b \in Bookings |-> booking[b].status]
ImplementsLifecycle == Lifecycle!Spec
=============================================================================
