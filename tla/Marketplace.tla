----------------------------- MODULE Marketplace -----------------------------
(***************************************************************************)
(* The handlers that change one row of the catalogue, the reviews, the     *)
(* notifications, the promo codes, the payments, the documents and the     *)
(* settings, under concurrent requests for that row.  All follow Rows.tla: *)
(* findOne, assignments, and a save of two statements; softRemove writes   *)
(* only deletedAt.  A behaviour is about one row of one table.             *)
(***************************************************************************)
EXTENDS Naturals, Rows

CONSTANTS
  RowSlots,   \* the requests in flight
  Texts,      \* names, comments and values that bodies give; "a" is the seeds'
  MaxCount,   \* bound on the counters of views and votes
  MaxDay      \* bound on the clock promo codes are compared with

ASSUME MarketplaceAssumption == MaxCount \in Nat /\ MaxDay \in Nat

VARIABLES
  table,      \* the table the row is of
  row,        \* its columns; present is FALSE until a document is uploaded
  saving,     \* per slot: the request between its look-up and its UPDATE
  answer,     \* the answer the last step gave, "-" for none
  promised,   \* columns and values answered for with no request in between
  day

rowVars == <<table, row, saving, answer, promised, day>>

\* The rows requests meet, as the seeds, or an upload, left them.
SeededRow ==
  [services |-> [name |-> "a", isActive |-> TRUE, viewCount |-> 0],
   reviews |-> [comment |-> "a", status |-> "PENDING", helpfulCount |-> 0,
                providerResponse |-> "-"],
   notifications |-> [isRead |-> FALSE, readAt |-> "-"],
   promoCodes |-> [isActive |-> TRUE, validFrom |-> 0, usageCount |-> 0,
                   maxUses |-> "null", maxUsage |-> 1],
   payments |-> [status |-> "PAID", gatewayPaymentId |-> "null", paidAt |-> "set",
                 failedAt |-> "-", gatewayResponse |-> "null"],
   documents |-> [verificationStatus |-> "PENDING"],
   settings |-> [value |-> "a"]]

RowTables == DOMAIN SeededRow

WithBase(columns) ==
  [c \in DOMAIN columns \cup {"present", "deletedAt"} |->
     IF c \in DOMAIN columns THEN columns[c] ELSE c = "present"]

Idle == [step |-> "idle"]

Values(c) ==
  CASE c \in {"name", "comment", "value"} -> Texts \cup {"a"}
    [] c \in {"isActive", "isRead", "present", "deletedAt"} -> BOOLEAN
    [] c \in {"viewCount", "helpfulCount"} -> 0..MaxCount
    [] c \in {"providerResponse", "readAt", "paidAt", "failedAt"} -> {"-", "set"}
    [] c = "validFrom" -> 0..MaxDay
    [] c = "usageCount" -> {0}
    [] c = "maxUsage" -> {1}
    [] c \in {"maxUses", "gatewayPaymentId"} -> {"null"}
    [] c = "gatewayResponse" -> {"null", "named", "unnamed"}
    [] OTHER -> {"PENDING", "PUBLISHED", "PAID", "COMPLETED", "FAILED", "VERIFIED",
                 "REJECTED"}

RowOf(t, r) ==
  /\ DOMAIN r = DOMAIN WithBase(SeededRow[t])
  /\ \A c \in DOMAIN r : r[c] \in Values(c)

MarketplaceTypeOK ==
  /\ table \in RowTables /\ RowOf(table, row)
  /\ \A s \in RowSlots :
       \/ saving[s] = Idle
       \/ /\ saving[s].meant \subseteq DOMAIN row
          /\ \/ saving[s].step = "loaded" /\ RowOf(table, saving[s].entity)
             \/ /\ saving[s].step = "selected"
                /\ \A c \in DOMAIN saving[s].writes : saving[s].writes[c] \in Values(c)
  /\ answer \in {"-", "ok", "notFound", "error", "invalid", "usedUp",
                   "tooLittle", "valid"}
  /\ DOMAIN promised \subseteq DOMAIN row
  /\ day \in 0..MaxDay

MarketplaceInit ==
  /\ table \in RowTables
  /\ row = [WithBase(SeededRow[table]) EXCEPT !.present = (table # "documents")]
  /\ saving = [s \in RowSlots |-> Idle]
  /\ answer = "-"
  /\ promised = <<>>
  /\ day = 0

-----------------------------------------------------------------------------
(* The parts of a handler.                                                 *)

\* What findOne finds.
Visible == row.present /\ ~row.deletedAt

Free(s) == saving[s].step = "idle"

\* No request but the one of s has loaded the row.
Alone(s) == \A q \in RowSlots \ {s} : Free(q)

\* s wrote the columns it meant to write: it answers for their values, unless
\* a request that loaded the row before may still write them back.
Answered(s, meant, after) ==
  /\ answer' = "ok"
  /\ promised' =
       LET held == IF Alone(s) THEN DOMAIN promised \cup meant
                               ELSE DOMAIN promised \ meant
       IN [c \in held |-> IF c \in meant THEN after[c] ELSE promised[c]]

Reply(a) == answer' = a /\ UNCHANGED <<table, row, saving, promised, day>>

\* Fault: an entity is kept and used again for the next request.
LoadKept(s, patch, fresh, missing) ==
  /\ Free(s)
  /\ IF ~Visible THEN Reply(missing)
     ELSE /\ saving' = [saving EXCEPT ![s] =
               [step |-> "loaded", meant |-> DOMAIN patch, fresh |-> fresh,
                entity |-> Assign(WithBase(SeededRow[table]), patch)]]
          /\ answer' = "-"
          /\ UNCHANGED <<table, row, promised, day>>

\* findOne and the assignments to what it returned.
Load(s, patch, fresh, missing) ==
  /\ Free(s)
  /\ IF ~Visible THEN Reply(missing)
     ELSE /\ saving' = [saving EXCEPT ![s] =
               [step |-> "loaded", meant |-> DOMAIN patch, fresh |-> fresh,
                entity |-> Assign(row, patch)]]
          /\ answer' = "-"
          /\ UNCHANGED <<table, row, promised, day>>

\* Fault: remove saves the row it loaded, marked as deleted.
LoadToRemoveWhole(s) ==
  /\ Free(s)
  /\ IF ~Visible THEN Reply("notFound")
     ELSE /\ saving' = [saving EXCEPT ![s] =
               [step |-> "selected", meant |-> {"deletedAt"},
                writes |-> Assign(row, [deletedAt |-> TRUE])]]
          /\ answer' = "-"
          /\ UNCHANGED <<table, row, promised, day>>

\* findOne for softRemove, whose UPDATE sets deletedAt and no other column.
LoadToRemove(s) ==
  /\ Free(s)
  /\ IF ~Visible THEN Reply("notFound")
     ELSE /\ saving' = [saving EXCEPT ![s] =
               [step |-> "selected", meant |-> {"deletedAt"},
                writes |-> [deletedAt |-> TRUE]]]
          /\ answer' = "-"
          /\ UNCHANGED <<table, row, promised, day>>

\* The SELECT of save, which sees deleted rows: what is left of the entity are
\* the columns to write.
Select(s) ==
  /\ saving[s].step = "loaded"
  /\ LET columns == Changed(saving[s].entity, row, saving[s].fresh)
     IN saving' = [saving EXCEPT ![s] =
          [step |-> "selected", meant |-> @.meant,
           writes |-> [c \in columns |-> @.entity[c]]]]
  /\ answer' = "-"
  /\ UNCHANGED <<table, row, promised, day>>

\* The UPDATE, and the answer of the request.
Update(s) ==
  /\ saving[s].step = "selected"
  /\ row' = Assign(row, saving[s].writes)
  /\ Answered(s, saving[s].meant, row')
  /\ saving' = [saving EXCEPT ![s] = Idle]
  /\ UNCHANGED <<table, day>>

-----------------------------------------------------------------------------
(* Services.                                                               *)

\* A view of a service saves it with one view more.
FindOneService(s) ==
  /\ table = "services" /\ row.viewCount < MaxCount
  /\ Load(s, [viewCount |-> row.viewCount + 1], {}, "notFound")

UpdateService(s, name) ==
  table = "services" /\ Load(s, [name |-> name], {}, "notFound")

ToggleActive(s) ==
  table = "services" /\ Load(s, [isActive |-> ~row.isActive], {}, "notFound")

RemoveService(s) == table = "services" /\ LoadToRemove(s)

(* Reviews.                                                                *)

UpdateReview(s, comment) ==
  table = "reviews" /\ Load(s, [comment |-> comment], {}, "notFound")

Respond(s) ==
  table = "reviews" /\ Load(s, [providerResponse |-> "set"], {}, "notFound")

MarkHelpful(s) ==
  /\ table = "reviews" /\ row.helpfulCount < MaxCount
  /\ Load(s, [helpfulCount |-> row.helpfulCount + 1], {}, "notFound")

ApproveReview(s) ==
  table = "reviews" /\ Load(s, [status |-> "PUBLISHED"], {}, "notFound")

RejectReview(s) ==
  table = "reviews" /\ Load(s, [status |-> "REJECTED"], {}, "notFound")

RemoveReview(s) == table = "reviews" /\ LoadToRemove(s)

(* Notifications.                                                          *)

\* readAt is a new Date, so save always finds it changed.
MarkAsRead(s) ==
  /\ table = "notifications"
  /\ Load(s, [isRead |-> TRUE, readAt |-> "set"], {"readAt"}, "notFound")

\* One UPDATE of the unread ones.
MarkAllAsRead(s) ==
  /\ table = "notifications" /\ Free(s)
  /\ IF row.isRead THEN Reply("ok")
     ELSE /\ row' = [row EXCEPT !.isRead = TRUE, !.readAt = "set"]
          /\ Answered(s, {"isRead", "readAt"}, row')
          /\ UNCHANGED <<table, saving, day>>

RemoveNotification(s) == table = "notifications" /\ LoadToRemove(s)

(* Promo codes.                                                            *)

UpdatePromoCode(s, validFrom, isActive) ==
  /\ table = "promoCodes"
  /\ Load(s, [validFrom |-> validFrom, isActive |-> isActive], {"validFrom"},
          "notFound")

Deactivate(s) ==
  table = "promoCodes" /\ Load(s, [isActive |-> FALSE], {}, "notFound")

RemovePromoCode(s) == table = "promoCodes" /\ LoadToRemove(s)

\* JavaScript's n >= limit, where null counts as 0.
AtLeast(n, limit) == IF limit = "null" THEN n >= 0 ELSE n >= limit

\* Fault: the limit is read from the column the requests and seeds write.
UsedUpByMaxUsage == row.usageCount >= row.maxUsage

UsedUp == AtLeast(row.usageCount, row.maxUses)

\* MoreThan(new Date()): codes that are yet to become valid.
Validate(s) ==
  /\ table = "promoCodes" /\ Free(s)
  /\ \/ ~(Visible /\ row.isActive /\ row.validFrom > day) /\ Reply("invalid")
     \/ /\ Visible /\ row.isActive /\ row.validFrom > day
        /\ IF UsedUp THEN Reply("usedUp") ELSE Reply("valid") \/ Reply("tooLittle")

TimePasses ==
  /\ table = "promoCodes" /\ day < MaxDay
  /\ day' = day + 1
  /\ answer' = "-"
  /\ UNCHANGED <<table, row, saving, promised>>

(* Payments.                                                               *)

\* Notices of the gateway, by whether their data has an id.
Notices == {"named", "unnamed"}

\* Fault: the id of a notice is looked for among the payments' own.
KnownByOwnId(notice) == row.present

\* What findOne by gatewayPaymentId, a column no handler and no seed assigns, may
\* return: nothing for an id, and for an undefined one, which leaves the
\* condition out, any one payment.
KnownToGateway(notice) == notice = "unnamed" \/ row.gatewayPaymentId # "null"

\* The data of the notice is kept in gatewayResponse.  No wallet is credited: a
\* top-up is never stored.
MarkPayment(s, notice, patch, fresh) ==
  /\ table = "payments" /\ Free(s)
  /\ \/ KnownToGateway(notice) /\ Load(s, patch, fresh, "ok")
     \/ Reply("ok")

MarkPaymentCompleted(s, notice) ==
  MarkPayment(s, notice,
    [status |-> "COMPLETED", paidAt |-> "set", gatewayResponse |-> notice], {"paidAt"})

MarkPaymentFailed(s, notice) ==
  MarkPayment(s, notice,
    [status |-> "FAILED", failedAt |-> "set", gatewayResponse |-> notice], {"failedAt"})

\* The gateway is not asked: the payment is returned as it is.
VerifyPayment(s) == table = "payments" /\ Free(s) /\ Reply("ok")

(* Documents and settings.                                                 *)

UploadRow(s) ==
  /\ table = "documents" /\ Free(s) /\ ~row.present
  /\ row' = [row EXCEPT !.present = TRUE]
  /\ answer' = "ok"
  /\ UNCHANGED <<table, saving, promised, day>>

\* A document that is not found is assigned to all the same: TypeError.
VerifyDocument(s) ==
  table = "documents" /\ Load(s, [verificationStatus |-> "VERIFIED"], {}, "error")

RejectDocument(s) ==
  table = "documents" /\ Load(s, [verificationStatus |-> "REJECTED"], {}, "error")

DeleteDocument(s) == table = "documents" /\ LoadToRemove(s)

UpdateStoredSetting(s, value) ==
  table = "settings" /\ Load(s, [value |-> value], {}, "notFound")

ServiceRequest(s) ==
  \/ FindOneService(s)
  \/ \E name \in Texts : UpdateService(s, name)
  \/ ToggleActive(s)
  \/ RemoveService(s)

ReviewRequest(s) ==
  \/ \E comment \in Texts : UpdateReview(s, comment)
  \/ Respond(s)
  \/ MarkHelpful(s)
  \/ ApproveReview(s)
  \/ RejectReview(s)
  \/ RemoveReview(s)

OtherRequest(s) ==
  \/ MarkAsRead(s)
  \/ MarkAllAsRead(s)
  \/ RemoveNotification(s)
  \/ \E validFrom \in 0..MaxDay, isActive \in BOOLEAN :
       UpdatePromoCode(s, validFrom, isActive)
  \/ Deactivate(s)
  \/ RemovePromoCode(s)
  \/ Validate(s)
  \/ \E notice \in Notices :
       MarkPaymentCompleted(s, notice) \/ MarkPaymentFailed(s, notice)
  \/ VerifyPayment(s)
  \/ UploadRow(s)
  \/ VerifyDocument(s)
  \/ RejectDocument(s)
  \/ DeleteDocument(s)
  \/ \E value \in Texts : UpdateStoredSetting(s, value)

MarketplaceNext ==
  \/ \E s \in RowSlots :
       \/ ServiceRequest(s)
       \/ ReviewRequest(s)
       \/ OtherRequest(s)
       \/ Select(s)
       \/ Update(s)
  \/ TimePasses

-----------------------------------------------------------------------------
(***************************************************************************)
(* Properties.                                                             *)
(***************************************************************************)
\* What a request was answered for stays until another request means to
\* change it, unless one that had loaded the row before was in flight: a
\* view, a vote or a moderation undoes an update or brings a deleted row back
\* in no other way.
KeptUnlessRaced == \A c \in DOMAIN promised : row[c] = promised[c]

\* A notification that was read never becomes unread, whichever of marking,
\* marking all and removing overlap: all that write isRead write the same.
ReadNeverUnread ==
  [][table = "notifications" /\ row.isRead => row'.isRead]_rowVars

\* No promo code is ever accepted, whatever an administrator updates and when:
\* the limit compared with is a column no request and no seed assigns.
PromoNeverUsable == answer # "valid"

\* No notice settles the payment it names: a payment that notices completed or
\* failed keeps, however they and their saves overlap, the data of one that
\* named none.
SettledUnnamed ==
  table = "payments" /\ row.status \in {"COMPLETED", "FAILED"} =>
    row.gatewayResponse = "unnamed"
=============================================================================
