-------------------------- MODULE MarketplaceProofs --------------------------
(***************************************************************************)
(* The rows requests insert and change, for any number of requests in      *)
(* flight, any texts and any bounds: most INSERTs are refused, an answer   *)
(* holds unless a request was under way, a notification stays read, no     *)
(* promo code is accepted and no payment settles.                          *)
(***************************************************************************)
EXTENDS Platform, TLAPS

(***************************************************************************)
(* INSERTs.  Each of the refused ones leaves out a column of its table,    *)
(* whatever the optional members; of the tables with one row per owner the *)
(* server itself stops the second.                                         *)
(***************************************************************************)
InsertsState ==
  /\ rowsAdded \in [InsertTables -> Nat]
  /\ missing \in [Callers -> OnePerOwner \cup {"-"}]

InsertsInv == InsertsState /\ InsertsRefused

Fillable == {"documents", "providerLocations", "wallets", "settings"}

\* An INSERT that leaves out a column, or is into a table that takes rows,
\* keeps the tables as InsertsRefused says they are.
LEMMA InsertKeeps ==
  ASSUME InsertsInv, NEW t \in InsertTables, NEW given, Insert(t, given),
         t \in Fillable \/ ~(Required[t] \subseteq given)
  PROVE  rowsAdded' \in [InsertTables -> Nat] /\ InsertsRefused'
<1>1. CASE ~Accepted(t, given)
  BY <1>1 DEF Insert, InsertsInv, InsertsState, InsertsRefused
<1>2. CASE Accepted(t, given)
  <2>1. /\ rowsAdded' = [rowsAdded EXCEPT ![t] = @ + 1] /\ rowsAdded[t] \in Nat
        /\ t \in Fillable /\ (t \in OnePerOwner => rowsAdded[t] = 0)
    BY <1>2 DEF Insert, InsertsInv, InsertsState, Accepted
  <2>2. /\ rowsAdded' \in [InsertTables -> Nat]
        /\ rowsAdded'[t] = rowsAdded[t] + 1
        /\ \A q \in InsertTables : q # t => rowsAdded'[q] = rowsAdded[q]
    BY <2>1 DEF InsertsInv, InsertsState
  <2>3. ASSUME NEW q \in InsertTables, rowsAdded'[q] > 0
        PROVE  q \in Fillable /\ (q \in OnePerOwner => rowsAdded'[q] = 1)
    BY <2>1, <2>2, <2>3 DEF InsertsInv, InsertsRefused, Fillable
  <2> QED
    BY <2>2, <2>3 DEF InsertsRefused, Fillable
<1> QED
  BY <1>1, <1>2

\* InsertAtOnce under the same condition keeps the invariant.
LEMMA InsertAtOnceKeeps ==
  ASSUME InsertsInv, NEW c \in Callers, NEW t \in InsertTables, NEW given,
         InsertAtOnce(c, t, given),
         t \in Fillable \/ ~(Required[t] \subseteq given)
  PROVE  InsertsInv'
BY InsertKeeps DEF InsertAtOnce, InsertsInv, InsertsState

\* So does a handler that looks for its row first.
LEMMA LookUpKeeps ==
  ASSUME InsertsInv, NEW c \in Callers, NEW t \in OnePerOwner, NEW given,
         LookUp(c, t) \/ InsertMissed(c, t, given)
  PROVE  InsertsInv'
<1>1. t \in InsertTables /\ t \in Fillable
  BY DEF OnePerOwner, InsertTables, Required, Fillable
<1>2. CASE LookUp(c, t)
  BY <1>2 DEF LookUp, InsertsInv, InsertsState, InsertsRefused
<1>3. CASE InsertMissed(c, t, given)
  BY <1>1, <1>3, InsertKeeps DEF InsertMissed, InsertsInv, InsertsState
<1> QED
  BY <1>2, <1>3

\* Every step of a handler keeps the invariant.
LEMMA InsertsStepKeeps ==
  ASSUME InsertsInv, [InsertsNext]_insertVars
  PROVE  InsertsInv'
<1>0. /\ "payments" \in InsertTables /\ "reviews" \in InsertTables
      /\ "disputes" \in InsertTables /\ "promoCodes" \in InsertTables
      /\ "addresses" \in InsertTables /\ "bookings" \in InsertTables
      /\ "documents" \in InsertTables /\ "providerLocations" \in InsertTables
  BY DEF InsertTables, Required
<1>1. ASSUME NEW c \in Callers, CreatePayment(c) PROVE InsertsInv'
  <2>1. "method" \in Required["payments"]
    BY DEF Required, PaymentColumns
  <2> QED
    BY <1>0, <1>1, <2>1, InsertAtOnceKeeps DEF CreatePayment
<1>2. ASSUME NEW c \in Callers, TopUpWallet(c) PROVE InsertsInv'
  <2>1. "method" \in Required["payments"]
    BY DEF Required, PaymentColumns
  <2> QED
    BY <1>0, <1>2, <2>1, InsertAtOnceKeeps DEF TopUpWallet
<1>3. ASSUME NEW c \in Callers, NEW optional \in SUBSET ReviewOptional,
             CreateReview(c, optional)
      PROVE  InsertsInv'
  <2>1. "rating" \in Required["reviews"] /\ "rating" \notin optional
    BY DEF Required, ReviewColumns, ReviewOptional
  <2> QED
    BY <1>0, <1>3, <2>1, InsertAtOnceKeeps DEF CreateReview
<1>4. ASSUME NEW c \in Callers, CreateDispute(c) PROVE InsertsInv'
  <2>1. "reportedByUserId" \in Required["disputes"]
    BY DEF Required, DisputeColumns
  <2> QED
    BY <1>0, <1>4, <2>1, InsertAtOnceKeeps DEF CreateDispute
<1>5. ASSUME NEW c \in Callers, NEW optional \in SUBSET PromoOptional,
             CreatePromoCode(c, optional)
      PROVE  InsertsInv'
  <2>1. "applicability" \in Required["promoCodes"] /\ "applicability" \notin optional
    BY DEF Required, PromoCodeColumns, PromoOptional
  <2> QED
    BY <1>0, <1>5, <2>1, InsertAtOnceKeeps DEF CreatePromoCode
<1>6. ASSUME NEW c \in Callers, NEW optional \in SUBSET AddressOptional,
             CreateAddress(c, optional)
      PROVE  InsertsInv'
  <2>1. "contactName" \in Required["addresses"] /\ "contactName" \notin optional
    BY DEF Required, AddressColumns, AddressOptional
  <2> QED
    BY <1>0, <1>6, <2>1, InsertAtOnceKeeps DEF CreateAddress
<1>7. ASSUME NEW c \in Callers, CreateBooking(c) PROVE InsertsInv'
  <2>1. "customerName" \in Required["bookings"]
    BY DEF Required, BookingColumns, BookingPlaceColumns
  <2> QED
    BY <1>0, <1>7, <2>1, InsertAtOnceKeeps DEF CreateBooking
<1>8. ASSUME NEW c \in Callers, UploadDocument(c) PROVE InsertsInv'
  <2>1. "documents" \in Fillable
    BY DEF Fillable
  <2> QED
    BY <1>0, <1>8, <2>1, InsertAtOnceKeeps DEF UploadDocument
<1>9. ASSUME NEW c \in Callers, UpdateProviderLocation(c) PROVE InsertsInv'
  <2>1. "providerLocations" \in Fillable
    BY DEF Fillable
  <2>2. CASE UNCHANGED rowsAdded
    BY <1>9, <2>2
       DEF UpdateProviderLocation, InsertsInv, InsertsState, InsertsRefused
  <2>3. CASE Insert("providerLocations",
               {"providerId", "latitude", "longitude", "location", "accuracy",
                "recordedAt"})
    BY <1>0, <1>9, <2>1, <2>3, InsertKeeps
       DEF UpdateProviderLocation, InsertsInv, InsertsState
  <2> QED
    BY <1>9, <2>2, <2>3 DEF UpdateProviderLocation
<1>10. ASSUME NEW c \in Callers, GetWallet(c) PROVE InsertsInv'
  BY <1>10, LookUpKeeps DEF GetWallet, OnePerOwner
<1>11. ASSUME NEW c \in Callers, NEW optional, UpdateSetting(c, optional)
       PROVE  InsertsInv'
  BY <1>11, LookUpKeeps DEF UpdateSetting, OnePerOwner
<1>12. CASE UNCHANGED <<rowsAdded, missing>>
  BY <1>12 DEF InsertsInv, InsertsState, InsertsRefused
<1> QED
  BY <1>1, <1>2, <1>3, <1>4, <1>5, <1>6, <1>7, <1>8, <1>9, <1>10, <1>11, <1>12
     DEF InsertsNext, insertVars, RequestRefund, FindNothing

\* Whatever optional members a request gives and however look-ups interleave,
\* the only tables requests add rows to are those of documents, positions,
\* wallets and settings, one wallet for a user and one setting for a key.
THEOREM OnlyTheseAreFilled == Spec => []InsertsRefused
<1>1. Init => InsertsInv
  BY DEF Init, InsertsInit, InsertsInv, InsertsState, InsertsRefused
<1>2. InsertsInv /\ [Next]_vars => InsertsInv'
  <2> SUFFICES ASSUME InsertsInv, [Next]_vars PROVE InsertsInv'
    OBVIOUS
  <2>1. [InsertsNext]_insertVars
    BY DEF Next, RunPart, vars, insertVars
  <2> QED
    BY <2>1, InsertsStepKeeps
<1>3. InsertsInv => InsertsRefused
  BY DEF InsertsInv
<1> QED
  BY <1>1, <1>2, <1>3, PTL DEF Spec

\* No table outgrows its bound, and every handler answers one way or another.
LEMMA InsertsStepTyped ==
  ASSUME InsertsInv, InsertsTypeOK, InsertsInv', [InsertsNext]_insertVars
  PROVE  InsertsTypeOK'
<1> DEFINE Rows == rowsAdded \in [InsertTables -> 0..MaxInserts]
           Outcomes == {"-", "ok", "refused", "notFound", "error"}
<1>0. /\ Rows /\ outcome \in Outcomes /\ MaxInserts \in Nat
      /\ missing' \in [Callers -> OnePerOwner \cup {"-"}]
  BY InsertsAssumption DEF InsertsTypeOK, InsertsInv, InsertsState
<1>1. ASSUME NEW t \in InsertTables, NEW given, Insert(t, given)
      PROVE  Rows' /\ outcome' \in Outcomes
  <2>1. rowsAdded[t] < MaxInserts /\ rowsAdded[t] \in 0..MaxInserts
    BY <1>0, <1>1 DEF Insert
  <2>2. rowsAdded[t] + 1 \in 0..MaxInserts
    BY <1>0, <2>1
  <2> QED
    BY <1>0, <1>1, <2>2 DEF Insert
<1>2. ASSUME NEW c \in Callers, NEW t \in InsertTables, NEW given,
             \/ InsertAtOnce(c, t, given) \/ LookUp(c, t)
             \/ InsertMissed(c, t, given)
      PROVE  Rows' /\ outcome' \in Outcomes
  BY <1>0, <1>1, <1>2 DEF InsertAtOnce, LookUp, InsertMissed
<1>3. /\ "payments" \in InsertTables /\ "reviews" \in InsertTables
      /\ "disputes" \in InsertTables /\ "promoCodes" \in InsertTables
      /\ "addresses" \in InsertTables /\ "bookings" \in InsertTables
      /\ "documents" \in InsertTables /\ "providerLocations" \in InsertTables
      /\ "wallets" \in InsertTables /\ "settings" \in InsertTables
  BY DEF InsertTables, Required
<1>4. ASSUME NEW c \in Callers,
             \/ CreatePayment(c) \/ TopUpWallet(c) \/ CreateDispute(c)
             \/ CreateBooking(c) \/ UploadDocument(c) \/ GetWallet(c)
      PROVE  Rows' /\ outcome' \in Outcomes
  BY <1>2, <1>3, <1>4
     DEF CreatePayment, TopUpWallet, CreateDispute, CreateBooking, UploadDocument,
         GetWallet
<1>5. ASSUME NEW c \in Callers, NEW optional,
             \/ CreateReview(c, optional) \/ CreatePromoCode(c, optional)
             \/ CreateAddress(c, optional) \/ UpdateSetting(c, optional)
      PROVE  Rows' /\ outcome' \in Outcomes
  BY <1>2, <1>3, <1>5
     DEF CreateReview, CreatePromoCode, CreateAddress, UpdateSetting
<1>6. ASSUME NEW c \in Callers, UpdateProviderLocation(c)
      PROVE  Rows' /\ outcome' \in Outcomes
  BY <1>0, <1>1, <1>3, <1>6 DEF UpdateProviderLocation
<1>7. ASSUME NEW c \in Callers, NEW answers, FindNothing(c, answers),
             \A h \in DOMAIN answers : answers[h] \in Outcomes
      PROVE  Rows' /\ outcome' \in Outcomes
  BY <1>0, <1>7 DEF FindNothing
<1>8. ASSUME NEW c \in Callers,
             \/ FindNothing(c, DisputeHandlers) \/ FindNothing(c, DisputeDecisions)
             \/ FindNothing(c, ConversationHandlers)
             \/ FindNothing(c, AddressHandlers) \/ FindNothing(c, RefundHandlers)
      PROVE  Rows' /\ outcome' \in Outcomes
  <2>1. /\ \A h \in DOMAIN DisputeHandlers : DisputeHandlers[h] \in Outcomes
        /\ \A h \in DOMAIN DisputeDecisions : DisputeDecisions[h] \in Outcomes
    BY DEF DisputeHandlers, DisputeDecisions
  <2>2. /\ \A h \in DOMAIN ConversationHandlers : ConversationHandlers[h] \in Outcomes
        /\ \A h \in DOMAIN AddressHandlers : AddressHandlers[h] \in Outcomes
        /\ \A h \in DOMAIN RefundHandlers : RefundHandlers[h] \in Outcomes
    BY DEF ConversationHandlers, AddressHandlers, RefundHandlers
  <2> QED
    BY <1>7, <1>8, <2>1, <2>2
<1>9. ASSUME NEW c \in Callers, RequestRefund(c)
      PROVE  Rows' /\ outcome' \in Outcomes
  BY <1>0, <1>9 DEF RequestRefund
<1>10. CASE UNCHANGED insertVars
  BY <1>10 DEF insertVars, InsertsTypeOK
<1>11. CASE InsertsNext
  <2>1. Rows' /\ outcome' \in Outcomes
    BY <1>4, <1>5, <1>6, <1>8, <1>9, <1>11 DEF InsertsNext
  <2> QED
    BY <1>0, <2>1 DEF InsertsTypeOK
<1> QED
  BY <1>10, <1>11

\* In every behaviour of the platform the INSERTs keep to their types.
LEMMA InsertsTyped == Spec => []InsertsTypeOK
<1>1. Init => InsertsInv /\ InsertsTypeOK
  BY InsertsAssumption
     DEF Init, InsertsInit, InsertsInv, InsertsState, InsertsRefused, InsertsTypeOK
<1>2. InsertsInv /\ InsertsTypeOK /\ [Next]_vars => (InsertsInv /\ InsertsTypeOK)'
  <2> SUFFICES ASSUME InsertsInv, InsertsTypeOK, [Next]_vars
               PROVE  (InsertsInv /\ InsertsTypeOK)'
    OBVIOUS
  <2>1. [InsertsNext]_insertVars
    BY DEF Next, RunPart, vars, insertVars
  <2> QED
    BY <2>1, InsertsStepKeeps, InsertsStepTyped
<1> QED
  BY <1>1, <1>2, PTL DEF Spec

-----------------------------------------------------------------------------
(***************************************************************************)
(* Rows.  What a request will write is in the entity it loaded, so each    *)
(* invariant is about the row, the entities and the pending UPDATEs.       *)
(***************************************************************************)
\* The columns a request may mean to write.
Columns == DOMAIN SeededRow[table] \cup {"deletedAt"}

RowState ==
  /\ table \in RowTables
  /\ DOMAIN row = Columns \cup {"present"}
  /\ DOMAIN saving = RowSlots
  /\ \A s \in RowSlots : saving[s].step \in {"loaded", "selected"} =>
       saving[s].meant \subseteq Columns

\* Should a request write column c, it writes v.
OnlyWrite(c, v) ==
  \A s \in RowSlots :
    /\ saving[s].step = "loaded" => saving[s].entity[c] = v
    /\ saving[s].step = "selected" /\ c \in DOMAIN saving[s].writes =>
         saving[s].writes[c] = v

\* A request in flight writes no other value to a promised column, unless it
\* means to.
PromiseKept(c) ==
  /\ row[c] = promised[c]
  /\ \A s \in RowSlots :
       /\ saving[s].step = "loaded" =>
            c \in saving[s].meant \/ saving[s].entity[c] = promised[c]
       /\ saving[s].step = "selected" =>
            \/ c \in saving[s].meant
            \/ c \in DOMAIN saving[s].writes => saving[s].writes[c] = promised[c]

PromisesKept ==
  DOMAIN promised \subseteq Columns /\ \A c \in DOMAIN promised : PromiseKept(c)

CodesUnusable ==
  /\ answer # "valid"
  /\ table = "promoCodes" =>
       /\ row.usageCount = 0 /\ OnlyWrite("usageCount", 0)
       /\ row.maxUses = "null" /\ OnlyWrite("maxUses", "null")

\* A request about a payment has the data of a notice that names none, to write
\* or stored already.
PaymentsUnnamed ==
  table = "payments" =>
    /\ row.gatewayPaymentId = "null" /\ OnlyWrite("gatewayPaymentId", "null")
    /\ OnlyWrite("gatewayResponse", "unnamed")
    /\ row.status \in {"COMPLETED", "FAILED"} => row.gatewayResponse = "unnamed"
    /\ \A s \in RowSlots : saving[s].step = "selected" =>
         \/ "gatewayResponse" \in DOMAIN saving[s].writes
         \/ row.gatewayResponse = "unnamed"

ReadsStored == table = "notifications" => OnlyWrite("isRead", TRUE)

RowInv == RowState /\ PromisesKept /\ CodesUnusable /\ PaymentsUnnamed /\ ReadsStored

\* The columns of each table.
LEMMA TableColumns ==
  /\ table = "services" => Columns = {"name", "isActive", "viewCount", "deletedAt"}
  /\ table = "reviews" =>
       Columns = {"comment", "status", "helpfulCount", "providerResponse", "deletedAt"}
  /\ table = "notifications" => Columns = {"isRead", "readAt", "deletedAt"}
  /\ table = "promoCodes" =>
       Columns = {"isActive", "validFrom", "usageCount", "maxUses", "maxUsage",
                  "deletedAt"}
  /\ table = "payments" =>
       Columns = {"status", "gatewayPaymentId", "paidAt", "failedAt",
                  "gatewayResponse", "deletedAt"}
  /\ table = "documents" => Columns = {"verificationStatus", "deletedAt"}
  /\ table = "settings" => Columns = {"value", "deletedAt"}
  /\ RowTables = {"services", "reviews", "notifications", "promoCodes", "payments",
                  "documents", "settings"}
BY DEF Columns, SeededRow, RowTables

\* present is no column anyone means to write.
LEMMA PresentApart == table \in RowTables => "present" \notin Columns
BY TableColumns

\* The initial rows satisfy the invariant: nothing is in flight.
LEMMA RowInitKeeps == MarketplaceInit => RowInv
<1> SUFFICES ASSUME MarketplaceInit PROVE RowInv
  OBVIOUS
<1>1. /\ table \in RowTables /\ answer = "-" /\ promised = <<>>
      /\ row = [WithBase(SeededRow[table]) EXCEPT !.present = (table # "documents")]
      /\ saving = [s \in RowSlots |-> Idle]
  BY DEF MarketplaceInit
<1>2. DOMAIN row = DOMAIN SeededRow[table] \cup {"present", "deletedAt"}
  BY <1>1 DEF WithBase
<1>3. \A s \in RowSlots : saving[s].step = "idle"
  BY <1>1 DEF Idle
<1>4. DOMAIN promised = {}
  BY <1>1
<1>5. \A c \in DOMAIN SeededRow[table] : c # "present" => row[c] = SeededRow[table][c]
  BY <1>1 DEF WithBase
<1>6. RowState
  BY <1>1, <1>2, <1>3 DEF RowState, Columns
<1>7. CodesUnusable
  <2>1. ASSUME table = "promoCodes" PROVE row.usageCount = 0 /\ row.maxUses = "null"
    BY <1>5, <2>1 DEF SeededRow
  <2> QED
    BY <1>1, <1>3, <2>1 DEF CodesUnusable, OnlyWrite
<1>8. PaymentsUnnamed
  <2>1. ASSUME table = "payments"
        PROVE  row.status = "PAID" /\ row.gatewayPaymentId = "null"
    BY <1>5, <2>1 DEF SeededRow
  <2> QED
    BY <1>3, <2>1 DEF PaymentsUnnamed, OnlyWrite
<1> QED
  BY <1>3, <1>4, <1>6, <1>7, <1>8
     DEF RowInv, PromisesKept, ReadsStored, OnlyWrite

\* An answer that changes nothing keeps the invariant.
LEMMA ReplyKeeps ==
  ASSUME RowInv, NEW a, a # "valid", Reply(a)
  PROVE  RowInv'
BY DEF Reply, RowInv, RowState, Columns, PromisesKept, PromiseKept, CodesUnusable,
       PaymentsUnnamed, ReadsStored, OnlyWrite

\* The entity of a new request differs from the row in what it means to write.
LEMMA LoadKeeps ==
  ASSUME RowInv, NEW s \in RowSlots, NEW patch, NEW fresh, NEW none,
         Load(s, patch, fresh, none), none # "valid",
         DOMAIN patch \subseteq Columns,
         table = "payments" =>
           /\ "gatewayPaymentId" \notin DOMAIN patch
           /\ "gatewayResponse" \in DOMAIN patch
           /\ patch["gatewayResponse"] = "unnamed",
         table = "notifications" => "isRead" \in DOMAIN patch /\ patch["isRead"] = TRUE,
         table = "promoCodes" => DOMAIN patch \cap {"usageCount", "maxUses"} = {}
  PROVE  RowInv'
<1>1. CASE ~Visible
  BY <1>1, ReplyKeeps DEF Load
<1>2. CASE Visible
  <2> DEFINE new == [step |-> "loaded", meant |-> DOMAIN patch, fresh |-> fresh,
                     entity |-> Assign(row, patch)]
  <2>1. /\ saving' = [saving EXCEPT ![s] = new] /\ answer' = "-"
        /\ UNCHANGED <<table, row, promised, day>>
    BY <1>2 DEF Load
  <2>2. /\ new.step = "loaded" /\ new.meant = DOMAIN patch
        /\ \A c \in DOMAIN row :
             new.entity[c] = IF c \in DOMAIN patch THEN patch[c] ELSE row[c]
    BY DEF Assign
  <2> HIDE DEF new
  <2>3. /\ DOMAIN saving' = RowSlots /\ saving'[s] = new
        /\ \A q \in RowSlots : q # s => saving'[q] = saving[q]
    BY <2>1 DEF RowInv, RowState
  <2>4. Columns' = Columns
    BY <2>1 DEF Columns
  <2>5. Columns \subseteq DOMAIN row
    BY DEF RowInv, RowState
  <2>6. RowState'
    BY <2>1, <2>2, <2>3, <2>4 DEF RowInv, RowState
  <2>7. PromisesKept'
    <3>1. ASSUME NEW c \in DOMAIN promised PROVE PromiseKept(c)'
      <4>1. PromiseKept(c) /\ c \in DOMAIN row
        BY <2>5 DEF RowInv, PromisesKept
      <4> QED
        BY <2>1, <2>2, <2>3, <4>1 DEF PromiseKept
    <3> QED
      BY <2>1, <2>4, <3>1 DEF RowInv, PromisesKept
  <2>8. CodesUnusable'
    <3>1. ASSUME table = "promoCodes"
          PROVE  OnlyWrite("usageCount", 0)' /\ OnlyWrite("maxUses", "null")'
      <4>1. /\ OnlyWrite("usageCount", 0) /\ row.usageCount = 0
            /\ OnlyWrite("maxUses", "null") /\ row.maxUses = "null"
        BY <3>1 DEF RowInv, CodesUnusable
      <4>2. new.entity["usageCount"] = 0 /\ new.entity["maxUses"] = "null"
        BY <2>2, <2>5, <3>1, <4>1, TableColumns
      <4> QED
        BY <2>2, <2>3, <4>1, <4>2 DEF OnlyWrite
    <3> QED
      BY <2>1, <3>1 DEF RowInv, CodesUnusable
  <2>9. ReadsStored'
    <3>1. ASSUME table = "notifications" PROVE OnlyWrite("isRead", TRUE)'
      <4>1. new.entity["isRead"] = TRUE
        BY <2>2, <2>5, <3>1, TableColumns
      <4> QED
        BY <2>2, <2>3, <3>1, <4>1 DEF RowInv, ReadsStored, OnlyWrite
    <3> QED
      BY <2>1, <3>1 DEF ReadsStored
  <2>10. PaymentsUnnamed'
    <3>1. ASSUME table = "payments"
          PROVE  /\ OnlyWrite("gatewayPaymentId", "null")'
                 /\ OnlyWrite("gatewayResponse", "unnamed")'
      <4>1. /\ new.entity["gatewayPaymentId"] = "null"
            /\ new.entity["gatewayResponse"] = "unnamed"
        BY <2>2, <2>5, <3>1, TableColumns DEF RowInv, PaymentsUnnamed
      <4> QED
        BY <2>2, <2>3, <3>1, <4>1 DEF RowInv, PaymentsUnnamed, OnlyWrite
    <3> QED
      BY <2>1, <2>2, <2>3, <3>1 DEF RowInv, PaymentsUnnamed
  <2> QED
    BY <2>6, <2>7, <2>8, <2>9, <2>10 DEF RowInv
<1> QED
  BY <1>1, <1>2

\* softRemove means to write, and writes, deletedAt alone.
LEMMA LoadToRemoveKeeps ==
  ASSUME RowInv, NEW s \in RowSlots, LoadToRemove(s), table # "payments"
  PROVE  RowInv'
<1>1. CASE ~Visible
  BY <1>1, ReplyKeeps DEF LoadToRemove
<1>2. CASE Visible
  <2> DEFINE new == [step |-> "selected", meant |-> {"deletedAt"},
                     writes |-> [deletedAt |-> TRUE]]
  <2>1. /\ saving' = [saving EXCEPT ![s] = new] /\ answer' = "-"
        /\ UNCHANGED <<table, row, promised, day>>
    BY <1>2 DEF LoadToRemove
  <2>2. /\ new.step = "selected" /\ new.meant = {"deletedAt"}
        /\ DOMAIN new.writes = {"deletedAt"}
    OBVIOUS
  <2> HIDE DEF new
  <2>3. /\ DOMAIN saving' = RowSlots /\ saving'[s] = new
        /\ \A q \in RowSlots : q # s => saving'[q] = saving[q]
    BY <2>1 DEF RowInv, RowState
  <2>4. Columns' = Columns /\ "deletedAt" \in Columns
    BY <2>1 DEF Columns
  <2>5. RowState'
    BY <2>1, <2>2, <2>3, <2>4 DEF RowInv, RowState
  <2>6. PromisesKept'
    BY <2>1, <2>2, <2>3, <2>4 DEF RowInv, PromisesKept, PromiseKept
  <2>7. CodesUnusable' /\ ReadsStored'
    BY <2>1, <2>2, <2>3 DEF RowInv, CodesUnusable, ReadsStored, OnlyWrite
  <2> QED
    BY <2>1, <2>5, <2>6, <2>7 DEF RowInv, PaymentsUnnamed
<1> QED
  BY <1>1, <1>2

\* The UPDATE writes columns of the entity, and no other values.
LEMMA SelectKeeps ==
  ASSUME RowInv, NEW s \in RowSlots, Select(s)
  PROVE  RowInv'
<1> DEFINE columns == Changed(saving[s].entity, row, saving[s].fresh)
           new == [step |-> "selected", meant |-> saving[s].meant,
                   writes |-> [c \in columns |-> saving[s].entity[c]]]
<1>1. /\ saving[s].step = "loaded"
      /\ saving' = [saving EXCEPT ![s] = new] /\ answer' = "-"
      /\ UNCHANGED <<table, row, promised, day>>
  BY DEF Select
<1>2. /\ new.step = "selected" /\ new.meant = saving[s].meant
      /\ \A c \in DOMAIN new.writes : new.writes[c] = saving[s].entity[c]
  OBVIOUS
<1> HIDE DEF new
<1>3. /\ DOMAIN saving' = RowSlots /\ saving'[s] = new
      /\ \A q \in RowSlots : q # s => saving'[q] = saving[q]
  BY <1>1 DEF RowInv, RowState
<1>4. Columns' = Columns
  BY <1>1 DEF Columns
<1>5. RowState'
  BY <1>1, <1>2, <1>3, <1>4 DEF RowInv, RowState
<1>6. PromisesKept'
  BY <1>1, <1>2, <1>3, <1>4 DEF RowInv, PromisesKept, PromiseKept
<1>7. CodesUnusable' /\ ReadsStored'
  BY <1>1, <1>2, <1>3 DEF RowInv, CodesUnusable, ReadsStored, OnlyWrite
<1>8. PaymentsUnnamed'
  <2>1. ASSUME table = "payments"
        PROVE  \/ "gatewayResponse" \in DOMAIN new.writes
               \/ row["gatewayResponse"] = "unnamed"
    <3>1. saving[s].entity["gatewayResponse"] = "unnamed"
      BY <1>1, <2>1 DEF RowInv, PaymentsUnnamed, OnlyWrite
    <3>2. "gatewayResponse" \in DOMAIN row
      BY <2>1, TableColumns DEF RowInv, RowState
    <3> QED
      BY <3>1, <3>2 DEF new, Changed
  <2>2. ASSUME table = "payments"
        PROVE  /\ OnlyWrite("gatewayPaymentId", "null")'
               /\ OnlyWrite("gatewayResponse", "unnamed")'
    BY <1>1, <1>2, <1>3, <2>2 DEF RowInv, PaymentsUnnamed, OnlyWrite
  <2> QED
    BY <1>1, <1>3, <2>1, <2>2 DEF RowInv, PaymentsUnnamed
<1> QED
  BY <1>5, <1>6, <1>7, <1>8 DEF RowInv

\* What s answers for is what it wrote; other requests in flight may undo it,
\* and then it is not promised.
LEMMA AnsweredKeeps ==
  ASSUME RowInv, NEW s \in RowSlots, NEW meant \in SUBSET Columns,
         Answered(s, meant, row'), UNCHANGED table,
         DOMAIN saving' = RowSlots, saving'[s].step = "idle",
         \A q \in RowSlots : q # s => saving'[q] = saving[q],
         \A c \in DOMAIN promised \ meant : row'[c] = promised[c]
  PROVE  PromisesKept'
<1>1. Columns' = Columns /\ DOMAIN promised \subseteq Columns
  BY DEF Columns, RowInv, PromisesKept
<1>2. CASE Alone(s)
  <2>1. /\ DOMAIN promised' = DOMAIN promised \cup meant
        /\ \A c \in DOMAIN promised' :
             promised'[c] = IF c \in meant THEN row'[c] ELSE promised[c]
    BY <1>2 DEF Answered
  <2>2. \A q \in RowSlots : saving'[q].step = "idle"
    BY <1>2 DEF Alone, Free
  <2>3. \A c \in DOMAIN promised' : row'[c] = promised'[c]
    BY <2>1
  <2> QED
    BY <1>1, <2>1, <2>2, <2>3 DEF PromisesKept, PromiseKept
<1>3. CASE ~Alone(s)
  <2>1. /\ DOMAIN promised' = DOMAIN promised \ meant
        /\ \A c \in DOMAIN promised' : promised'[c] = promised[c]
    BY <1>3 DEF Answered
  <2>2. ASSUME NEW c \in DOMAIN promised' PROVE PromiseKept(c)'
    <3>1. /\ c \in DOMAIN promised /\ promised'[c] = promised[c]
          /\ row'[c] = promised[c] /\ PromiseKept(c)
      BY <2>1, <2>2 DEF RowInv, PromisesKept
    <3>2. \A q \in RowSlots : saving'[q].step # "idle" => saving'[q] = saving[q]
      OBVIOUS
    <3> QED
      BY <3>1, <3>2 DEF PromiseKept
  <2> QED
    BY <1>1, <2>1, <2>2 DEF PromisesKept
<1> QED
  BY <1>2, <1>3

\* The UPDATE of a request stores what the request was to write.
LEMMA UpdateKeeps ==
  ASSUME RowInv, NEW s \in RowSlots, Update(s)
  PROVE  /\ RowInv'
         /\ table = "notifications" => row'.isRead = TRUE \/ row'.isRead = row.isRead
<1> DEFINE writes == saving[s].writes
           meant == saving[s].meant
<1>1. /\ saving[s].step = "selected" /\ row' = Assign(row, writes)
      /\ Answered(s, meant, row') /\ answer' = "ok"
      /\ saving' = [saving EXCEPT ![s] = Idle]
      /\ UNCHANGED <<table, day>>
  BY DEF Update, Answered
<1>2. /\ DOMAIN saving' = RowSlots /\ saving'[s].step = "idle"
      /\ \A q \in RowSlots : q # s => saving'[q] = saving[q]
  BY <1>1 DEF RowInv, RowState, Idle
<1>3. meant \subseteq Columns /\ Columns \subseteq DOMAIN row
  BY <1>1 DEF RowInv, RowState
<1>4. /\ DOMAIN row' = DOMAIN row
      /\ \A c \in DOMAIN row :
           row'[c] = IF c \in DOMAIN writes THEN writes[c] ELSE row[c]
  BY <1>1 DEF Assign
<1>5. Columns' = Columns
  BY <1>1 DEF Columns
<1>6. RowState'
  BY <1>1, <1>2, <1>4, <1>5 DEF RowInv, RowState
<1>7. PromisesKept'
  <2>1. ASSUME NEW c \in DOMAIN promised \ meant PROVE row'[c] = promised[c]
    <3>1. c \in DOMAIN row /\ PromiseKept(c)
      BY <1>3, <2>1 DEF RowInv, PromisesKept
    <3> QED
      BY <1>1, <1>4, <2>1, <3>1 DEF PromiseKept
  <2> QED
    BY <1>1, <1>2, <1>3, <2>1, AnsweredKeeps
<1>8. ASSUME NEW c \in DOMAIN row, NEW v, OnlyWrite(c, v)
      PROVE  (row'[c] = v \/ row'[c] = row[c]) /\ OnlyWrite(c, v)'
  BY <1>1, <1>2, <1>4, <1>8 DEF OnlyWrite
<1>9. CodesUnusable'
  <2>1. ASSUME table = "promoCodes"
        PROVE  /\ row'["usageCount"] = 0 /\ OnlyWrite("usageCount", 0)'
               /\ row'["maxUses"] = "null" /\ OnlyWrite("maxUses", "null")'
    <3>1. /\ OnlyWrite("usageCount", 0) /\ row["usageCount"] = 0
          /\ OnlyWrite("maxUses", "null") /\ row["maxUses"] = "null"
      BY <2>1 DEF RowInv, CodesUnusable
    <3>2. "usageCount" \in DOMAIN row /\ "maxUses" \in DOMAIN row
      BY <1>3, <2>1, TableColumns
    <3> QED
      BY <1>8, <3>1, <3>2
  <2> QED
    BY <1>1, <2>1 DEF CodesUnusable
<1>10. /\ ReadsStored'
       /\ table = "notifications" => row'.isRead = TRUE \/ row'.isRead = row.isRead
  <2>1. ASSUME table = "notifications"
        PROVE  /\ row'["isRead"] = TRUE \/ row'["isRead"] = row["isRead"]
               /\ OnlyWrite("isRead", TRUE)'
    <3>1. "isRead" \in DOMAIN row
      BY <1>3, <2>1, TableColumns
    <3> QED
      BY <1>8, <2>1, <3>1 DEF RowInv, ReadsStored
  <2> QED
    BY <1>1, <2>1 DEF ReadsStored
<1>11. PaymentsUnnamed'
  <2>1. ASSUME table = "payments"
        PROVE  /\ row'["gatewayPaymentId"] = "null"
               /\ OnlyWrite("gatewayPaymentId", "null")'
               /\ row'["gatewayResponse"] = "unnamed"
               /\ OnlyWrite("gatewayResponse", "unnamed")'
    <3>1. "gatewayPaymentId" \in DOMAIN row /\ "gatewayResponse" \in DOMAIN row
      BY <1>3, <2>1, TableColumns
    <3>2. row'["gatewayResponse"] = "unnamed"
      BY <1>1, <1>4, <2>1, <3>1 DEF RowInv, PaymentsUnnamed, OnlyWrite
    <3> QED
      BY <1>8, <2>1, <3>1, <3>2 DEF RowInv, PaymentsUnnamed
  <2> QED
    BY <1>1, <2>1 DEF PaymentsUnnamed
<1> QED
  BY <1>6, <1>7, <1>9, <1>10, <1>11 DEF RowInv

\* The one UPDATE of markAllAsRead.
LEMMA MarkAllKeeps ==
  ASSUME RowInv, NEW s \in RowSlots, MarkAllAsRead(s)
  PROVE  RowInv' /\ (row'.isRead = TRUE \/ row'.isRead = row.isRead)
<1>1. CASE row.isRead
  <2>1. Reply("ok")
    BY <1>1 DEF MarkAllAsRead
  <2> QED
    BY <2>1, ReplyKeeps DEF Reply
<1>2. CASE ~row.isRead
  <2>1. /\ table = "notifications" /\ saving[s].step = "idle"
        /\ row' = [row EXCEPT !.isRead = TRUE, !.readAt = "set"]
        /\ Answered(s, {"isRead", "readAt"}, row') /\ answer' = "ok"
        /\ UNCHANGED <<table, saving, day>>
    BY <1>2 DEF MarkAllAsRead, Answered, Free
  <2>2. Columns = {"isRead", "readAt", "deletedAt"} /\ Columns' = Columns
    BY <2>1, TableColumns DEF Columns
  <2>3. /\ DOMAIN row = Columns \cup {"present"} /\ DOMAIN row' = DOMAIN row
        /\ row'.isRead = TRUE
        /\ \A c \in DOMAIN row : c \notin {"isRead", "readAt"} => row'[c] = row[c]
    BY <2>1, <2>2 DEF RowInv, RowState
  <2>4. RowState'
    BY <2>1, <2>2, <2>3 DEF RowInv, RowState
  <2>5. PromisesKept'
    <3>1. ASSUME NEW c \in DOMAIN promised \ {"isRead", "readAt"}
          PROVE  row'[c] = promised[c]
      BY <2>3, <3>1 DEF RowInv, PromisesKept, PromiseKept
    <3>2. DOMAIN saving = RowSlots
      BY DEF RowInv, RowState
    <3> QED
      BY <2>1, <2>2, <3>1, <3>2, AnsweredKeeps
  <2>6. CodesUnusable' /\ PaymentsUnnamed' /\ ReadsStored'
    BY <2>1 DEF RowInv, CodesUnusable, PaymentsUnnamed, ReadsStored, OnlyWrite
  <2> QED
    BY <2>3, <2>4, <2>5, <2>6 DEF RowInv
<1> QED
  BY <1>1, <1>2

\* An upload makes the row; validate and the clock change nothing in it.
LEMMA OthersKeep ==
  ASSUME RowInv, NEW s \in RowSlots, UploadRow(s) \/ Validate(s) \/ TimePasses
  PROVE  RowInv'
<1>1. CASE UploadRow(s)
  <2>1. /\ table = "documents" /\ row' = [row EXCEPT !.present = TRUE]
        /\ answer' = "ok" /\ UNCHANGED <<table, saving, promised, day>>
    BY <1>1 DEF UploadRow
  <2>2. /\ DOMAIN row' = DOMAIN row /\ Columns' = Columns
        /\ \A c \in Columns : row'[c] = row[c]
    BY <2>1, PresentApart DEF RowInv, RowState, Columns
  <2>3. RowState'
    BY <2>1, <2>2 DEF RowInv, RowState
  <2>4. PromisesKept'
    <3>1. DOMAIN promised \subseteq Columns
      BY DEF RowInv, PromisesKept
    <3>2. ASSUME NEW c \in DOMAIN promised PROVE PromiseKept(c)'
      <4>1. PromiseKept(c) /\ row'[c] = row[c]
        BY <2>2, <3>1 DEF RowInv, PromisesKept
      <4> QED
        BY <2>1, <4>1 DEF PromiseKept
    <3> QED
      BY <2>1, <2>2, <3>1, <3>2 DEF PromisesKept
  <2> QED
    BY <2>1, <2>3, <2>4
       DEF RowInv, CodesUnusable, PaymentsUnnamed, ReadsStored, OnlyWrite
<1>2. CASE Validate(s)
  <2>1. UsedUp
    BY <1>2 DEF Validate, UsedUp, AtLeast, RowInv, CodesUnusable
  <2> QED
    BY <1>2, <2>1, ReplyKeeps DEF Validate
<1>3. CASE TimePasses
  BY <1>3
     DEF TimePasses, RowInv, RowState, Columns, PromisesKept, PromiseKept,
         CodesUnusable, PaymentsUnnamed, ReadsStored, OnlyWrite
<1> QED
  BY <1>1, <1>2, <1>3

\* A step leaves a notification's isRead alone or sets it.
ReadStays ==
  table = "notifications" => row'.isRead = TRUE \/ row'.isRead = row.isRead

\* The requests about services.
LEMMA ServiceRequestKeeps ==
  ASSUME RowInv, NEW s \in RowSlots, ServiceRequest(s)
  PROVE  RowInv' /\ ReadStays
<1>1. table = "services"
  BY DEF ServiceRequest, FindOneService, UpdateService, ToggleActive, RemoveService
<1>2. Columns = {"name", "isActive", "viewCount", "deletedAt"}
  BY <1>1, TableColumns
<1>3. CASE FindOneService(s)
  <2>1. DOMAIN [viewCount |-> row.viewCount + 1] \subseteq Columns
    BY <1>2
  <2> QED
    BY <1>1, <1>3, <2>1, LoadKeeps DEF FindOneService, ReadStays
<1>4. ASSUME NEW name \in Texts, UpdateService(s, name) PROVE RowInv'
  <2>1. DOMAIN [name |-> name] \subseteq Columns
    BY <1>2
  <2> QED
    BY <1>1, <1>4, <2>1, LoadKeeps DEF UpdateService
<1>5. CASE ToggleActive(s)
  <2>1. DOMAIN [isActive |-> ~row.isActive] \subseteq Columns
    BY <1>2
  <2> QED
    BY <1>1, <1>5, <2>1, LoadKeeps DEF ToggleActive, ReadStays
<1>6. CASE RemoveService(s)
  BY <1>1, <1>6, LoadToRemoveKeeps DEF RemoveService, ReadStays
<1> QED
  BY <1>1, <1>3, <1>4, <1>5, <1>6 DEF ServiceRequest, ReadStays

\* The requests about reviews.
LEMMA ReviewRequestKeeps ==
  ASSUME RowInv, NEW s \in RowSlots, ReviewRequest(s)
  PROVE  RowInv' /\ ReadStays
<1>1. table = "reviews"
  BY DEF ReviewRequest, UpdateReview, Respond, MarkHelpful, ApproveReview,
         RejectReview, RemoveReview
<1>2. Columns = {"comment", "status", "helpfulCount", "providerResponse", "deletedAt"}
  BY <1>1, TableColumns
<1>3. ASSUME NEW comment \in Texts, UpdateReview(s, comment) PROVE RowInv'
  <2>1. DOMAIN [comment |-> comment] \subseteq Columns
    BY <1>2
  <2> QED
    BY <1>1, <1>3, <2>1, LoadKeeps DEF UpdateReview
<1>4. CASE Respond(s)
  <2>1. DOMAIN [providerResponse |-> "set"] \subseteq Columns
    BY <1>2
  <2> QED
    BY <1>1, <1>4, <2>1, LoadKeeps DEF Respond, ReadStays
<1>5. CASE MarkHelpful(s)
  <2>1. DOMAIN [helpfulCount |-> row.helpfulCount + 1] \subseteq Columns
    BY <1>2
  <2> QED
    BY <1>1, <1>5, <2>1, LoadKeeps DEF MarkHelpful, ReadStays
<1>6. CASE ApproveReview(s)
  <2>1. DOMAIN [status |-> "PUBLISHED"] \subseteq Columns
    BY <1>2
  <2> QED
    BY <1>1, <1>6, <2>1, LoadKeeps DEF ApproveReview, ReadStays
<1>7. CASE RejectReview(s)
  <2>1. DOMAIN [status |-> "REJECTED"] \subseteq Columns
    BY <1>2
  <2> QED
    BY <1>1, <1>7, <2>1, LoadKeeps DEF RejectReview, ReadStays
<1>8. CASE RemoveReview(s)
  BY <1>1, <1>8, LoadToRemoveKeeps DEF RemoveReview, ReadStays
<1> QED
  BY <1>1, <1>3, <1>4, <1>5, <1>6, <1>7, <1>8 DEF ReviewRequest, ReadStays

\* The requests about notifications and promo codes.
LEMMA NoticeRequestKeeps ==
  ASSUME RowInv, NEW s \in RowSlots,
         \/ MarkAsRead(s) \/ MarkAllAsRead(s) \/ RemoveNotification(s)
         \/ \E validFrom \in 0..MaxDay, isActive \in BOOLEAN :
              UpdatePromoCode(s, validFrom, isActive)
         \/ Deactivate(s) \/ RemovePromoCode(s) \/ Validate(s)
  PROVE  RowInv' /\ ReadStays
<1>1. CASE MarkAsRead(s)
  <2> DEFINE patch == [isRead |-> TRUE, readAt |-> "set"]
  <2>1. Columns = {"isRead", "readAt", "deletedAt"} /\ table = "notifications"
    BY <1>1, TableColumns DEF MarkAsRead
  <2>2. /\ DOMAIN patch \subseteq Columns
        /\ "isRead" \in DOMAIN patch /\ patch["isRead"] = TRUE
    BY <2>1
  <2>3. Load(s, patch, {"readAt"}, "notFound")
    BY <1>1 DEF MarkAsRead
  <2> HIDE DEF patch
  <2>4. RowInv'
    BY <2>1, <2>2, <2>3, LoadKeeps
  <2> QED
    BY <2>3, <2>4 DEF Load, Reply, ReadStays
<1>2. CASE MarkAllAsRead(s)
  BY <1>2, MarkAllKeeps DEF ReadStays
<1>3. CASE RemoveNotification(s)
  <2>1. RowInv'
    BY <1>3, LoadToRemoveKeeps DEF RemoveNotification
  <2> QED
    BY <1>3, <2>1 DEF RemoveNotification, LoadToRemove, Reply, ReadStays
<1>4. ASSUME NEW validFrom \in 0..MaxDay, NEW isActive \in BOOLEAN,
             UpdatePromoCode(s, validFrom, isActive)
      PROVE  RowInv' /\ table = "promoCodes"
  <2> DEFINE patch == [validFrom |-> validFrom, isActive |-> isActive]
  <2>1. table = "promoCodes" /\ Load(s, patch, {"validFrom"}, "notFound")
    BY <1>4 DEF UpdatePromoCode
  <2>2. DOMAIN patch = {"validFrom", "isActive"}
    OBVIOUS
  <2> HIDE DEF patch
  <2>3. DOMAIN patch \subseteq Columns
    BY <2>1, <2>2, TableColumns
  <2> QED
    BY <2>1, <2>2, <2>3, LoadKeeps
<1>5. CASE Deactivate(s)
  <2> DEFINE patch == [isActive |-> FALSE]
  <2>1. table = "promoCodes" /\ Load(s, patch, {}, "notFound")
    BY <1>5 DEF Deactivate
  <2>2. DOMAIN patch = {"isActive"}
    OBVIOUS
  <2> HIDE DEF patch
  <2>3. DOMAIN patch \subseteq Columns
    BY <2>1, <2>2, TableColumns
  <2> QED
    BY <2>1, <2>2, <2>3, LoadKeeps DEF ReadStays
<1>6. CASE RemovePromoCode(s)
  BY <1>6, LoadToRemoveKeeps DEF RemovePromoCode, ReadStays
<1>7. CASE Validate(s)
  BY <1>7, OthersKeep DEF Validate, ReadStays
<1> QED
  BY <1>1, <1>2, <1>3, <1>4, <1>5, <1>6, <1>7 DEF ReadStays

\* The requests about payments, documents and settings.
LEMMA OtherRequestKeeps ==
  ASSUME RowInv, NEW s \in RowSlots, OtherRequest(s)
  PROVE  RowInv' /\ ReadStays
<1>1. ASSUME NEW notice \in Notices, NEW patch, NEW fresh,
             MarkPayment(s, notice, patch, fresh),
             \A c \in DOMAIN patch :
               c \in {"status", "paidAt", "failedAt", "gatewayResponse"},
             "gatewayResponse" \in DOMAIN patch, patch["gatewayResponse"] = notice
      PROVE  RowInv' /\ ReadStays
  <2>1. table = "payments" /\ row.gatewayPaymentId = "null"
    BY <1>1 DEF MarkPayment, RowInv, PaymentsUnnamed
  <2>2. CASE Reply("ok")
    BY <2>1, <2>2, ReplyKeeps DEF ReadStays
  <2>3. CASE KnownToGateway(notice) /\ Load(s, patch, fresh, "ok")
    <3>1. notice = "unnamed"
      BY <2>1, <2>3 DEF KnownToGateway
    <3>2. DOMAIN patch \subseteq Columns /\ "gatewayPaymentId" \notin DOMAIN patch
      BY <1>1, <2>1, TableColumns
    <3>3. RowInv'
      BY <1>1, <2>1, <2>3, <3>1, <3>2, LoadKeeps
    <3> QED
      BY <2>1, <3>3 DEF ReadStays
  <2> QED
    BY <1>1, <2>2, <2>3 DEF MarkPayment
<1>2. CASE VerifyPayment(s)
  BY <1>2, ReplyKeeps DEF VerifyPayment, ReadStays
<1>3. CASE UploadRow(s)
  BY <1>3, OthersKeep DEF UploadRow, ReadStays
<1>4. ASSUME NEW status,
             table = "documents"
               /\ Load(s, [verificationStatus |-> status], {}, "error")
      PROVE  RowInv' /\ ReadStays
  <2>1. DOMAIN [verificationStatus |-> status] \subseteq Columns
    BY <1>4, TableColumns
  <2> QED
    BY <1>4, <2>1, LoadKeeps DEF ReadStays
<1>5. CASE DeleteDocument(s)
  BY <1>5, LoadToRemoveKeeps DEF DeleteDocument, ReadStays
<1>6. ASSUME NEW value \in Texts, UpdateStoredSetting(s, value)
      PROVE  RowInv' /\ ReadStays
  <2>1. table = "settings" /\ DOMAIN [value |-> value] \subseteq Columns
    BY <1>6, TableColumns DEF UpdateStoredSetting
  <2> QED
    BY <1>6, <2>1, LoadKeeps DEF UpdateStoredSetting, ReadStays
<1>7. CASE VerifyDocument(s) \/ RejectDocument(s)
  BY <1>4, <1>7 DEF VerifyDocument, RejectDocument
<1>8. ASSUME NEW notice \in Notices,
             MarkPaymentCompleted(s, notice) \/ MarkPaymentFailed(s, notice)
      PROVE  RowInv' /\ ReadStays
  BY <1>1, <1>8 DEF MarkPaymentCompleted, MarkPaymentFailed
<1> QED
  BY <1>2, <1>3, <1>5, <1>6, <1>7, <1>8, NoticeRequestKeeps DEF OtherRequest

\* Every step keeps the invariant, and what was read.
LEMMA RowStepKeeps ==
  ASSUME RowInv, [MarketplaceNext]_rowVars
  PROVE  RowInv' /\ ReadStays
<1>1. ASSUME NEW s \in RowSlots, Select(s) PROVE RowInv' /\ ReadStays
  BY <1>1, SelectKeeps DEF Select, ReadStays
<1>2. ASSUME NEW s \in RowSlots, Update(s) PROVE RowInv' /\ ReadStays
  BY <1>2, UpdateKeeps DEF ReadStays
<1>3. CASE TimePasses
  BY <1>3
     DEF TimePasses, RowInv, RowState, Columns, PromisesKept, PromiseKept,
         CodesUnusable, PaymentsUnnamed, ReadsStored, OnlyWrite, ReadStays
<1>4. CASE UNCHANGED rowVars
  BY <1>4
     DEF rowVars, RowInv, RowState, Columns, PromisesKept, PromiseKept,
         CodesUnusable, PaymentsUnnamed, ReadsStored, OnlyWrite, ReadStays
<1> QED
  BY <1>1, <1>2, <1>3, <1>4, ServiceRequestKeeps, ReviewRequestKeeps,
     OtherRequestKeeps
     DEF MarketplaceNext

\* In every behaviour of the platform the invariant of the rows holds.
LEMMA RowsAlways == Spec => []RowInv
<1>1. Init => RowInv
  BY RowInitKeeps DEF Init
<1>2. RowInv /\ [Next]_vars => RowInv'
  <2> SUFFICES ASSUME RowInv, [Next]_vars PROVE RowInv'
    OBVIOUS
  <2>1. [MarketplaceNext]_rowVars
    BY DEF Next, RunPart, vars, rowVars
  <2> QED
    BY <2>1, RowStepKeeps
<1> QED
  BY <1>1, <1>2, PTL DEF Spec

\* What a request was answered for holds until another request means to change
\* it, unless one that had loaded the row before was in flight.
THEOREM AnswersHold == Spec => []KeptUnlessRaced
<1>1. RowInv => KeptUnlessRaced
  BY DEF RowInv, PromisesKept, PromiseKept, KeptUnlessRaced
<1> QED
  BY <1>1, RowsAlways, PTL

\* No promo code is ever accepted, whatever is updated and when.
THEOREM NoCodeAccepted == Spec => []PromoNeverUsable
<1>1. RowInv => PromoNeverUsable
  BY DEF RowInv, CodesUnusable, PromoNeverUsable
<1> QED
  BY <1>1, RowsAlways, PTL

\* A payment that notices completed or failed has the data of one that named no
\* payment, however many notices are being handled: none settles the payment it
\* is about.
THEOREM NoticesMissTheirs == Spec => []SettledUnnamed
<1>1. RowInv => SettledUnnamed
  BY DEF RowInv, PaymentsUnnamed, SettledUnnamed
<1> QED
  BY <1>1, RowsAlways, PTL

\* A notification that was read never becomes unread.
THEOREM ReadForGood == Spec => ReadNeverUnread
<1>1. RowInv /\ [Next]_vars =>
        [table = "notifications" /\ row.isRead => row'.isRead]_rowVars
  <2> SUFFICES ASSUME RowInv, [Next]_vars, table = "notifications", row.isRead
               PROVE  row'.isRead
    OBVIOUS
  <2>1. [MarketplaceNext]_rowVars
    BY DEF Next, RunPart, vars, rowVars
  <2>2. row'.isRead = TRUE \/ row'.isRead = row.isRead
    BY <2>1, RowStepKeeps DEF ReadStays
  <2> QED
    BY <2>2, Zenon
<1> QED
  BY <1>1, RowsAlways, PTL DEF Spec, ReadNeverUnread

-----------------------------------------------------------------------------
(***************************************************************************)
(* The types of the rows: an entity has the row's columns, and whatever is *)
(* assigned to a column, or pending for it, is one of the column's values. *)
(***************************************************************************)
RowAnswers ==
  {"-", "ok", "notFound", "error", "invalid", "usedUp", "tooLittle", "valid"}

Pending(v) ==
  \/ v = Idle
  \/ /\ v.step = "loaded" /\ DOMAIN v.entity = DOMAIN row
     /\ v.fresh \subseteq DOMAIN row
     /\ \A c \in DOMAIN row : v.entity[c] \in Values(c)
  \/ /\ v.step = "selected"
     /\ \A c \in DOMAIN v.writes : v.writes[c] \in Values(c)

RowTyped ==
  /\ \A c \in DOMAIN row : row[c] \in Values(c)
  /\ \A s \in RowSlots : Pending(saving[s])
  /\ answer \in RowAnswers /\ day \in 0..MaxDay

\* The values of the columns requests assign to.
LEMMA ColumnValues ==
  /\ \A c \in {"name", "comment", "value"} : Texts \cup {"a"} = Values(c)
  /\ \A c \in {"isActive", "isRead", "present", "deletedAt"} : Values(c) = BOOLEAN
  /\ \A c \in {"viewCount", "helpfulCount"} : Values(c) = 0..MaxCount
  /\ \A c \in {"providerResponse", "readAt", "paidAt", "failedAt"} :
       Values(c) = {"-", "set"}
  /\ Values("validFrom") = 0..MaxDay
  /\ Values("usageCount") = {0} /\ Values("maxUsage") = {1}
  /\ Values("maxUses") = {"null"} /\ Values("gatewayPaymentId") = {"null"}
  /\ \A c \in {"status", "verificationStatus"} :
       Values(c) =
         {"PENDING", "PUBLISHED", "PAID", "COMPLETED", "FAILED", "VERIFIED",
          "REJECTED"}
  /\ Values("gatewayResponse") = {"null", "named", "unnamed"}
BY DEF Values

\* What the invariants say of the types.
LEMMA RowTypes == RowInv /\ RowTyped => MarketplaceTypeOK
<1> SUFFICES ASSUME RowInv, RowTyped PROVE MarketplaceTypeOK
  OBVIOUS
<1>1. /\ table \in RowTables /\ DOMAIN row = Columns \cup {"present"}
      /\ DOMAIN WithBase(SeededRow[table]) = DOMAIN row
  BY DEF RowInv, RowState, WithBase, Columns
<1>2. DOMAIN promised \subseteq DOMAIN row
  BY <1>1 DEF RowInv, PromisesKept
<1>3. RowOf(table, row)
  BY <1>1 DEF RowTyped, RowOf
<1>4. ASSUME NEW s \in RowSlots
      PROVE  \/ saving[s] = Idle
             \/ /\ saving[s].meant \subseteq DOMAIN row
                /\ \/ saving[s].step = "loaded" /\ RowOf(table, saving[s].entity)
                   \/ /\ saving[s].step = "selected"
                      /\ \A c \in DOMAIN saving[s].writes :
                           saving[s].writes[c] \in Values(c)
  <2>1. Pending(saving[s])
    BY DEF RowTyped
  <2>2. saving[s].step \in {"loaded", "selected"} => saving[s].meant \subseteq DOMAIN row
    BY <1>1 DEF RowInv, RowState
  <2> QED
    BY <1>1, <2>1, <2>2 DEF Pending, RowOf
<1> QED
  BY <1>1, <1>2, <1>3, <1>4 DEF MarketplaceTypeOK, RowTyped, RowAnswers

\* The seeds' rows have the values of their columns.
LEMMA RowInitTyped == MarketplaceInit => RowTyped
<1> SUFFICES ASSUME MarketplaceInit PROVE RowTyped
  OBVIOUS
<1>1. /\ table \in RowTables /\ answer = "-" /\ day = 0
      /\ row = [WithBase(SeededRow[table]) EXCEPT !.present = (table # "documents")]
      /\ saving = [s \in RowSlots |-> Idle]
  BY DEF MarketplaceInit
<1>2. /\ DOMAIN row = DOMAIN SeededRow[table] \cup {"present", "deletedAt"}
      /\ row["present"] \in BOOLEAN
      /\ \A c \in DOMAIN row : c # "present" =>
           row[c] = IF c \in DOMAIN SeededRow[table] THEN SeededRow[table][c]
                                                     ELSE c = "present"
  BY <1>1 DEF WithBase
<1>3. MaxDay \in Nat /\ MaxCount \in Nat
  BY MarketplaceAssumption
<1>4. ASSUME NEW c \in DOMAIN SeededRow[table]
      PROVE  SeededRow[table][c] \in Values(c)
  <2>0. CASE c \in {"isActive", "isRead"}
    <3>1. /\ SeededRow["services"]["isActive"] = TRUE
          /\ SeededRow["promoCodes"]["isActive"] = TRUE
          /\ SeededRow["notifications"]["isRead"] = FALSE
      BY DEF SeededRow
    <3>2. \/ table = "services" /\ c = "isActive"
          \/ table = "promoCodes" /\ c = "isActive"
          \/ table = "notifications" /\ c = "isRead"
      BY <1>1, <1>4, <2>0 DEF SeededRow, RowTables
    <3>3. SeededRow[table][c] \in BOOLEAN
      BY <3>1, <3>2
    <3> QED
      BY <2>0, <3>3, ColumnValues
  <2> SUFFICES ASSUME c \notin {"isActive", "isRead"}
               PROVE  SeededRow[table][c] \in Values(c)
    BY <2>0
  <2>1. CASE table = "services"
    BY <1>3, <1>4, <2>1, ColumnValues DEF SeededRow
  <2>2. CASE table = "reviews"
    BY <1>3, <1>4, <2>2, ColumnValues DEF SeededRow
  <2>3. CASE table = "notifications"
    BY <1>4, <2>3, ColumnValues DEF SeededRow
  <2>4. CASE table = "promoCodes"
    BY <1>3, <1>4, <2>4, ColumnValues DEF SeededRow
  <2>5. CASE table = "payments"
    BY <1>4, <2>5, ColumnValues DEF SeededRow
  <2>6. CASE table = "documents"
    BY <1>4, <2>6, ColumnValues DEF SeededRow
  <2>7. CASE table = "settings"
    BY <1>4, <2>7, ColumnValues DEF SeededRow
  <2> QED
    BY <1>1, <2>1, <2>2, <2>3, <2>4, <2>5, <2>6, <2>7, TableColumns
<1>5. \A c \in DOMAIN row : row[c] \in Values(c)
  BY <1>2, <1>4, ColumnValues
<1> QED
  BY <1>1, <1>3, <1>5 DEF RowTyped, Pending, RowAnswers

\* An answer that changes nothing.
LEMMA ReplyTyped ==
  ASSUME RowTyped, NEW a \in RowAnswers, Reply(a)
  PROVE  RowTyped'
BY DEF Reply, RowTyped, Pending

\* The entity of a new request: the row, and values assigned to columns of it.
LEMMA LoadTyped ==
  ASSUME RowInv, RowTyped, NEW s \in RowSlots, NEW patch, NEW fresh,
         NEW none \in RowAnswers, Load(s, patch, fresh, none),
         fresh \subseteq Columns, \A c \in DOMAIN patch : patch[c] \in Values(c)
  PROVE  RowTyped'
<1>1. CASE ~Visible
  BY <1>1, ReplyTyped DEF Load
<1>2. CASE Visible
  <2> DEFINE new == [step |-> "loaded", meant |-> DOMAIN patch, fresh |-> fresh,
                     entity |-> Assign(row, patch)]
  <2>1. /\ saving' = [saving EXCEPT ![s] = new] /\ answer' = "-"
        /\ UNCHANGED <<table, row, promised, day>>
    BY <1>2 DEF Load
  <2>2. /\ new.step = "loaded" /\ DOMAIN new.entity = DOMAIN row
        /\ new.fresh = fresh
        /\ \A c \in DOMAIN row :
             new.entity[c] = IF c \in DOMAIN patch THEN patch[c] ELSE row[c]
    BY DEF Assign
  <2> HIDE DEF new
  <2>3. Pending(new) /\ fresh \subseteq DOMAIN row
    BY <2>2 DEF Pending, RowTyped, RowInv, RowState
  <2>4. \A q \in RowSlots : saving'[q] \in {new, saving[q]}
    BY <2>1 DEF RowInv, RowState
  <2> QED
    BY <2>1, <2>3, <2>4 DEF RowTyped, Pending, RowAnswers
<1> QED
  BY <1>1, <1>2

\* softRemove sets deletedAt.
LEMMA LoadToRemoveTyped ==
  ASSUME RowInv, RowTyped, NEW s \in RowSlots, LoadToRemove(s)
  PROVE  RowTyped'
<1>1. CASE ~Visible
  BY <1>1, ReplyTyped DEF LoadToRemove, RowAnswers
<1>2. CASE Visible
  <2> DEFINE new == [step |-> "selected", meant |-> {"deletedAt"},
                     writes |-> [deletedAt |-> TRUE]]
  <2>1. /\ saving' = [saving EXCEPT ![s] = new] /\ answer' = "-"
        /\ UNCHANGED <<table, row, promised, day>>
    BY <1>2 DEF LoadToRemove
  <2>2. /\ new.step = "selected" /\ DOMAIN new.writes = {"deletedAt"}
        /\ new.writes["deletedAt"] = TRUE
    OBVIOUS
  <2> HIDE DEF new
  <2>3. Pending(new)
    <3>1. Values("deletedAt") = BOOLEAN
      BY ColumnValues
    <3> QED
      BY <2>2, <3>1 DEF Pending
  <2>4. \A q \in RowSlots : saving'[q] \in {new, saving[q]}
    BY <2>1 DEF RowInv, RowState
  <2> QED
    BY <2>1, <2>3, <2>4 DEF RowTyped, Pending, RowAnswers
<1> QED
  BY <1>1, <1>2

\* The columns to write are columns of the entity.
LEMMA SelectTyped ==
  ASSUME RowInv, RowTyped, NEW s \in RowSlots, Select(s)
  PROVE  RowTyped'
<1> DEFINE columns == Changed(saving[s].entity, row, saving[s].fresh)
           new == [step |-> "selected", meant |-> saving[s].meant,
                   writes |-> [c \in columns |-> saving[s].entity[c]]]
<1>1. /\ saving[s].step = "loaded"
      /\ saving' = [saving EXCEPT ![s] = new] /\ answer' = "-"
      /\ UNCHANGED <<table, row, promised, day>>
  BY DEF Select
<1>2. /\ new.step = "selected" /\ DOMAIN new.writes = columns
      /\ \A c \in columns : new.writes[c] = saving[s].entity[c]
  OBVIOUS
<1> HIDE DEF new
<1>3. /\ saving[s].fresh \subseteq DOMAIN row
      /\ \A c \in DOMAIN row : saving[s].entity[c] \in Values(c)
  BY <1>1 DEF RowTyped, Pending, Idle
<1>4. Pending(new)
  BY <1>2, <1>3 DEF Pending, Changed
<1>5. \A q \in RowSlots : saving'[q] \in {new, saving[q]}
  BY <1>1 DEF RowInv, RowState
<1> QED
  BY <1>1, <1>4, <1>5 DEF RowTyped, Pending, RowAnswers

\* The UPDATE stores values of the columns.
LEMMA UpdateTyped ==
  ASSUME RowInv, RowTyped, NEW s \in RowSlots, Update(s)
  PROVE  RowTyped'
<1> DEFINE writes == saving[s].writes
<1>1. /\ saving[s].step = "selected" /\ row' = Assign(row, writes)
      /\ answer' = "ok" /\ saving' = [saving EXCEPT ![s] = Idle]
      /\ UNCHANGED <<table, day>>
  BY DEF Update, Answered
<1>2. \A c \in DOMAIN writes : writes[c] \in Values(c)
  BY <1>1 DEF RowTyped, Pending, Idle
<1>3. /\ DOMAIN row' = DOMAIN row
      /\ \A c \in DOMAIN row : row'[c] \in Values(c)
  BY <1>1, <1>2 DEF Assign, RowTyped
<1>4. \A q \in RowSlots : saving'[q] \in {Idle, saving[q]}
  BY <1>1 DEF RowInv, RowState
<1> QED
  BY <1>1, <1>3, <1>4 DEF RowTyped, Pending, RowAnswers

\* A request that assigns value v to one column c.
LEMMA LoadOneTyped ==
  ASSUME RowInv, RowTyped, NEW s \in RowSlots, NEW patch, NEW none \in RowAnswers,
         Load(s, patch, {}, none), NEW c, DOMAIN patch = {c}, patch[c] \in Values(c)
  PROVE  RowTyped'
<1>1. {} \subseteq Columns /\ \A d \in DOMAIN patch : patch[d] \in Values(d)
  OBVIOUS
<1> QED
  BY <1>1, LoadTyped

\* The requests about services and reviews: counters are counted up to their
\* bound, everything else is set.
LEMMA CatalogueTyped ==
  ASSUME RowInv, RowTyped, NEW s \in RowSlots, ServiceRequest(s) \/ ReviewRequest(s)
  PROVE  RowTyped'
<1>1. /\ "notFound" \in RowAnswers /\ MaxCount \in Nat
      /\ table = "services" =>
           {"name", "isActive", "viewCount"} \subseteq DOMAIN row
      /\ table = "reviews" =>
           {"comment", "status", "helpfulCount", "providerResponse"} \subseteq DOMAIN row
  BY TableColumns, MarketplaceAssumption DEF RowAnswers, RowInv, RowState
<1>2. CASE FindOneService(s)
  <2>1. /\ row.viewCount \in 0..MaxCount /\ row.viewCount < MaxCount
        /\ Load(s, [viewCount |-> row.viewCount + 1], {}, "notFound")
    BY <1>1, <1>2, ColumnValues DEF FindOneService, RowTyped
  <2>2. row.viewCount + 1 \in Values("viewCount")
    BY <1>1, <2>1, ColumnValues
  <2> QED
    BY <1>1, <2>1, <2>2, LoadOneTyped
<1>3. ASSUME NEW name \in Texts, UpdateService(s, name) PROVE RowTyped'
  <2>1. name \in Values("name")
    BY ColumnValues
  <2> QED
    BY <1>1, <1>3, <2>1, LoadOneTyped DEF UpdateService
<1>4. CASE ToggleActive(s)
  <2>1. (~row.isActive) \in Values("isActive")
    BY ColumnValues
  <2> QED
    BY <1>1, <1>4, <2>1, LoadOneTyped DEF ToggleActive
<1>5. CASE RemoveService(s) \/ RemoveReview(s)
  BY <1>5, LoadToRemoveTyped DEF RemoveService, RemoveReview
<1>6. ASSUME NEW comment \in Texts, UpdateReview(s, comment) PROVE RowTyped'
  <2>1. comment \in Values("comment")
    BY ColumnValues
  <2> QED
    BY <1>1, <1>6, <2>1, LoadOneTyped DEF UpdateReview
<1>7. CASE Respond(s)
  <2>1. "set" \in Values("providerResponse")
    BY ColumnValues
  <2> QED
    BY <1>1, <1>7, <2>1, LoadOneTyped DEF Respond
<1>8. CASE MarkHelpful(s)
  <2>1. /\ row.helpfulCount \in 0..MaxCount /\ row.helpfulCount < MaxCount
        /\ Load(s, [helpfulCount |-> row.helpfulCount + 1], {}, "notFound")
    BY <1>1, <1>8, ColumnValues DEF MarkHelpful, RowTyped
  <2>2. row.helpfulCount + 1 \in Values("helpfulCount")
    BY <1>1, <2>1, ColumnValues
  <2> QED
    BY <1>1, <2>1, <2>2, LoadOneTyped
<1>9. CASE ApproveReview(s) \/ RejectReview(s)
  <2>1. "PUBLISHED" \in Values("status") /\ "REJECTED" \in Values("status")
    BY ColumnValues
  <2> QED
    BY <1>1, <1>9, <2>1, LoadOneTyped DEF ApproveReview, RejectReview
<1> QED
  BY <1>2, <1>3, <1>4, <1>5, <1>6, <1>7, <1>8, <1>9
     DEF ServiceRequest, ReviewRequest

\* The requests about the other tables.
LEMMA OtherRequestTyped ==
  ASSUME RowInv, RowTyped, NEW s \in RowSlots, OtherRequest(s)
  PROVE  RowTyped'
<1>1. {"-", "ok", "notFound", "error", "invalid", "usedUp", "tooLittle", "valid"}
        \subseteq RowAnswers
  BY DEF RowAnswers
<1>2. CASE MarkAsRead(s)
  <2> DEFINE patch == [isRead |-> TRUE, readAt |-> "set"]
  <2>1. /\ table = "notifications" /\ Load(s, patch, {"readAt"}, "notFound")
        /\ {"readAt"} \subseteq Columns
    BY <1>2, TableColumns DEF MarkAsRead
  <2>2. DOMAIN patch = {"isRead", "readAt"} /\ patch["isRead"] = TRUE
        /\ patch["readAt"] = "set"
    OBVIOUS
  <2> HIDE DEF patch
  <2>3. \A c \in DOMAIN patch : patch[c] \in Values(c)
    <3>1. Values("isRead") = BOOLEAN /\ Values("readAt") = {"-", "set"}
      BY ColumnValues
    <3> QED
      BY <2>2, <3>1
  <2> QED
    BY <1>1, <2>1, <2>3, LoadTyped
<1>3. CASE MarkAllAsRead(s)
  <2>1. CASE row.isRead
    BY <1>1, <1>3, <2>1, ReplyTyped DEF MarkAllAsRead
  <2>2. CASE ~row.isRead
    <3>1. /\ row' = [row EXCEPT !.isRead = TRUE, !.readAt = "set"]
          /\ answer' = "ok" /\ UNCHANGED <<table, saving, day>>
      BY <1>3, <2>2 DEF MarkAllAsRead, Answered
    <3>2. /\ DOMAIN row' = DOMAIN row
          /\ \A c \in DOMAIN row : c \notin {"isRead", "readAt"} => row'[c] = row[c]
          /\ "isRead" \in DOMAIN row => row'["isRead"] = TRUE
          /\ "readAt" \in DOMAIN row => row'["readAt"] = "set"
      BY <3>1
    <3>3. TRUE \in Values("isRead") /\ "set" \in Values("readAt")
      BY ColumnValues
    <3>4. ASSUME NEW c \in DOMAIN row PROVE row'[c] \in Values(c)
      <4>1. CASE c \in {"isRead", "readAt"}
        BY <3>2, <3>3, <3>4, <4>1
      <4>2. CASE c \notin {"isRead", "readAt"}
        BY <3>2, <3>4, <4>2 DEF RowTyped
      <4> QED
        BY <4>1, <4>2
    <3> QED
      BY <1>1, <3>1, <3>2, <3>4 DEF RowTyped, Pending
  <2> QED
    BY <2>1, <2>2
<1>4. CASE \/ RemoveNotification(s) \/ RemovePromoCode(s) \/ DeleteDocument(s)
  BY <1>4, LoadToRemoveTyped DEF RemoveNotification, RemovePromoCode, DeleteDocument
<1>5. ASSUME NEW validFrom \in 0..MaxDay, NEW isActive \in BOOLEAN,
             UpdatePromoCode(s, validFrom, isActive)
      PROVE  RowTyped'
  <2> DEFINE patch == [validFrom |-> validFrom, isActive |-> isActive]
  <2>1. /\ table = "promoCodes" /\ Load(s, patch, {"validFrom"}, "notFound")
        /\ {"validFrom"} \subseteq Columns
    BY <1>5, TableColumns DEF UpdatePromoCode
  <2>2. DOMAIN patch = {"validFrom", "isActive"} /\ patch["isActive"] = isActive
        /\ patch["validFrom"] = validFrom
    OBVIOUS
  <2> HIDE DEF patch
  <2>3. \A c \in DOMAIN patch : patch[c] \in Values(c)
    BY <2>2, ColumnValues
  <2> QED
    BY <1>1, <2>1, <2>3, LoadTyped
<1>6. CASE Deactivate(s)
  <2> DEFINE patch == [isActive |-> FALSE]
  <2>1. Load(s, patch, {}, "notFound")
    BY <1>6 DEF Deactivate
  <2>2. DOMAIN patch = {"isActive"} /\ patch["isActive"] = FALSE
    OBVIOUS
  <2> HIDE DEF patch
  <2>3. patch["isActive"] \in Values("isActive")
    BY <2>2, ColumnValues
  <2> QED
    BY <1>1, <2>1, <2>2, <2>3, LoadOneTyped
<1>7. CASE Validate(s) \/ VerifyPayment(s)
  BY <1>1, <1>7, ReplyTyped DEF Validate, VerifyPayment
<1>8. ASSUME NEW notice \in Notices, NEW stamp \in {"paidAt", "failedAt"},
             NEW patch, MarkPayment(s, notice, patch, {stamp}),
             DOMAIN patch = {"status", stamp, "gatewayResponse"},
             patch["status"] \in {"COMPLETED", "FAILED"}, patch[stamp] = "set",
             patch["gatewayResponse"] = notice
      PROVE  RowTyped'
  <2>1. \A c \in DOMAIN patch : patch[c] \in Values(c)
    BY <1>8, ColumnValues DEF Notices
  <2>2. {stamp} \subseteq Columns
    BY <1>8, TableColumns DEF MarkPayment
  <2> QED
    BY <1>1, <1>8, <2>1, <2>2, ReplyTyped, LoadTyped DEF MarkPayment
<1>9. ASSUME NEW notice \in Notices,
             MarkPaymentCompleted(s, notice) \/ MarkPaymentFailed(s, notice)
      PROVE  RowTyped'
  BY <1>8, <1>9 DEF MarkPaymentCompleted, MarkPaymentFailed
<1>10. CASE UploadRow(s)
  <2>1. /\ row' = [row EXCEPT !.present = TRUE] /\ answer' = "ok"
        /\ UNCHANGED <<table, saving, promised, day>>
    BY <1>10 DEF UploadRow
  <2>2. /\ DOMAIN row' = DOMAIN row
        /\ \A c \in DOMAIN row : c # "present" => row'[c] = row[c]
        /\ "present" \in DOMAIN row => row'["present"] = TRUE
    BY <2>1
  <2>3. \A c \in DOMAIN row : row'[c] \in Values(c)
    <3>1. Values("present") = BOOLEAN
      BY ColumnValues
    <3> QED
      BY <2>2, <3>1 DEF RowTyped
  <2> QED
    BY <1>1, <2>1, <2>2, <2>3 DEF RowTyped, Pending
<1>11. CASE VerifyDocument(s) \/ RejectDocument(s)
  <2>1. /\ "VERIFIED" \in Values("verificationStatus")
        /\ "REJECTED" \in Values("verificationStatus")
    BY ColumnValues
  <2> QED
    BY <1>1, <1>11, <2>1, LoadOneTyped DEF VerifyDocument, RejectDocument
<1>12. ASSUME NEW value \in Texts, UpdateStoredSetting(s, value) PROVE RowTyped'
  <2>1. value \in Values("value")
    BY ColumnValues
  <2> QED
    BY <1>1, <1>12, <2>1, LoadOneTyped DEF UpdateStoredSetting
<1> QED
  BY <1>2, <1>3, <1>4, <1>5, <1>6, <1>7, <1>9, <1>10, <1>11, <1>12
     DEF OtherRequest

\* Every step keeps the types.
LEMMA RowStepTyped ==
  ASSUME RowInv, RowTyped, [MarketplaceNext]_rowVars
  PROVE  RowTyped'
<1>1. CASE TimePasses
  <2>1. day' \in 0..MaxDay
    BY <1>1, MarketplaceAssumption DEF TimePasses, RowTyped
  <2> QED
    BY <1>1, <2>1 DEF TimePasses, RowTyped, Pending, RowAnswers
<1>2. CASE UNCHANGED rowVars
  BY <1>2 DEF rowVars, RowTyped, Pending
<1> QED
  BY <1>1, <1>2, CatalogueTyped, OtherRequestTyped, SelectTyped, UpdateTyped
     DEF MarketplaceNext

\* In every behaviour of the platform the rows keep to their types.
LEMMA RowsTyped == Spec => []MarketplaceTypeOK
<1>1. Init => RowInv /\ RowTyped
  BY RowInitKeeps, RowInitTyped DEF Init
<1>2. RowInv /\ RowTyped /\ [Next]_vars => (RowInv /\ RowTyped)'
  <2> SUFFICES ASSUME RowInv, RowTyped, [Next]_vars PROVE (RowInv /\ RowTyped)'
    OBVIOUS
  <2>1. [MarketplaceNext]_rowVars
    BY DEF Next, RunPart, vars, rowVars
  <2> QED
    BY <2>1, RowStepKeeps, RowStepTyped
<1> QED
  BY <1>1, <1>2, RowTypes, PTL DEF Spec
=============================================================================
