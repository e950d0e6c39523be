------------------------------- MODULE Inserts -------------------------------
(***************************************************************************)
(* The INSERTs of the request handlers against the columns of their        *)
(* tables.  repository.create copies the properties that are columns of    *)
(* the entity, and the server refuses an INSERT that leaves out a column   *)
(* that is NOT NULL and has no default, or repeats the value of a unique   *)
(* one: the handler ends there, with status 500.                           *)
(***************************************************************************)
EXTENDS Naturals

CONSTANTS
  Callers,    \* the requests in flight, each a handler at work
  MaxInserts  \* bound on the rows of a table

ASSUME InsertsAssumption == MaxInserts \in Nat \ {0}

VARIABLES
  rowsAdded,  \* rows the handlers have inserted; one user, one setting key
  missing,    \* the table a handler at work has found its row missing in
  outcome     \* the last answer: "refused" is the server's, "error" an exception

insertVars == <<rowsAdded, missing, outcome>>

-----------------------------------------------------------------------------
(* The columns an INSERT has to give.                                      *)

PaymentColumns ==
  {"paymentReference", "userId", "method", "amount", "totalAmount", "netAmount"}

RefundColumns ==
  {"refundReference", "bookingId", "paymentId", "userId", "reason",
   "originalAmount", "refundAmount", "netRefundAmount", "refundMethod",
   "requestedBy", "amount"}

ReviewColumns ==
  {"bookingId", "customerId", "providerId", "serviceId", "rating", "overallRating"}

DisputeColumns ==
  {"disputeNumber", "bookingId", "reportedByUserId", "category", "description",
   "reportedById"}

PromoCodeColumns ==
  {"code", "type", "applicability", "validFrom", "validUntil", "discountType",
   "discountValue"}

AddressColumns ==
  {"userId", "contactName", "contactPhone", "street", "city", "cityAr",
   "district", "districtAr", "latitude", "longitude"}

BookingPlaceColumns ==
  {"estimatedDurationMinutes", "serviceAddress", "customerName", "customerPhone"}

BookingColumns ==
  {"bookingNumber", "customerId", "serviceId", "scheduledAt", "servicePrice",
   "totalAmount"} \cup BookingPlaceColumns

SystemSettingColumns == {"key", "value", "category"}

WalletColumns == {"userId"}

ProviderDocumentColumns == {"providerId", "documentType", "documentUrl"}

ProviderLocationColumns ==
  {"providerId", "latitude", "longitude", "location", "recordedAt"}

Required ==
  [payments |-> PaymentColumns, refunds |-> RefundColumns,
   reviews |-> ReviewColumns, disputes |-> DisputeColumns,
   promoCodes |-> PromoCodeColumns, addresses |-> AddressColumns,
   bookings |-> BookingColumns, settings |-> SystemSettingColumns,
   wallets |-> WalletColumns, documents |-> ProviderDocumentColumns,
   providerLocations |-> ProviderLocationColumns]

InsertTables == DOMAIN Required

\* The tables of which the one user, or the one key, can have one row.
OnePerOwner == {"wallets", "settings"}

InsertsTypeOK ==
  /\ rowsAdded \in [InsertTables -> 0..MaxInserts]
  /\ missing \in [Callers -> OnePerOwner \cup {"-"}]
  /\ outcome \in {"-", "ok", "refused", "notFound", "error"}

InsertsInit ==
  /\ rowsAdded = [t \in InsertTables |-> 0]
  /\ missing = [c \in Callers |-> "-"]
  /\ outcome = "-"

-----------------------------------------------------------------------------
FreeCaller(c) == missing[c] = "-"

\* Fault: a second row of one owner is stored.
AcceptedTwice(t, given) == Required[t] \subseteq given

\* What the table's constraints make of an INSERT.
Accepted(t, given) ==
  /\ Required[t] \subseteq given
  /\ t \in OnePerOwner => rowsAdded[t] = 0

Insert(t, given) ==
  /\ rowsAdded[t] < MaxInserts
  /\ IF Accepted(t, given)
       THEN /\ rowsAdded' = [rowsAdded EXCEPT ![t] = @ + 1]
            /\ outcome' = "ok"
       ELSE outcome' = "refused" /\ UNCHANGED rowsAdded

\* An INSERT whose values depend on nothing the handler read before.
InsertAtOnce(c, t, given) ==
  /\ FreeCaller(c)
  /\ Insert(t, given)
  /\ UNCHANGED missing

CreatePayment(c) ==
  InsertAtOnce(c, "payments",
    {"paymentReference", "userId", "bookingId", "gateway", "amount", "currency",
     "status"})

TopUpWallet(c) ==
  InsertAtOnce(c, "payments",
    {"paymentReference", "userId", "gateway", "amount", "currency", "status",
     "paymentType"})

\* No booking has a payment: nothing assigns to the relation.
RequestRefund(c) ==
  FreeCaller(c) /\ outcome' = "notFound" /\ UNCHANGED <<rowsAdded, missing>>

CreateReview(c, optional) ==
  InsertAtOnce(c, "reviews",
    {"bookingId", "overallRating", "qualityRating", "professionalismRating",
     "punctualityRating", "customerId", "providerId", "serviceId", "images",
     "status"} \cup optional)

ReviewOptional == {"comment"}

CreateDispute(c) ==
  InsertAtOnce(c, "disputes",
    {"disputeNumber", "bookingId", "reportedById", "category", "description",
     "status", "priority", "evidenceDeadline"})

PromoOptional == {"validFrom", "validUntil", "maxDiscountAmount"}

CreatePromoCode(c, optional) ==
  InsertAtOnce(c, "promoCodes",
    {"code", "discountType", "discountValue", "maxUsage"} \cup optional)

AddressOptional == {"street"}

CreateAddress(c, optional) ==
  InsertAtOnce(c, "addresses",
    {"userId", "label", "city", "district", "latitude", "longitude", "location"}
      \cup optional)

CreateBooking(c) ==
  InsertAtOnce(c, "bookings",
    {"bookingNumber", "customerId", "providerId", "serviceId", "scheduledAt",
     "status", "servicePrice", "vatAmount", "totalAmount"})

UploadDocument(c) ==
  InsertAtOnce(c, "documents",
    {"providerId", "documentType", "documentUrl", "verificationStatus", "metadata"})

\* location is handed over as the text SRID=4326;POINT(...): whether driver and
\* server make a geography of it is not in this code, so either may happen.
UpdateProviderLocation(c) ==
  /\ FreeCaller(c)
  /\ \/ Insert("providerLocations",
          {"providerId", "latitude", "longitude", "location", "accuracy", "recordedAt"})
     \/ outcome' = "refused" /\ UNCHANGED rowsAdded
  /\ UNCHANGED missing

-----------------------------------------------------------------------------
(* Handlers that look for the row before they insert it.                   *)

LookUp(c, t) ==
  /\ FreeCaller(c)
  /\ IF rowsAdded[t] > 0
       THEN outcome' = "ok" /\ UNCHANGED missing
       ELSE missing' = [missing EXCEPT ![c] = t] /\ UNCHANGED outcome
  /\ UNCHANGED rowsAdded

InsertMissed(c, t, given) ==
  /\ missing[c] = t
  /\ Insert(t, given)
  /\ missing' = [missing EXCEPT ![c] = "-"]

\* getWallet, of a user without one.
GetWallet(c) ==
  LookUp(c, "wallets") \/ InsertMissed(c, "wallets", {"userId", "balance"})

\* updateSetting, of a key without a row; the body may give a category.
UpdateSetting(c, optional) ==
  \/ LookUp(c, "settings")
  \/ InsertMissed(c, "settings", {"key", "value"} \cup optional)

-----------------------------------------------------------------------------
(* Handlers that need a row of a table no handler and no seed fills.       *)

\* findAll, findOne and getAllDisputes join a relation reportedBy, which the
\* entity does not have.
DisputeHandlers ==
  [findAll |-> "error", findOne |-> "error", update |-> "notFound",
   addEvidence |-> "notFound", getEvidence |-> "notFound",
   sendMessage |-> "notFound", getMessages |-> "notFound"]

DisputeDecisions ==
  [escalate |-> "notFound", withdraw |-> "notFound", getAllDisputes |-> "error",
   resolve |-> "notFound", assign |-> "notFound", getStatistics |-> "ok"]

ConversationHandlers ==
  [getConversations |-> "ok", getConversation |-> "notFound",
   getMessages |-> "notFound", sendMessage |-> "notFound", markAsRead |-> "notFound",
   sendTypingIndicator |-> "notFound"]

\* setDefaultAddress clears the default of no row before it looks for its own.
AddressHandlers ==
  [getAddresses |-> "ok", getAddress |-> "notFound", updateAddress |-> "notFound",
   setDefaultAddress |-> "notFound", deleteAddress |-> "ok"]

RefundHandlers ==
  [getRefunds |-> "ok", getRefund |-> "notFound", approveRefund |-> "notFound",
   rejectRefund |-> "notFound"]

FindNothing(c, answers) ==
  /\ FreeCaller(c)
  /\ \E h \in DOMAIN answers : outcome' = answers[h]
  /\ UNCHANGED <<rowsAdded, missing>>

InsertsNext ==
  \E c \in Callers :
    \/ CreatePayment(c)
    \/ TopUpWallet(c)
    \/ RequestRefund(c)
    \/ \E optional \in SUBSET ReviewOptional : CreateReview(c, optional)
    \/ CreateDispute(c)
    \/ \E optional \in SUBSET PromoOptional : CreatePromoCode(c, optional)
    \/ \E optional \in SUBSET AddressOptional : CreateAddress(c, optional)
    \/ CreateBooking(c)
    \/ UploadDocument(c)
    \/ UpdateProviderLocation(c)
    \/ GetWallet(c)
    \/ \E optional \in {{}, {"category"}} : UpdateSetting(c, optional)
    \/ rowsAdded["disputes"] = 0 /\ FindNothing(c, DisputeHandlers)
    \/ rowsAdded["disputes"] = 0 /\ FindNothing(c, DisputeDecisions)
    \/ FindNothing(c, ConversationHandlers)
    \/ rowsAdded["addresses"] = 0 /\ FindNothing(c, AddressHandlers)
    \/ rowsAdded["refunds"] = 0 /\ FindNothing(c, RefundHandlers)

-----------------------------------------------------------------------------
(***************************************************************************)
(* Properties.                                                             *)
(***************************************************************************)
\* Whatever optional members a request gives and however look-ups interleave,
\* the only tables requests add rows to are those of documents, positions,
\* wallets and settings, and a user gets one wallet and a key one setting:
\* bookings, payments, refunds, reviews, disputes, promo codes and addresses
\* are the seeds' or do not exist, and no handler of the last kinds finds one.
InsertsRefused ==
  \A t \in InsertTables : rowsAdded[t] > 0 =>
    /\ t \in {"documents", "providerLocations", "wallets", "settings"}
    /\ t \in OnePerOwner => rowsAdded[t] = 1
=============================================================================
