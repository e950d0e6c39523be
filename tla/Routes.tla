-------------------------------- MODULE Routes --------------------------------
(***************************************************************************)
(* What stands between a request and its handler: the route tables of the  *)
(* controllers, of which Express takes the first entry that matches, and   *)
(* then the guards, the RolesGuard included, and the pipe of the           *)
(* parameters.  A client sends a request meant for one handler; the tables *)
(* and guards decide which one, if any, gets it.                           *)
(***************************************************************************)
EXTENDS Naturals, Sequences

VARIABLE request  \* the request under way, or the last one

(***************************************************************************)
(* The tables: the handlers of a controller in the order of its methods,   *)
(* the segments of their paths, and who their decorators let through: "-"  *)
(* leaves it to the decorators of the class, "public" is no guard, "user"  *)
(* is JwtAuthGuard, a role is JwtAuthGuard and RolesGuard with that role,  *)
(* "APPROVED" is those of a provider and ProviderStatusGuard.              *)
(***************************************************************************)
Route(verb, handler, path, who) ==
  [verb |-> verb, handler |-> handler, path |-> path, who |-> who]

Get(handler, path, who) == Route("GET", handler, path, who)
Post(handler, path, who) == Route("POST", handler, path, who)
Patch(handler, path, who) == Route("PATCH", handler, path, who)
Delete(handler, path, who) == Route("DELETE", handler, path, who)

AdminRoutes1 == <<
    Get("getDashboard", <<"dashboard">>, "-"),
    Get("getStatistics", <<"statistics">>, "-"),
    Get("getRevenue", <<"revenue">>, "-"),
    Get("getPendingProviders", <<"providers", "pending">>, "-"),
    Post("approveProvider", <<"providers", ":id", "approve">>, "-"),
    Post("rejectProvider", <<"providers", ":id", "reject">>, "-"),
    Get("getPendingDocuments", <<"documents", "pending">>, "-"),
    Post("verifyDocument", <<"documents", ":id", "verify">>, "-"),
    Post("rejectDocument", <<"documents", ":id", "reject">>, "-"),
    Get("getSettings", <<"settings">>, "-")>>

AdminRoutes2 == <<
    Patch("updateSetting", <<"settings", ":key">>, "-"),
    Get("getAuditLogs", <<"audit-logs">>, "-"),
    Get("getBookingsReport", <<"reports", "bookings">>, "-"),
    Get("getRevenueReport", <<"reports", "revenue">>, "-"),
    Get("getProvidersReport", <<"reports", "providers">>, "-"),
    Post("banUser", <<"users", ":id", "ban">>, "-"),
    Post("unbanUser", <<"users", ":id", "unban">>, "-"),
    Get("getTrends", <<"analytics", "trends">>, "-")>>

AnalyticsRoutes == <<
    Get("getProviderDashboard", <<"provider", "dashboard">>, "PROVIDER"),
    Get("getProviderPerformance", <<"provider", "performance">>, "PROVIDER"),
    Get("getProviderEarnings", <<"provider", "earnings">>, "PROVIDER"),
    Get("getCustomerSummary", <<"customer", "summary">>, "CUSTOMER"),
    Get("getCustomerSpending", <<"customer", "spending">>, "CUSTOMER")>>

AuthRoutes == <<
    Post("register", <<"register">>, "-"),
    Post("verifyOtp", <<"verify-otp">>, "-"),
    Post("resendOtp", <<"resend-otp">>, "-"),
    Post("login", <<"login">>, "-"),
    Post("forgotPassword", <<"forgot-password">>, "-"),
    Post("resetPassword", <<"reset-password">>, "-"),
    Post("refreshToken", <<"refresh-token">>, "-"),
    Post("logout", <<"logout">>, "user"),
    Patch("changePassword", <<"change-password">>, "user"),
    Get("getCurrentUser", <<"me">>, "user"),
    Post("updateFcmToken", <<"update-fcm-token">>, "user"),
    Post("removeFcmToken", <<"remove-fcm-token">>, "user")>>

BookingsRoutes1 == <<
    Post("create", <<>>, "-"),
    Get("findAll", <<>>, "-"),
    Get("getUpcoming", <<"upcoming">>, "-"),
    Get("getHistory", <<"history">>, "-"),
    Get("getActive", <<"active">>, "-"),
    Get("getStatistics", <<"statistics">>, "-"),
    Get("findOne", <<":id">>, "-"),
    Get("getTimeline", <<":id", "timeline">>, "-"),
    Patch("update", <<":id">>, "-"),
    Post("cancel", <<":id", "cancel">>, "-")>>

BookingsRoutes2 == <<
    Post("accept", <<":id", "accept">>, "PROVIDER"),
    Post("reject", <<":id", "reject">>, "PROVIDER"),
    Post("start", <<":id", "start">>, "PROVIDER"),
    Post("complete", <<":id", "complete">>, "PROVIDER"),
    Post("markEnRoute", <<":id", "en-route">>, "PROVIDER"),
    Post("markArrived", <<":id", "arrived">>, "PROVIDER"),
    Get("getTracking", <<":id", "tracking">>, "-"),
    Get("getAllBookings", <<"admin", "all">>, "ADMIN")>>

ChatRoutes == <<
    Get("getConversations", <<"conversations">>, "-"),
    Get("getConversation", <<"conversations", ":id">>, "-"),
    Get("getMessages", <<"conversations", ":id", "messages">>, "-"),
    Post("sendMessage", <<"conversations", ":id", "messages">>, "-"),
    Patch("markAsRead", <<"messages", ":id", "read">>, "-"),
    Post("sendTypingIndicator", <<"conversations", ":id", "typing">>, "-")>>

DisputesRoutes1 == <<
    Post("uploadFile", <<"upload">>, "-"),
    Post("create", <<>>, "-"),
    Get("findAll", <<>>, "-"),
    Get("findOne", <<":id">>, "-"),
    Patch("update", <<":id">>, "-"),
    Post("addEvidence", <<":id", "evidence">>, "-"),
    Get("getEvidence", <<":id", "evidence">>, "-"),
    Post("sendMessage", <<":id", "messages">>, "-"),
    Get("getMessages", <<":id", "messages">>, "-")>>

DisputesRoutes2 == <<
    Post("escalate", <<":id", "escalate">>, "-"),
    Post("withdraw", <<":id", "withdraw">>, "-"),
    Get("getAllDisputes", <<"admin", "all">>, "ADMIN"),
    Post("resolve", <<":id", "resolve">>, "ADMIN"),
    Patch("assign", <<":id", "assign">>, "ADMIN"),
    Get("getStatistics", <<"admin", "statistics">>, "ADMIN")>>

HealthRoutes == <<
    Get("check", <<"health">>, "-")>>

LocationsRoutes1 == <<
    Post("createAddress", <<"addresses">>, "user"),
    Get("getAddresses", <<"addresses">>, "user"),
    Get("getAddress", <<"addresses", ":id">>, "user"),
    Patch("updateAddress", <<"addresses", ":id">>, "user"),
    Patch("setDefaultAddress", <<"addresses", ":id", "set-default">>, "user"),
    Delete("deleteAddress", <<"addresses", ":id">>, "user")>>

LocationsRoutes2 == <<
    Get("searchNearbyProviders", <<"nearby", "providers">>, "-"),
    Get("searchNearbyServices", <<"nearby", "services">>, "-"),
    Post("updateProviderLocation", <<"provider", "location">>, "PROVIDER"),
    Get("getProviderLocationHistory", <<"provider", "location", "history">>, "PROVIDER"),
    Get("geocode", <<"geocode">>, "-"),
    Get("reverseGeocode", <<"reverse-geocode">>, "-"),
    Get("getCoverageAreas", <<"coverage-areas">>, "-")>>

NotificationsRoutes == <<
    Get("findAll", <<>>, "-"),
    Get("getUnreadCount", <<"unread", "count">>, "-"),
    Get("findOne", <<":id">>, "-"),
    Patch("markAsRead", <<":id", "read">>, "-"),
    Post("markAllAsRead", <<"read-all">>, "-"),
    Delete("remove", <<":id">>, "-"),
    Delete("clearAll", <<"clear-all">>, "-")>>

PaymentsRoutes1 == <<
    Post("create", <<>>, "user"),
    Get("findAll", <<>>, "user"),
    Get("getWallet", <<"wallet">>, "user"),
    Post("topUpWallet", <<"wallet", "topup">>, "user"),
    Get("getTransactions", <<"transactions">>, "user"),
    Get("findOne", <<":id">>, "user"),
    Post("verifyPayment", <<":id", "verify">>, "user"),
    Post("moyasarWebhook", <<"webhooks", "moyasar">>, "-"),
    Post("stcPayCallback", <<"callbacks", "stcpay">>, "-")>>

PaymentsRoutes2 == <<
    Get("paymentCallback", <<"callback">>, "-"),
    Post("requestRefund", <<"refunds">>, "user"),
    Get("getRefunds", <<"refunds">>, "user"),
    Get("getRefund", <<"refunds", ":id">>, "user"),
    Get("getAllPayments", <<"admin", "all">>, "ADMIN"),
    Post("approveRefund", <<"refunds", ":id", "approve">>, "ADMIN"),
    Post("rejectRefund", <<"refunds", ":id", "reject">>, "ADMIN"),
    Get("getStatistics", <<"admin", "statistics">>, "ADMIN")>>

PromoCodesRoutes1 == <<
    Post("create", <<>>, "ADMIN"),
    Get("findAll", <<>>, "ADMIN"),
    Get("getPublicPromoCodes", <<"public">>, "-"),
    Post("validate", <<"validate">>, "user"),
    Post("apply", <<"apply">>, "user"),
    Get("getMyUsages", <<"me", "usages">>, "user")>>

PromoCodesRoutes2 == <<
    Get("findOne", <<":id">>, "ADMIN"),
    Patch("update", <<":id">>, "ADMIN"),
    Patch("deactivate", <<":id", "deactivate">>, "ADMIN"),
    Delete("remove", <<":id">>, "ADMIN"),
    Get("getStatistics", <<":id", "statistics">>, "ADMIN")>>

ProvidersRoutes1 == <<
    Post("register", <<"register">>, "-"),
    Get("findAll", <<>>, "-"),
    Get("findNearby", <<"nearby">>, "-"),
    Get("getTopRated", <<"top-rated">>, "-"),
    Get("search", <<"search">>, "-"),
    Get("getMyProfile", <<"me">>, "PROVIDER"),
    Patch("updateProfile", <<"me">>, "PROVIDER"),
    Patch("updateAvailability", <<"me", "availability">>, "PROVIDER"),
    Post("updateLocation", <<"me", "location">>, "PROVIDER"),
    Get("getMyStatistics", <<"me", "statistics">>, "PROVIDER"),
    Get("getEarnings", <<"me", "earnings">>, "PROVIDER")>>

ProvidersRoutes2 == <<
    Post("uploadDocument", <<"me", "documents">>, "PROVIDER"),
    Get("getDocuments", <<"me", "documents">>, "PROVIDER"),
    Delete("deleteDocument", <<"me", "documents", ":id">>, "PROVIDER"),
    Get("findOne", <<":id">>, "-"),
    Get("getReviews", <<":id", "reviews">>, "-"),
    Get("getServices", <<":id", "services">>, "-"),
    Patch("approve", <<":id", "approve">>, "ADMIN"),
    Patch("reject", <<":id", "reject">>, "ADMIN"),
    Patch("suspend", <<":id", "suspend">>, "ADMIN")>>

\* Fault: GET :id stands before GET me.
ReviewsRoutesIdFirst == <<
    Post("create", <<>>, "user"),
    Get("findAll", <<>>, "-"),
    Get("findOne", <<":id">>, "-"),
    Get("getMyReviews", <<"me">>, "user"),
    Get("getProviderReviews", <<"provider", ":id">>, "-"),
    Patch("update", <<":id">>, "user")>>

ReviewsRoutes1 == <<
    Post("create", <<>>, "user"),
    Get("findAll", <<>>, "-"),
    Get("getMyReviews", <<"me">>, "user"),
    Get("getProviderReviews", <<"provider", ":id">>, "-"),
    Get("findOne", <<":id">>, "-"),
    Patch("update", <<":id">>, "user")>>

ReviewsRoutes2 == <<
    Post("respond", <<":id", "respond">>, "PROVIDER"),
    Post("markHelpful", <<":id", "helpful">>, "user"),
    Delete("remove", <<":id">>, "user"),
    Patch("approve", <<":id", "approve">>, "ADMIN"),
    Patch("reject", <<":id", "reject">>, "ADMIN")>>

ServicesRoutes1 == <<
    Post("create", <<>>, "APPROVED"),
    Get("findAll", <<>>, "-"),
    Get("getCategories", <<"categories">>, "-"),
    Get("getServicesByCategory", <<"categories", ":id", "services">>, "-"),
    Get("getPopular", <<"popular">>, "-"),
    Get("getFeatured", <<"featured">>, "-"),
    Get("search", <<"search">>, "-"),
    Get("getMyServices", <<"me">>, "PROVIDER")>>

ServicesRoutes2 == <<
    Get("findOne", <<":id">>, "-"),
    Patch("update", <<":id">>, "PROVIDER"),
    Patch("toggleActive", <<":id", "toggle-active">>, "PROVIDER"),
    Delete("remove", <<":id">>, "PROVIDER"),
    Get("getReviews", <<":id", "reviews">>, "-"),
    Get("getStatistics", <<":id", "statistics">>, "-")>>

UsersRoutes == <<
    Post("create", <<>>, "ADMIN"),
    Get("findAll", <<>>, "ADMIN"),
    Get("search", <<"search">>, "ADMIN"),
    Get("getProfile", <<"profile">>, "-"),
    Patch("updateProfile", <<"profile">>, "-"),
    Get("getStatistics", <<"statistics">>, "ADMIN"),
    Get("findOne", <<":id">>, "ADMIN"),
    Patch("update", <<":id">>, "ADMIN"),
    Patch("suspend", <<":id", "suspend">>, "ADMIN"),
    Patch("activate", <<":id", "activate">>, "ADMIN"),
    Delete("remove", <<":id">>, "ADMIN")>>

Table ==
  [admin |-> AdminRoutes1 \o AdminRoutes2,
   analytics |-> AnalyticsRoutes,
   auth |-> AuthRoutes,
   bookings |-> BookingsRoutes1 \o BookingsRoutes2,
   chat |-> ChatRoutes,
   disputes |-> DisputesRoutes1 \o DisputesRoutes2,
   health |-> HealthRoutes,
   locations |-> LocationsRoutes1 \o LocationsRoutes2,
   notifications |-> NotificationsRoutes,
   payments |-> PaymentsRoutes1 \o PaymentsRoutes2,
   promoCodes |-> PromoCodesRoutes1 \o PromoCodesRoutes2,
   providers |-> ProvidersRoutes1 \o ProvidersRoutes2,
   reviews |-> ReviewsRoutes1 \o ReviewsRoutes2,
   services |-> ServicesRoutes1 \o ServicesRoutes2,
   users |-> UsersRoutes]

\* The guards of the classes.
ClassWho ==
  [c \in DOMAIN Table |->
     CASE c = "admin" -> "ADMIN"
       [] c \in {"analytics", "bookings", "chat", "disputes", "notifications",
                 "users"} -> "user"
       [] OTHER -> "public"]

Controllers == DOMAIN Table

Roles == {"CUSTOMER", "PROVIDER", "ADMIN", "SUPPORT"}

\* A user whose token validate accepts, of a role; or nobody.
RouteCallers == Roles \cup {"anonymous"}

\* getAllAndOverride: the decorators of the handler, then those of the class.
Who(c, k) == IF Table[c][k].who = "-" THEN ClassWho[c] ELSE Table[c][k].who

RoutesTypeOK ==
  /\ request.step \in
       {"none", "sent", "matched", "known", "permitted", "checked", "done"}
  /\ request.answer \in {"-", "handled", "badRequest", "unauthorized", "forbidden"}
  /\ request.caller \in RouteCallers
  /\ request.step # "none" =>
       /\ request.controller \in Controllers
       /\ request.aim \in DOMAIN Table[request.controller]
       /\ request.matched \in 0..Len(Table[request.controller])

RoutesInit ==
  request = [step |-> "none", controller |-> "health", aim |-> 1, matched |-> 0,
             caller |-> "anonymous", answer |-> "-"]

-----------------------------------------------------------------------------
\* The path a client fills in: a parameter gets a value of its kind.
Filled(path) ==
  [i \in DOMAIN path |->
     CASE path[i] = ":id" -> "<uuid>"
       [] path[i] = ":key" -> "<key>"
       [] OTHER -> path[i]]

Matches(pattern, path) ==
  /\ Len(pattern) = Len(path)
  /\ \A i \in DOMAIN path : pattern[i] \in {":id", ":key", path[i]}

Aimed == Table[request.controller][request.aim]
Matched == Table[request.controller][request.matched]
Wanted == Who(request.controller, request.matched)

Goes(step) == request' = [request EXCEPT !.step = step]
Ends(answer) == request' = [request EXCEPT !.step = "done", !.answer = answer]

Send(c, k, caller) ==
  /\ request.step \in {"none", "done"}
  /\ request' = [step |-> "sent", controller |-> c, aim |-> k, matched |-> 0,
                 caller |-> caller, answer |-> "-"]

\* The first entry of the table that matches.
Dispatch ==
  /\ request.step = "sent"
  /\ LET table == Table[request.controller]
         matching == {k \in DOMAIN table :
                        /\ table[k].verb = Aimed.verb
                        /\ Matches(table[k].path, Filled(Aimed.path))}
     IN request' = [request EXCEPT
          !.step = "matched",
          !.matched = CHOOSE k \in matching : \A j \in matching : k <= j]

JwtAuth ==
  /\ request.step = "matched"
  /\ IF Wanted # "public" /\ request.caller = "anonymous"
       THEN Ends("unauthorized") ELSE Goes("known")

CheckRoles ==
  /\ request.step = "known"
  /\ LET role == IF Wanted = "APPROVED" THEN "PROVIDER" ELSE Wanted
     IN IF role \in Roles /\ request.caller # role
          THEN Ends("forbidden") ELSE Goes("permitted")

\* ProviderStatusGuard: user.sub is never set, so the look-up finds any
\* provider or none, and no code or seed makes a provider's status APPROVED.
CheckProviderStatus ==
  /\ request.step = "permitted"
  /\ IF Wanted = "APPROVED" THEN Ends("forbidden") ELSE Goes("checked")

\* ParseUUIDPipe on the parameters, then the handler.
Handle ==
  /\ request.step = "checked"
  /\ LET path == Filled(Aimed.path)
     IN IF \E i \in DOMAIN path : Matched.path[i] = ":id" /\ path[i] # "<uuid>"
          THEN Ends("badRequest") ELSE Ends("handled")

RoutesNext ==
  \/ \E c \in Controllers : \E k \in DOMAIN Table[c] :
       \E caller \in RouteCallers : Send(c, k, caller)
  \/ Dispatch
  \/ JwtAuth
  \/ CheckRoles
  \/ CheckProviderStatus
  \/ Handle

-----------------------------------------------------------------------------
(***************************************************************************)
(* Properties.                                                             *)
(***************************************************************************)
\* The routes a request cannot reach: an entry with a parameter stands before
\* them, or a guard lets nobody through.
Unreachable ==
  {<<"notifications", "clearAll">>, <<"payments", "paymentCallback">>,
   <<"payments", "getRefunds">>, <<"services", "create">>}

DeclaredFor(c, k) ==
  CASE Who(c, k) = "public" -> RouteCallers
    [] Who(c, k) = "user" -> Roles
    [] Who(c, k) = "APPROVED" -> {"PROVIDER"}
    [] OTHER -> {Who(c, k)}

\* Every handler but the four unreachable ones gets the requests meant for
\* it, of all callers its decorators name and of no other; and no handler
\* gets a request that was meant for another.
ShadowedOnly ==
  request.step = "done" =>
    /\ request.answer = "handled" =>
         request.matched = request.aim
    /\ request.answer = "handled" <=>
         /\ request.caller \in DeclaredFor(request.controller, request.aim)
         /\ <<request.controller, Aimed.handler>> \notin Unreachable
=============================================================================
