# Verification of the home-service backend

TLA+ models of the NestJS backend in `src/`, the TLC runs that check them on
small instances, and TLAPS proofs of the properties that hold for every
instance. `PROJECT.json` maps every definition to the lines it models.

Run everything from this directory:

    tlc -config BookingsConcurrent.cfg MCBookings     # one run
    tlc -config Platform.cfg MCPlatform
    tlapm BookingsProofs.tla                          # one proof module

## 1. The system

One Node.js process serves HTTP under `/api` and a socket.io namespace `/chat`,
over PostgreSQL through TypeORM. There is no transaction, no lock and no version
column anywhere in `src/src`: every handler is `findOne`, some checks,
assignments to the loaded entity, `repository.save(entity)`. The event loop
interleaves handlers at every `await`, and each statement may fail with the
statements before it already committed.

`save` of an entity that exists is two statements: a SELECT of the row as it is
by then, and an UPDATE of the columns in which the entity differs from it. So a
column somebody else has changed since the entity was loaded differs, and is
written back to what it was. This is what `Rows` models (`Assign`, `Changed`,
`Updated`), and what most of the project is about.

### Inventory

| Component | State | Operations that change it | What is hard | What makes it correct |
|---|---|---|---|---|
| Bookings (`modules/bookings`) | `bookings`, `booking_timeline`, counters of `providers` | create, update, cancel, accept, reject, start, complete, markEnRoute, markArrived | check and save apart; four tables' writes without a transaction; decimal columns are strings | status order, a truthful timeline, refund and status agree, completions neither invented nor lost |
| Provider accounts (`modules/providers`, parts of `admin`, `bookings`) | `providers`, `provider_locations`, `users.role` | register, updateProfile/Availability/Location, approve, reject, suspend, admin approve/reject, credit; `users.update` of the role | ten writers of one row, each saving all of it; a unique column that `updateProfile` may change; roles given by other routes | only approval activates, suspensions are real, one provider per iqama number however numbers change, `register` gives the role with a row only |
| Accounts (`modules/auth`, `modules/users`) | `users`, `wallets`, `otps` | register, create, resend, forgot, verify, reset, login, password, tokens, profile, suspend, activate, ban, unban, update, remove | codes found and burned in separate statements; crash between user, wallet and code; soft deletion; numbers that change hands | verification needs a code, an account's number is its own, a code works once, cooldown, deleted stays deleted, a broken registration can be finished |
| Chat gateway (`chat.gateway.ts`) | two maps, rooms, broadcasts | connect, disconnect | several sockets of a user, one of which is turned away by a look-up that throws | maps, broadcasts and open sockets agree |
| Response cache (`cache.interceptor.ts`) | in-memory entries | every GET | the answer is stored after it was computed; one key for several users | no answer is older than its time to live and a handler |
| Rate limit (`rate-limit.guard.ts`) | in-memory counters | guarded requests | check and set; a window that moves; restarts | at most `limit` requests in a window, nobody locked out |
| Chat service | `chat_conversations`, `chat_messages` | sendMessage, markAsRead, sendTypingIndicator | no conversation exists: handlers end at the look-up | they say so |
| Payments, refunds, wallets | `payments`, `refunds`, `wallets` | create, topUp, getWallet, webhooks, request/approve/reject refund | check-then-create; a notice with an id looks for a column nothing writes, one without drops the condition and gets the first payment | one wallet; what notices settle, and that it is never the payment they name |
| Reviews | `reviews`, rating of `providers` | create, update, remove, respond, markHelpful, approve, reject | six savers of one row | what one was answered for stays, unless raced |
| Disputes | `disputes`, evidence, messages | create, update, evidence, message, escalate, withdraw, resolve, assign | no dispute exists | they say so |
| Promo codes | `promo_codes` | create, update, remove, deactivate, validate, apply | date comparison, a limit nothing assigns | a code that is valid is accepted |
| Services catalogue | `services` | create, findOne (view count), update, remove, toggleActive | a read that writes | a view undoes nothing, unless raced |
| Notifications | `notifications` | markAsRead, markAllAsRead, remove, clearAll | save over a bulk UPDATE and over a soft deletion | read stays read |
| Locations | `addresses`, `provider_locations` | create/update/delete/setDefault address, location | no address exists | they say so |
| Admin | `provider_documents`, `system_settings` | verify/reject document, setting | check-then-insert | one row per setting |
| Guards, pipes and route tables (`*.controller.ts`, `common/guards`) | none | every request | the order of the routes, guards of class and handler | a handler gets what is meant for it, from those it is for |
| Seeds (`database/seeds`) | all the seeded tables | `seed.ts`: thirteen seeds in a row | killed anywhere, run again | references before what refers to them, no profile twice |
| Filters, config, analytics, health | none | | | |
| Queue, Firebase, Twilio, file upload, geo, Moyasar, STC Pay | remote systems | one call, `DisputesController.uploadFile` | | no state depends on it |

How they interact: only through rows. `complete` writes the provider row that
`ProvidersService` and `AdminService` also write; `ProvidersService.register`
writes the user row that `AuthService`, `UsersService` and `AdminService` write;
`JwtStrategy.validate` reads that row in front of every signed-in request. The
gateway shares nothing with the chat service but the messages' arguments. Bull,
the scheduler and the wrappers of remote services are wired up and not called, but for the
file upload: `DisputesController.uploadFile` hands a file to it and returns its answer.

About 27 files in `src/src` are empty (for instance
`bookings/booking-matching.service.ts`, `payments/refunds.service.ts`,
`database/repositories/*.ts`), and the repository holds no tests.

### Rows that can exist

The schema is synchronized from the entities, so a column without `nullable` or
`default` must be in the INSERT. Several handlers leave such columns out, and
their INSERT is refused whatever the request says: `BookingsService.create`
(`estimated_duration_minutes`, `service_address`, `customer_name`,
`customer_phone`), `PaymentsService.create`, `topUpWallet`, `requestRefund`,
`DisputesService.create`, `PromoCodesService.create`, `ReviewsService.create`
(`rating`), `LocationsService.createAddress`. No code creates a conversation.
`Inserts` holds what each INSERT gives against what its table requires, and
`InsertsRefused` says which tables requests can fill at all: documents,
positions, wallets and settings.
The models start from rows that can exist: those of `src/src/database/seeds`
(`SeedData`) and those `register` and `create` of users and providers insert.

### Bookings

`create` is no action of `Bookings`, for the reason above, but of `Inserts`. The
seeded bookings all have totals from which the provider's share is no whole number, so completing
one is refused by the server at the very end (run `BookingsSeededCredit`). The
other runs give the bookings a total of 200.00, that is a row inserted by other
means than the seeds, so that `complete` can reach its last statement.

## 2. Modules

| Module | What it is | State and code |
|---|---|---|
| `Rows` | `Object.assign`, `save`, decimal columns | operators only |
| `SeedData` | the seeded bookings and providers | constants only |
| `Bookings` | the booking handlers, split at their awaits | `booking`, `provider`, `timeline`: tables; `slack`: whole two-hour periods before `scheduledAt`; per call `pc` (which await it waits at), `op`, `target`, `entity` (the booking it loaded), `account` (the provider it loaded), `changed` (columns of the pending UPDATE) |
| `BookingLifecycle` | abstract: a booking moves along the transitions the status checks promise | `status` |
| `ProviderAccounts` | the writers of the provider row, and registration | `account`: table `providers`, the iqama number included; `role`, `track`: `users.role`, `provider_locations`; the same per call |
| `Accounts` | users, wallets and OTPs | `user`: the row of each id, its number a column; `wallet`, `otp`: tables; per slot the request it serves |
| `AccountStanding` | abstract: each operation changes what it is named for, no two accounts have one number | `number`, `status`, `verified`, `password`, `removed` |
| `ChatPresence` | the gateway's presence | `connectedUsers`, `socketToUser` as in the code; `personal`: rooms; `userId`: the property of a socket; `told`: the last broadcast; `link`: socket.io |
| `Inserts` | the INSERTs of the handlers against the required and unique columns | `rowsAdded` per table; `missing`: the table in which a handler at work found its row missing; `outcome`: the last answer |
| `Marketplace` | the handlers that change one row of the catalogue, reviews, notifications, promo codes, payments, documents, settings | `table` and `row`: the row the behaviour is about; `saving`: per request the entity or the pending UPDATE; `answer`; `day`: what promo codes are compared with |
| `Routes` | the fifteen route tables and the guards in front of them | `request`: the step it is at, the route it aims at, the one it matched, who sent it |
| `ResponseCache` | the interceptor in front of every GET | `store`, `reader`: the GETs in flight; `cacheClock`, `version` |
| `RateLimit` | the guard of `POST /auth/resend-otp` | `counter`, `limitClock` |
| `Seeding` | the seeds' script | `copies`: rows stored of each literal; `profileOf`: the provider literal in each user's row; `seedRun`, `seedStarts`, `seedEnds` |
| `Platform` | the six above side by side; they share no state, so a behaviour is one of one of them | `part`, and the variables of the six |
| `*Proofs` | theorems and their proofs (`PlatformProofs`: cache, rate limit, routes, and the types of the platform) | |
| `MC*` | instances for TLC: seeded rows, symmetry | |

History variables, which no code reads: `held` (statuses a booking has had),
`granted` (approved providers), `appointed` (users given the role PROVIDER by another way
than `register`), `suspensions` (suspend calls stored), `had` (the numbers a user has had),
`proven` (numbers whose code was accepted, or seeded verified), `spent` (effects a code has
had), `promised` (columns a request was answered for while no other had loaded the row),
`version`, `writtenAt` and `served` (what a url shows, when that was replaced,
what a client was given), `admitted` and `verdict` (when the guard let requests
through, its last decision), `late` of `seedRun` (the run began with a booking
stored). The definitions whose comment begins with "Fault:" are variants of the
code's with a bug put in, of which a property must tell; no model uses them.

A step is what the process does between two awaits. In `Bookings`,
`CanStart`/`Load` is the request up to the call of `save` (`findOne`, the status
check and the assignments run without an await in between), `SaveSelect` and
`SaveUpdate` are the two statements of `save`, `RecordTimeline` is
`createTimelineEntry`, `CreditSelect` and `CreditUpdate` are the save of the
provider. `complete` reads the provider first (`Complete`), then the booking
(`CompleteLoad`), and writes the provider row it read at the start. `Fail` ends a
call at any await: a statement that rejects, or the process that stops; what is
written stays. When the process stops, every call under way fails, which is a
sequence of `Fail`s. `ProviderAccounts` and `Accounts` are cut the same way.
In `ChatPresence` `handleConnection` is one step, and so is `handleDisconnect`: the only
await is `verifyAsync` with a secret that is at hand, whose promise settles within the
turn that called it, so no other event is handled before the handler goes on.

`Marketplace` is cut like `Bookings`: `Load` is `findOne` and the assignments,
`Select` and `Update` the statements of `save`; `softRemove` writes `deletedAt`
and nothing else (`LoadToRemove`). In `Inserts` a look-up (`LookUp`) and the
INSERT after it (`InsertMissed`) are two steps; a handler that reads nothing it
writes is one. A step of `Seeding` is one iteration of a seed's loop: nothing
else writes these tables between the look-up and the INSERT. `KillSeeds` may
come between any two, `Exit` is an INSERT the server refuses, `StartSeeds` runs
the script on what is stored. A step of `Routes` is one stage of Nest's pipeline:
`Dispatch` (the first entry that matches), `JwtAuth`, `CheckRoles`,
`CheckProviderStatus`, `Handle` (with `ParseUUIDPipe`). In `ResponseCache` a
look-up or a store is one step, as the store answers from memory (`redisStore` is
handed over in the form of an older cache-manager, which the installed one
ignores), and the handler's query comes in between; `RateLimit`'s read and set
are one step for the same reason. A restart empties both.

Abstractions. Timestamps are set or not set. Texts no check reads (reasons,
notes, names, coordinates) are left out; a request that changes only such columns
is still an action, because it saves the row. An OTP is its row: a client that
sends a code names the row, and wrong codes are requests refused before they
write. The age of a code is what the checks ask: younger than the
cooldown (`recent`), older, or expired, when its row counts as none. The two-hour and
four-hour boundaries of the refund are `slack`. In `Accounts` the columns role, e-mail, last login and login count are
left out; `users.update` may change number and password (stored as it is, so that no
password matches it), and `findOne` by number or e-mail may return the user itself (the
own e-mail in the body) although somebody else has the number (`UpdateCheck`); then, and for
the number of a soft-deleted user, only the unique column refuses (`SaveRefused`).
`ProviderAccounts` lets `users.update` set any role at any time (`UpdateUser`) and starts from
any roles, as `auth.register`, `users.create` and the seeds store them. `updateLocation`'s
history row (`RecordLocation`) may fail as every statement may. In `Marketplace`
a notice is `named` or `unnamed`, by whether its data has an id; `findOne` with an
undefined id has no condition and may return any one payment, so it may be this one.
There a text is the seeds' or another one, promo codes keep the columns `validate`
tests, and the order's amount is a choice; `Routes` has no bodies and one value
of each kind of parameter.

## 3. Runs

Passing runs:

| Run | Instance | Question | Result |
|---|---|---|---|
| `BookingsConcurrent` | one booking in each seeded state, four calls of any operation, two in flight | what survives every interleaving | `TypeOK`, `TimelineIsTruthful`, `CountersAgree`, `NeverOvercounted`, `LifecycleOrder`; 1.9 million states |
| `BookingsSerial` | five calls, one at a time | do the handlers implement `BookingLifecycle`, refund what they say, lose no completion | `ImplementsLifecycle`, `RefundMatchesStatus`, `CompletionsCounted` |
| `ProviderAccounts` | two users, two iqama numbers, each user seeded pending or absent, with any role; three calls of any operation, two in flight | what ten writers of one row, changes of the number and roles from elsewhere cannot break | `TypeOK`, `ActiveOnlyIfGranted`, `SuspensionsNotOvercounted`, `OneProviderPerIqama`, `RoleFollowsRow` |
| `AccountsConcurrent` | two users seeded verified or absent, two numbers, one code, two slots, six operations | stale saves and changes of number against codes | `TypeOK`, `VerifiedByOtp`, `UsedBeforeEffect`; 2.4 million states |
| `AccountsRecovery` | one user, two numbers, two codes, one slot, nine operations, one failure, fairness | what one request at a time promises, and can a broken registration be finished | `OtpSingleUse`, `CooldownKept`, `ImplementsStanding`, `DeletedStaysDeleted`, `RegistrationRecovers` |
| `ChatPresence` | two users, five sockets (three of one user, one without a token) | do maps, broadcasts and sockets agree | `TypeOK`, `MapsAgree`, `ToldWhatIsKept`, `OpenIsKnown` |
| `Platform` | below, part by part | what the parts without shared state keep | `PlatformTypeOK` and the fourteen below; 0.6 million states |

The parts of `Platform`:

| Part | Instance | Question | Result |
|---|---|---|---|
| `Seeding` | three runs, killed anywhere; two literals in most seeds, three providers | can a killed run be repaired by another | `SeedDependencies`, `ProfilesMatched`; no, once a booking is stored: `NeverFinished`, `WhereRunsFail`; every run ends: `SeedsEnd` |
| `Inserts` | two requests, two rows of a table | which tables do requests fill | `InsertsRefused` |
| `Marketplace` | two requests about one row of each of seven tables | what does a stale save not undo | `KeptUnlessRaced`, `ReadNeverUnread`; two things never happen: a code is accepted (`PromoNeverUsable`), a notice settles the payment it names (`SettledUnnamed`) |
| `Routes` | every entry of every table, every role and nobody | who reaches which handler | `ShadowedOnly`: everyone it is declared for, but four handlers nobody reaches |
| `ResponseCache` | two urls that share one key, two slow GETs, one write each, restarts | how old can an answer be | `StalenessBounded` |
| `RateLimit` | two clients, three requests in two ticks, restarts | does the moving window keep the limit | `WindowLimit`, `RefusedWithinTtl` |

Violation runs, each a disagreement between the code and a comment or message in it:

| Run | Property | What the counterexample shows |
|---|---|---|
| `BookingsCancelRace` | `CompletedNotCancelled` | cancel loads the booking in progress, complete stores COMPLETED, cancel stores CANCELLED over it |
| `BookingsSeededCredit` | `CreditIsStorable` | complete of a seeded booking: COMPLETED and the timeline row are committed, then the provider's UPDATE carries `2300.00` followed by the digits and the point of the earning, and is refused |
| `ProviderLocationRace` | `LocationOnly` | updateLocation loads, suspend stores, updateLocation's diff undoes the suspension |
| `AccountsOtpRace` | `OtpSingleUse` | two resets find the same unused code |
| `ChatPresenceRace` | `OnlineIsConnected` | a second socket of a user is turned away by the look-up that throws, and its `handleDisconnect` takes the first one's entry with it: the user is offline with an open socket |

Deadlock checking is off where the calls of the instance run out (`Bookings`,
`ProviderAccounts`), sockets are used up (`ChatPresence`), or clocks, counters and
runs reach their bound (`Platform`); `Accounts`' slots are reused, and it is on.

What the serial runs do not cover. `BookingsSerial` and `AccountsRecovery` serve one request
at a time: what they check holds without races, and says nothing of those. The races
themselves are in the concurrent runs (what survives them) and in the violation runs (what does
not); section 4 says which lock each of the serial properties needs. Likewise
`KeptUnlessRaced` excludes by its form that a request overlaps one that had loaded the row,
and `TimelineIsTruthful` is about the rows of the timeline that are there: a row that a
failure left out is no violation of it.

Bounds and why they are enough. The races are between two calls about one row
(load, load, save, save), so two in flight reach them; calls beyond the two bring
the row into the state in which the race matters (four for `Bookings`: a booking
needs three moves from CONFIRMED to COMPLETED, and one that races). Two bookings
of one provider race on the provider row exactly as two calls on one booking do,
once markEnRoute, markArrived and start have revived it, and the proofs below have
no bound. In `ProviderAccounts` two users and two numbers are
needed for an iqama number to be taken, freed and taken again, and three calls for a stale save
that writes an old number back. In `AccountsConcurrent` two users and two numbers let a number
be given up by one user and taken by another; `Users` also bounds the rows there are, so
`RegisterCheck` asks that an id is left (or the number taken, when the request is
refused anyway). `Resendable` are the purposes clients name in
`resendOtp`: REGISTRATION in the runs, as `register` sends codes of it too; the proofs allow any.
The serial run has no resets of passwords: that a code works once is checked of
`verify` there, and proved of both. In
`AccountsRecovery` two codes are needed for the cooldown, and one failure is what
breaks a registration; a second failure would only delay the recovery that the
fairness below starts again. `OtpIds` bounds the codes younger than ten minutes,
not the codes ever sent: `Expire` frees the row of an expired one. Calls,
slots, users, numbers and codes are interchangeable, hence the symmetry; it is not used
in `AccountsRecovery` and `Platform`, which check liveness.

In `Platform`: `MaxRuns` = 3 is one run killed, one on what it left, and one after
a run that failed or finished. `FewRows` gives a seed two literals, so that a run
is killed between them, and three providers, so that two runs can meet the users
in different orders and a third finds a profile taken. `MaxInserts` = 2: a second
wallet or setting would show. `RowSlots`: two requests are a race; `Texts` has one
text besides the seeds', `MaxCount` = 1 lets one view or vote be counted or lost,
`MaxDay` = 1 lets a promo code's first day pass. Cache: a time to live of two ticks,
handlers of up to one (`MaxHandling`), so an answer is stored after the write it does not
show; `MaxTime` = 5 lets it expire, be computed again, and be hit once more. Rate:
`Limit` = 3 as in the code, a time to live of two ticks (its two minutes) and five
ticks of clock, so a window passes, moves and starts again. `Routes` has no
parameter: what is checked of it is checked of the whole of it.

Fairness is assumed in two runs. In `AccountsRecovery` (`FairSpec`): weak fairness of
`Continue`: the event loop runs every handler to its end. Weak fairness of `Age`
and `Expire`: time passes. Strong fairness of `ResendCheck` and `VerifyFind`: the
client keeps asking for a code and sending the one it has; strong, because the one
slot may be serving someone else each time. `Fail` is never forced, and bounded.
In `Platform`: weak fairness of `SeedsProceed`, as the script's loop goes on unless
the process is stopped; `KillSeeds` and `StartSeeds` are not forced.

## 4. Proofs

For every instance:

| Theorem | Property |
|---|---|
| `BookingsProofs!TypeCorrect`, `TimelineTruthful`, `OrderOfLife` | `TypeOK`, `TimelineIsTruthful`, `LifecycleOrder` |
| `BookingsCreditProofs!CountersTogether`, `NoInventedCompletions` | `CountersAgree`, `NeverOvercounted` |
| `ProviderAccountsProofs!TypeCorrect`, `ActiveGranted`, `SuspensionsReal`, `IqamaUnique`, `RoleHasRow` | the five invariants of the run |
| `AccountsProofs!TypeCorrect`, `VerificationEarned`, `MarkedFirst` | `TypeOK`, `VerifiedByOtp`, `UsedBeforeEffect` |
| `ChatPresenceProofs!TypeCorrect`, `MapsConsistent`, `AnnouncementsHold`, `OpenSocketsKnown` | the four invariants of the run |
| `SeedingProofs!ReferencesFirst`, `ProfilesApart`, `FailuresPlaced`, `LateRunsEndEarly` | `SeedDependencies`, `ProfilesMatched`, `WhereRunsFail`, `NeverFinished` |
| `MarketplaceProofs!OnlyTheseAreFilled` | `InsertsRefused` |
| `MarketplaceProofs!AnswersHold`, `ReadForGood`, `NoCodeAccepted`, `NoticesMissTheirs` | `KeptUnlessRaced`, `ReadNeverUnread`, `PromoNeverUsable`, `SettledUnnamed` |
| `PlatformProofs!AnswersInTime`, `WindowKept`, `RefusalsEnd` | `StalenessBounded`, `WindowLimit`, `RefusedWithinTtl` |
| `PlatformProofs!RoutesShadowed` | `ShadowedOnly` |
| `PlatformProofs!PlatformTyped` | `PlatformTypeOK` |

For every instance, in the behaviours in which a lock the code does not take is kept
(below); with one request at a time the locks of rows and codes are kept, which is the
corollary:

| Lock | Theorem | Property | Corollary |
|---|---|---|---|
| `RowsLocked` of `Bookings`: no two calls hold the entity of one booking | `BookingsProofs!LifecycleUnderLock` | `ImplementsLifecycle` | `LifecycleImplemented` |
| | `CompletionFinalUnderLock` | `CompletedNotCancelled` | `CompletionFinal` |
| | `RefundsAwaitedUnderLock` | `RefundMatchesStatus` | `RefundsAwaited` |
| `ProvidersLocked`: no two `complete`s of one provider are under way | `BookingsCreditProofs!NoLostCompletionsUnderLock` | `CompletionsCounted` | `NoLostCompletions` |
| `RowsLocked` of `ProviderAccounts`: no two calls hold the entity of one provider | `ProviderAccountsProofs!OwnColumnsUnderLock`, `SuspensionsCountedUnderLock` | a save writes its handler's columns only; every suspension is counted | |
| | `LocationOnlyUnderLock` | `LocationOnly` | `LocationOnlyAlone` |
| `UsersLocked`: no two requests hold the entity of one user | `AccountsProofs!StandingUnderLock` | `ImplementsStanding` | `StandingImplemented` |
| | `DeletedForGoodUnderLock` | `DeletedStaysDeleted` | `DeletedForGood` |
| `MarkedAlone`: no two requests have found the same code and not yet marked it | `CodesSpentOnceUnderLock` | `OtpSingleUse` | `CodesSpentOnce` |
| `SendersAlone`: a `resendOtp` that has found no young code is the only request about to send one of that purpose to that number | `CooldownUnderLock` | `CooldownKept` | `CooldownHolds` |
| `NoSecondSocket`: no client connects with the token of a user who has a socket open | `ChatPresenceProofs!OnlineWhenSingle` | `OnlineIsConnected` | |

Assumptions of both tables: the ASSUMEs of the modules and nothing else (finitely many
calls or OTP rows, seeds that are rows, rates of at most 100 percent, NULL no value of a
column). In particular any number of bookings, providers, users, sockets and
calls, and any number in flight; and of urls, readers, clients and runs,
and any number of literals up to those of the files.
The bounds on clocks and counters are constants too, so they may be as large as
one likes. The theorems of `Platform`'s parts are about `Spec` of `Platform`.

What the second table says. The code keeps none of these properties by itself: with two
requests in flight each is violated on a small instance, and four of them are the ones
the violation runs refute. The theorems are of the form
`Spec /\ []RowsLocked => ...`: of the behaviours of the code as it is, those in which
two requests never hold the same row at once have the property, whatever else is
interleaved, on whichever other rows, and wherever calls fail. So what each needs is
known, and it is little: `findOne` as SELECT ... FOR UPDATE in the transaction of the
`save` (`RowsLocked`, `UsersLocked`), the provider's row locked from `complete`'s first
read on (`ProvidersLocked`), one UPDATE ... WHERE NOT "isUsed" in place of `findOne` and `save` of a code
(`MarkedAlone`), requests for codes of one phone one after the other (`SendersAlone`).
No serialization of unrelated requests is needed. The corollaries assume
`MaxInFlight = 1` in `Bookings` and `ProviderAccounts`, and at most one slot (`OneSlot`)
in `Accounts`: a request that is alone holds its rows alone. The serial runs
check them (`BookingsSerial`, `AccountsRecovery`).
`RefundsAwaited` also assumes what a refund of a booking presupposes, that its
total is positive and its seeded columns agree (`RefundAssumption`).

Why the invariants need strengthening:

- *Bookings.* What a stale save writes is what the entity held, so the argument
  must follow entities. `HistoryInv` says that an entity under way has a status
  its booking has had in the table, or is the one the handler is about to store
  and was admitted from a status the booking has had. Every UPDATE then stores a
  status whose predecessor is in `held`, however old the entity is.
- *Credits.* `AgreeInv`: the two counters are equally far from their seeded values, in
  every row and in every provider entity held, so the columns a pending UPDATE writes
  contain both counters or neither; that is where two calls meet, between the SELECT and
  the UPDATE of one of them. `TimelineInv` and `CountInv`: an entity was loaded before its
  call wrote its own row of the timeline, so it counts at most the rows of the others,
  and one more only once that row is there.
- *Provider accounts.* `CallOK`, `EntityOK`: an entity that is ACTIVE belongs to a
  granted provider or to an approval under way, and its suspension count is at
  most the suspensions stored, plus the one it adds. Rows never vanish, so
  who has the role by `register` has the row; every other way records the user in `appointed`.
  An iqama number changes by the UPDATE of an entity that holds another one, fresh or stale, and
  that UPDATE passes the unique index or stores nothing.
- *Accounts.* A user whose row or entity is verified has had a number that is proven
  (`Earned`), whatever number the row has today; a request that verifies has loaded the user by a
  number the user then had. A slot that has burned a code holds one whose row is marked, which
  stays so because `Expire` spares codes in use. The number of a row is among
  those the user has had (`OwnNumber`), and no other row's (`NumbersUnique`).
- *Presence.* `Recorded`: property `userId` is that of the verified token, and
  the map of sockets says nothing else than that property. With it the unconditional
  delete of `handleDisconnect` keeps maps and broadcasts consistent with each other,
  though not with the open sockets, as `ChatPresenceRace` shows.
- *Under a lock.* `LockedInv` of `BookingsProofs`: what a call that holds the booking is
  about to store is a move of the lifecycle from the row as it is, and a column its
  UPDATE leaves out is the row's already, so the UPDATE is that move. Of
  `ProviderAccountsProofs`: the entity is the row but for the handler's own columns, and
  the row's suspension count is the number of suspensions stored. For completions: nobody
  else writes the provider's counters while a `complete` holds them, so the row counts
  every completion of the timeline but those about to be credited. In `AccountsProofs`
  `SaveSlot` is the same argument for the user; a code that is being redeemed is
  unspent and redeemed by one request (`RedeemedAlone`, `Unspent`), although the lock
  covers no more than the two statements that mark it; and a `resendOtp` that is about to
  send a code has seen no young one (`NoneRecent`), which stays so because nobody else is
  about to send one of that number and purpose.
- *Online.* `EntryIsOpen`: the entry of a user names the one socket that is open and
  verified, so the socket whose end deletes the entry is that one.
- *Seeds.* `SeedInv`: a run under way has stored or found every literal before the one
  it is at (`Progress`); a run that met a booking at its start has one of them
  still in front of it (`BookingAhead`); a run that met none finds no payment and no
  transaction but its own (`OwnRows`).
- *Rows of the marketplace.* `RowInv`: a request writes what is in the entity it
  loaded, so each part is about the row, the entities and the pending UPDATEs at once:
  they agree on every promised column but for those a request means to write
  (`PromisesKept`), none has a limit for a promo code (`CodesUnusable`), a payment is loaded
  for a notice without an id only (`PaymentsUnnamed`), and none holds a notification as unread that is to be
  saved (`ReadsStored`).
- *Cache.* `CacheInv`: an answer that is stale was replaced after its handler read it, so
  from then it is at most `MaxHandling` to its storing and a time to live to its
  expiry. Each reader, each entry and the answer served carries that bound.
- *Rate limit.* `LimitInv`: a counter is the length of the last series of successes
  with no gap longer than the time to live, no series is longer than the limit, and
  before a series there is a gap.
- *Routes.* The tables are proved about as they stand. `InOrder`: of any two entries of a
  table the earlier has another verb, another length, or a literal the path
  meant for the later does not have, but for three entries that stand behind a
  `:id`. So the first entry that matches a request is the one it is meant for, or the
  `:id` (`FirstMatch`). `RoutesInv`: a request that has reached a guard matched
  that entry, and has passed the guards before. The `:id` refuses what is no
  uuid, so it handles nothing that was meant for another.
- *Types of the platform.* The bounds are no invariant by themselves: a literal is stored
  at most once by each run because what is ahead of a run has no row of that run yet
  (`SeedBounds`), the row of a table keeps that table's columns because entities
  and pending UPDATEs do (`RowTyped`), and a counter expires within the clock and the time
  to live because the series it counts does (`LimitBounds`).

Only model-checked: `RegistrationRecovers` and `SeedsEnd`, which are liveness under
fairness and out of the prover's reach. Every other property of a passing run is a
theorem. `CreditIsStorable`, which `BookingsSeededCredit` refutes, has none: it holds
when every earning is a whole number, which is what it says.

## 5. Not modelled, and differences found by reading

Not modelled:

- Columns of `Accounts`: e-mail, last login and login count; the role is in
  `ProviderAccounts`. Tokens are not stored, and `refreshToken` changes nothing.
- What the handlers of disputes, conversations, addresses and refunds would do to a
  row: no code and no seed makes one, so every state in which they run is one the
  program is never in. `Inserts` models that they find none.
- `services.create` and `notifications.clearAll`, which no request reaches
  (`ShadowedOnly`), `sendNotification`, `updateProviderRating` and
  the wallet credit in `markPaymentCompleted`, which wants a payment of a top-up, and none is
  stored (`InsertsRefused`); which payment is the first (any one is); the discount of
  a promo code, as no code is accepted (`PromoNeverUsable`).
- The reads (lists, searches, statistics, reports) change nothing; `Routes` has their
  routes and guards.
- The queries of `Analytics`, the wrappers of remote services (one handler of disputes calls the
  file upload and returns what it answers), utilities,
  DTO rules and the validation of bodies, exception filters, Swagger, logging and the
  layout of answers.

Differences between what the code seems to be meant to do and what it does, found by
reading and, where a property is named, checked:

- Four handlers are unreachable (`ShadowedOnly`): `DELETE notifications/clear-all` and
  `GET payments/callback` and `GET payments/refunds` stand behind `:id`; and
  `ProviderStatusGuard` (`provider-status.guard.ts:43`), before `POST services`, wants
  status APPROVED, which no code stores, and looks the provider up by `user.sub`, which
  `validate` does not return.
- A promo code is never accepted (`PromoNeverUsable`): `validFrom` is compared with
  `MoreThan(now)`, and `usageCount >= maxUses` holds because `maxUses` is null.
- A notice of Moyasar that has an id looks for a column that nothing writes, and finds no
  payment; one without an id drops the condition of the look-up and marks the first
  payment COMPLETED or FAILED (`SettledUnnamed`). The callback of STC Pay does nothing, and
  topping up a wallet is refused (`InsertsRefused`).
- The seeds' look-ups promise a script that can be run again. A run that finds
  a booking stored fails at the bookings (`NeverFinished`), so what a killed run did not
  get to (payments, transactions, reviews, notifications) is never put in; and one
  killed among the providers may fail there (`WhereRunsFail`).
- `GET /users/:id` is cached under one key, because `user.sub` is undefined: the answer
  may be about another user. `ResponseCache` has the shared key; `StalenessBounded`
  says how old the answer is, not whose.
- `otps.attemptCount` is never incremented, so `maxAttempts` and `isBlocked` never
  take effect; `resetPassword` ignores `isBlocked` altogether.
- `refreshToken` checks no status; `validate` refuses the token on its next use.
- A registration that broke off cannot be repeated: the user (or the provider row)
  is there. For users, `resendOtp` and `verifyOtp` finish it (`RegistrationRecovers`),
  without a wallet; `getWallet` then creates one.
- `users.update` changes the number and leaves `phoneVerified`, so a user may count as verified with a
  number no code was sent to. `VerifiedByOtp` says what is left: a code was accepted for
  a number the user has had. `updateProfile` changes the iqama number with no look-up.
- `auth.register`, `users.create`, `users.update` and the seeds give the role PROVIDER without a
  provider row; `RoleFollowsRow` is about `register` of providers.
- `verifyOtp` sets ACTIVE whatever the status was: a code lifts a suspension.
  `AccountStanding!Verify` states what the code does.
- `markEnRoute` and `markArrived` check no status: `BookingLifecycle!Transition` allows
  them from everywhere, and a completed booking can be started and completed again.
- The refund columns `cancel` writes are read by nothing, and the commission columns of
  bookings are written by nothing.
- `getUpcoming` and the filters of `findAll` name `booking.scheduledDate`, which is no
  column.

## 6. Plan

Done, in this order: `Bookings` with `BookingLifecycle`, `ProviderAccounts`,
`Accounts` with `AccountStanding`, `ChatPresence`, then `Seeding`, `Inserts`,
`Marketplace`, `Routes`, `ResponseCache` and `RateLimit`, composed in `Platform`,
and the proofs of all of them: first what holds of every interleaving, then
what holds under a lock, with one call at a time as a corollary, then the routes and
the types of the platform.

What could follow:

1. One row of the user for `Accounts` and `ProviderAccounts`: the column role is written by
   `users.update` and `ProvidersService.register` over entities the two modules each hold.
2. The handlers of disputes, conversations and addresses, once code creates their
   rows: their messages' counters and the default address are load-assign-save, as
   in `Marketplace`.
3. The discount of a promo code, once `validate` accepts one.
