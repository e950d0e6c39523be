--------------------------- MODULE ProviderAccounts ---------------------------
(***************************************************************************)
(* Table providers and the handlers that write it: ProvidersService        *)
(* (register, updateProfile, updateAvailability, updateLocation, approve,  *)
(* reject, suspend), AdminService (approveProvider, rejectProvider) and    *)
(* the credit at the end of BookingsService.complete.  All save a whole    *)
(* entity they loaded before, so each writes back what it found stale.     *)
(***************************************************************************)
EXTENDS Rows, FiniteSets

CONSTANTS
  Users,          \* users who are providers or may register as one
  Calls,          \* the requests that may be made, each at most once
  MaxInFlight,    \* how many of them the process serves at the same time
  AccountSeeds,   \* what a user's row in table providers may start as
  Iqamas,         \* iqama numbers
  Availability,   \* ProviderAvailability, or the part of it in use
  NULL            \* no row, no value

Standing == {"PENDING_APPROVAL", "APPROVED", "ACTIVE", "SUSPENDED", "REJECTED"}
Verification == {"PENDING", "VERIFIED", "REJECTED"}

\* A timestamp column is TRUE when it is set and FALSE when it is NULL.
AccountRow == [iqamaNumber : Iqamas, status : Standing,
               verificationStatus : Verification,
               availability : Availability, approvedAt : BOOLEAN,
               suspensionCount : Nat, lastSuspensionDate : BOOLEAN,
               completedBookings : Nat, locationUpdatedAt : BOOLEAN]

AccountColumns == {"iqamaNumber", "status", "verificationStatus", "availability",
                   "approvedAt", "suspensionCount", "lastSuspensionDate",
                   "completedBookings", "locationUpdatedAt"}

ASSUME AccountsAssumption ==
  /\ MaxInFlight \in Nat
  /\ AccountSeeds \subseteq AccountRow \cup {NULL}
  /\ NULL \notin AccountRow
  /\ "OFFLINE" \in Availability
  /\ IsFiniteSet(Calls)

SaveOp == {"updateProfile", "updateAvailability", "updateLocation", "approve",
           "reject", "suspend", "approveProvider", "rejectProvider", "complete"}
Op == SaveOp \cup {"register"}

VARIABLES
  account,      \* table providers: the row of each user
  role,         \* column role of table users; CUSTOMER stands for the others too
  track,        \* table provider_locations: the call that wrote each row
  granted,      \* history: users whose row was seeded ACTIVE or approved
  appointed,    \* history: users given role PROVIDER by another way than register
  suspensions,  \* history: how many suspend calls have stored their UPDATE
  pc,           \* where each call stands
  op,           \* the operation it performs
  target,       \* the user whose row it is about
  entity,       \* the provider entity it holds
  changed       \* the columns its pending UPDATE writes

tables == <<account, role, track, granted, appointed, suspensions>>
calls == <<pc, op, target, entity, changed>>
vars == <<tables, calls>>

Waiting == {"free", "unique", "inserted", "loaded", "diffed", "stored"}
Ended == {"ok", "refused", "failed"}
InFlight == {c \in Calls : pc[c] \in Waiting}

Seeded(u) == IF account[u] = NULL THEN 0 ELSE account[u].suspensionCount

TypeOK ==
  /\ account \in [Users -> AccountRow \cup {NULL}]
  /\ role \in [Users -> {"CUSTOMER", "PROVIDER"}]
  /\ track \subseteq Calls
  /\ granted \subseteq Users
  /\ appointed \subseteq Users
  /\ suspensions \in [Users -> Nat]
  /\ pc \in [Calls -> {"idle"} \cup Waiting \cup Ended]
  /\ op \in [Calls -> Op \cup {NULL}]
  /\ target \in [Calls -> Users \cup {NULL}]
  /\ entity \in [Calls -> AccountRow \cup {NULL}]
  /\ changed \in [Calls -> SUBSET AccountColumns]

\* However registrations, changes of the number by updateProfile and stale saves
\* that write an old number back interleave, no two providers have the same one.
OneProviderPerIqama ==
  \A u, v \in Users :
    u # v /\ account[u] # NULL /\ account[v] # NULL
      => account[u].iqamaNumber # account[v].iqamaNumber

\* register is not the only source of a role: auth.register stores the one in its
\* body, users.create and users.seed the one they are given, before any row of
\* table providers is there.
Init ==
  /\ account \in [Users -> AccountSeeds]
  /\ OneProviderPerIqama
  /\ role \in [Users -> {"CUSTOMER", "PROVIDER"}]
  /\ track = {}
  /\ granted = {u \in Users : account[u] # NULL /\ account[u].status = "ACTIVE"}
  /\ appointed = {u \in Users : role[u] = "PROVIDER"}
  /\ suspensions = [u \in Users |-> Seeded(u)]
  /\ pc = [c \in Calls |-> "idle"]
  /\ op = [c \in Calls |-> NULL]
  /\ target = [c \in Calls |-> NULL]
  /\ entity = [c \in Calls |-> NULL]
  /\ changed = [c \in Calls |-> {}]

\* A call that has ended leaves nothing behind but its outcome.
EndCall(c, outcome) ==
  /\ pc' = [pc EXCEPT ![c] = outcome]
  /\ op' = [op EXCEPT ![c] = NULL]
  /\ target' = [target EXCEPT ![c] = NULL]
  /\ entity' = [entity EXCEPT ![c] = NULL]
  /\ changed' = [changed EXCEPT ![c] = {}]

CanStart(c) == pc[c] = "idle" /\ Cardinality(InFlight) < MaxInFlight

-----------------------------------------------------------------------------
(* register: three look-ups, an INSERT, and the role of the user.          *)

\* The row register inserts, with the iqama number of the request.
Registered(n) ==
  [iqamaNumber |-> n, status |-> "PENDING_APPROVAL", verificationStatus |-> "PENDING",
   availability |-> "OFFLINE", approvedAt |-> FALSE, suspensionCount |-> 0,
   lastSuspensionDate |-> FALSE, completedBookings |-> 0,
   locationUpdatedAt |-> FALSE]

RegisterCheck(c, u) ==
  /\ CanStart(c)
  /\ IF account[u] = NULL
       THEN /\ pc' = [pc EXCEPT ![c] = "free"]
            /\ op' = [op EXCEPT ![c] = "register"]
            /\ target' = [target EXCEPT ![c] = u]
            /\ \E n \in Iqamas : entity' = [entity EXCEPT ![c] = Registered(n)]
       ELSE /\ pc' = [pc EXCEPT ![c] = "refused"]
            /\ UNCHANGED <<op, target, entity>>
  /\ UNCHANGED <<tables, changed>>

IqamaTaken(n) == \E v \in Users : account[v] # NULL /\ account[v].iqamaNumber = n

RegisterIqama(c) ==
  /\ pc[c] = "free"
  /\ IF IqamaTaken(entity[c].iqamaNumber)
       THEN EndCall(c, "refused")
       ELSE /\ pc' = [pc EXCEPT ![c] = "unique"]
            /\ UNCHANGED <<op, target, entity, changed>>
  /\ UNCHANGED tables

\* Fault: iqama_number is no unique column.
RegisterInsertSharingIqama(c) ==
  LET u == target[c] IN
  /\ pc[c] = "unique"
  /\ IF account[u] # NULL
       THEN /\ EndCall(c, "failed")
            /\ UNCHANGED account
       ELSE /\ account' = [account EXCEPT ![u] = entity[c]]
            /\ pc' = [pc EXCEPT ![c] = "inserted"]
            /\ UNCHANGED <<op, target, entity, changed>>
  /\ UNCHANGED <<role, track, granted, appointed, suspensions>>

\* Both user_id and iqama_number are unique columns: the INSERT of the later
\* of two calls that passed the same look-ups fails.
RegisterInsert(c) ==
  LET u == target[c] IN
  /\ pc[c] = "unique"
  /\ IF account[u] # NULL \/ IqamaTaken(entity[c].iqamaNumber)
       THEN /\ EndCall(c, "failed")
            /\ UNCHANGED account
       ELSE /\ account' = [account EXCEPT ![u] = entity[c]]
            /\ pc' = [pc EXCEPT ![c] = "inserted"]
            /\ UNCHANGED <<op, target, entity, changed>>
  /\ UNCHANGED <<role, track, granted, appointed, suspensions>>

\* Fault: the role is stored before the provider is inserted.
RegisterRoleFirst(c) ==
  /\ pc[c] = "unique"
  /\ role' = [role EXCEPT ![target[c]] = "PROVIDER"]
  /\ EndCall(c, "ok")
  /\ UNCHANGED <<account, track, granted, appointed, suspensions>>

RegisterRole(c) ==
  /\ pc[c] = "inserted"
  /\ role' = [role EXCEPT ![target[c]] = "PROVIDER"]
  /\ EndCall(c, "ok")
  /\ UNCHANGED <<account, track, granted, appointed, suspensions>>

-----------------------------------------------------------------------------
(* The handlers that load the row, assign to the entity and save it.       *)

\* Columns assigned a new Date, or a number where a decimal is stored.
Fresh(o) ==
  CASE o \in {"approve", "approveProvider"} -> {"approvedAt"}
    [] o = "suspend" -> {"lastSuspensionDate"}
    [] o = "updateLocation" -> {"locationUpdatedAt"}
    [] OTHER -> {}

\* The row is found and assigned to; there is no status to check.
Load(c, o, u, patch) ==
  /\ CanStart(c)
  /\ account[u] # NULL
  /\ pc' = [pc EXCEPT ![c] = "loaded"]
  /\ op' = [op EXCEPT ![c] = o]
  /\ target' = [target EXCEPT ![c] = u]
  /\ entity' = [entity EXCEPT ![c] = Assign(account[u], patch)]
  /\ UNCHANGED <<tables, changed>>

\* UpdateProviderDto is every field of CreateProviderDto made optional: of the
\* columns of AccountRow it has the iqama number, and no look-up checks that the
\* number is free.  The userId it may hold is never stored: the entity has its
\* user loaded with it, and save takes the column from there.
UpdateProfile(c, u) ==
  \/ Load(c, "updateProfile", u, <<>>)
  \/ \E n \in Iqamas : Load(c, "updateProfile", u, [iqamaNumber |-> n])

\* Fault: a provider who becomes available is made active.
UpdateAvailabilityActivating(c, u) ==
  \E a \in Availability :
    Load(c, "updateAvailability", u, [availability |-> a, status |-> "ACTIVE"])

UpdateAvailability(c, u) ==
  \E a \in Availability : Load(c, "updateAvailability", u, [availability |-> a])

UpdateLocation(c, u) ==
  Load(c, "updateLocation", u, [locationUpdatedAt |-> TRUE])

Approve(c, u) ==
  Load(c, "approve", u, [status |-> "ACTIVE", verificationStatus |-> "VERIFIED",
                         approvedAt |-> TRUE])

Reject(c, u) ==
  Load(c, "reject", u, [status |-> "REJECTED", verificationStatus |-> "REJECTED"])

\* Fault: a suspension takes one off the count.
SuspendDiscounting(c, u) ==
  Load(c, "suspend", u, [status |-> "SUSPENDED", lastSuspensionDate |-> TRUE,
                         suspensionCount |-> account[u].suspensionCount - 1])

\* Fault: a suspension is counted twice.
SuspendTwice(c, u) ==
  Load(c, "suspend", u, [status |-> "SUSPENDED", lastSuspensionDate |-> TRUE,
                         suspensionCount |-> account[u].suspensionCount + 2])

Suspend(c, u) ==
  Load(c, "suspend", u, [status |-> "SUSPENDED", lastSuspensionDate |-> TRUE,
                         suspensionCount |-> account[u].suspensionCount + 1])

\* AdminService leaves the verification status as it is.
ApproveProvider(c, u) ==
  Load(c, "approveProvider", u, [status |-> "ACTIVE", approvedAt |-> TRUE])

RejectProvider(c, u) ==
  Load(c, "rejectProvider", u, [status |-> "REJECTED"])

\* complete loads the row before the booking and saves it after the
\* timeline; the saves in between are in module Bookings.
Complete(c, u) ==
  Load(c, "complete", u,
       [completedBookings |-> account[u].completedBookings + 1])

\* No row: NotFoundException, or a TypeError in AdminService.
Missing(c, u) ==
  /\ CanStart(c)
  /\ account[u] = NULL
  /\ pc' = [pc EXCEPT ![c] = "refused"]
  /\ UNCHANGED <<tables, op, target, entity, changed>>

SaveSelect(c) ==
  /\ pc[c] = "loaded"
  /\ pc' = [pc EXCEPT ![c] = "diffed"]
  /\ changed' = [changed EXCEPT ![c] =
       Changed(entity[c], account[target[c]], Fresh(op[c]))]
  /\ UNCHANGED <<tables, op, target, entity>>

\* The UPDATE would give the row the iqama number of another.
IqamaClash(c) ==
  /\ "iqamaNumber" \in changed[c]
  /\ \E v \in Users \ {target[c]} :
       account[v] # NULL /\ account[v].iqamaNumber = entity[c].iqamaNumber

\* The unique index refuses the UPDATE: save rejects and nothing is stored.
SaveRefused(c) ==
  /\ pc[c] = "diffed"
  /\ IqamaClash(c)
  /\ EndCall(c, "failed")
  /\ UNCHANGED tables

SaveUpdate(c) ==
  LET u == target[c] IN
  /\ pc[c] = "diffed"
  /\ ~IqamaClash(c)
  /\ account' = [account EXCEPT ![u] = Updated(account[u], entity[c], changed[c])]
  /\ granted' = IF op[c] \in {"approve", "approveProvider"} THEN granted \cup {u}
                                                            ELSE granted
  /\ suspensions' = IF op[c] = "suspend"
                      THEN [suspensions EXCEPT ![u] = suspensions[u] + 1]
                      ELSE suspensions
  /\ IF op[c] = "updateLocation"
       THEN /\ pc' = [pc EXCEPT ![c] = "stored"]
            /\ UNCHANGED <<op, target, entity, changed>>
       ELSE EndCall(c, "ok")
  /\ UNCHANGED <<role, track, appointed>>

\* updateLocation's second save, the row of the location history.
RecordLocation(c) ==
  /\ pc[c] = "stored"
  /\ track' = track \cup {c}
  /\ EndCall(c, "ok")
  /\ UNCHANGED <<account, role, granted, appointed, suspensions>>

\* A statement of the call fails, or the process stops: what it has written
\* stays, the rest never happens.
Fail(c) ==
  /\ pc[c] \in Waiting
  /\ EndCall(c, "failed")
  /\ UNCHANGED tables

\* users.update stores the role in its body, and looks at no provider.
UpdateUser(u) ==
  \E r \in {"CUSTOMER", "PROVIDER"} :
    /\ role' = [role EXCEPT ![u] = r]
    /\ appointed' = IF r = "PROVIDER" THEN appointed \cup {u} ELSE appointed
    /\ UNCHANGED <<account, track, granted, suspensions, calls>>

Request(c, u) ==
  \/ RegisterCheck(c, u)
  \/ UpdateProfile(c, u)
  \/ UpdateAvailability(c, u)
  \/ UpdateLocation(c, u)
  \/ Approve(c, u)
  \/ Reject(c, u)
  \/ Suspend(c, u)
  \/ ApproveProvider(c, u)
  \/ RejectProvider(c, u)
  \/ Complete(c, u)
  \/ Missing(c, u)

Continue(c) ==
  \/ RegisterIqama(c)
  \/ RegisterInsert(c)
  \/ RegisterRole(c)
  \/ SaveSelect(c)
  \/ SaveUpdate(c)
  \/ SaveRefused(c)
  \/ RecordLocation(c)

Next ==
  \/ \E c \in Calls : (\E u \in Users : Request(c, u)) \/ Continue(c) \/ Fail(c)
  \/ \E u \in Users : UpdateUser(u)

Spec == Init /\ [][Next]_vars

-----------------------------------------------------------------------------
(* Properties.                                                             *)

\* A provider is active only when its row was seeded so or an administrator
\* has approved it, however stale the entity that was written back last.
ActiveOnlyIfGranted ==
  \A u \in Users :
    account[u] # NULL /\ account[u].status = "ACTIVE" => u \in granted

\* suspensionCount may lose suspensions to a stale save, but never counts
\* one that no administrator ordered.
SuspensionsNotOvercounted ==
  \A u \in Users :
    account[u] # NULL => account[u].suspensionCount <= suspensions[u]

\* Wherever register fails and however two registrations of one user interleave,
\* it gives the role of a provider only to a user whose provider row is there:
\* who has the role without a row has had it from somewhere else.
RoleFollowsRow ==
  \A u \in Users : role[u] = "PROVIDER" => account[u] # NULL \/ u \in appointed

\* updateLocation's comment "Update provider's current location": its UPDATE
\* changes the location and nothing else of the row.
LocationOnly ==
  [][\A c \in Calls :
       op[c] = "updateLocation" /\ pc[c] = "diffed" /\ pc'[c] = "stored" =>
         account'[target[c]]
           = Assign(account[target[c]], [locationUpdatedAt |-> TRUE])]_vars
=============================================================================
