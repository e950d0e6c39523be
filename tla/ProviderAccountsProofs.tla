----------------------- MODULE ProviderAccountsProofs -----------------------
(***************************************************************************)
(* What holds of table providers for any users, any number of calls and    *)
(* any degree of concurrency, although every writer saves a whole entity   *)
(* it loaded before.                                                       *)
(***************************************************************************)
EXTENDS ProviderAccounts, FiniteSetTheorems, TLAPS

(***************************************************************************)
(* Rows.                                                                   *)
(***************************************************************************)

\* An UPDATE with an entity of the table's type leaves a row of that type,
\* each column of which is the row's or the entity's.
LEMMA UpdatedAccount ==
  ASSUME NEW row \in AccountRow, NEW e \in AccountRow, NEW cols
  PROVE  /\ Updated(row, e, cols) \in AccountRow
         /\ Updated(row, e, cols).status \in {row.status, e.status}
         /\ Updated(row, e, cols).suspensionCount
              \in {row.suspensionCount, e.suspensionCount}
         /\ Updated(row, e, cols).iqamaNumber
              = IF "iqamaNumber" \in cols THEN e.iqamaNumber ELSE row.iqamaNumber
BY DEF Updated, AccountRow

\* The columns of a pending UPDATE are columns of the table.
LEMMA ChangedAccount ==
  ASSUME NEW row \in AccountRow, NEW e \in AccountRow, NEW o
  PROVE  Changed(e, row, Fresh(o)) \subseteq AccountColumns
<1>1. Fresh(o) \subseteq AccountColumns
  BY DEF Fresh, AccountColumns
<1>2. DOMAIN row = AccountColumns
  BY DEF AccountRow, AccountColumns
<1> QED
  BY <1>1, <1>2 DEF Changed

-----------------------------------------------------------------------------
(***************************************************************************)
(* The nine handlers that load the row and go straight to its save are one *)
(* kind of step: they differ in the entity they hand to save, and that one *)
(* differs from the row in the columns the handler is about.  Only the     *)
(* approvals make an entity active that was not loaded so, and only        *)
(* suspend raises the count.                                               *)
(***************************************************************************)
Approval == {"approve", "approveProvider"}

Added(o) == IF o = "suspend" THEN 1 ELSE 0

\* The columns each handler assigns to.
Writes(o) ==
  CASE o = "updateProfile" -> {"iqamaNumber"}
    [] o = "updateAvailability" -> {"availability"}
    [] o = "updateLocation" -> {"locationUpdatedAt"}
    [] o = "approve" -> {"status", "verificationStatus", "approvedAt"}
    [] o = "reject" -> {"status", "verificationStatus"}
    [] o = "suspend" -> {"status", "lastSuspensionDate", "suspensionCount"}
    [] o = "approveProvider" -> {"status", "approvedAt"}
    [] o = "rejectProvider" -> {"status"}
    [] o = "complete" -> {"completedBookings"}
    [] OTHER -> {}

Assigned(o, row, e) ==
  /\ e.status \in {row.status, "REJECTED", "SUSPENDED"} \/ o \in Approval
  /\ e.suspensionCount = row.suspensionCount + Added(o)
  /\ \A col \in AccountColumns \ Writes(o) : e[col] = row[col]
  /\ o = "updateLocation" => e.locationUpdatedAt = TRUE

\* The values a handler assigns are of their columns' types, and so are the
\* two columns Assigned speaks of.
PatchOK(o, row, patch) ==
  /\ "status" \in DOMAIN patch => patch.status \in Standing
  /\ "iqamaNumber" \in DOMAIN patch => patch.iqamaNumber \in Iqamas
  /\ "verificationStatus" \in DOMAIN patch
       => patch.verificationStatus \in Verification
  /\ "availability" \in DOMAIN patch => patch.availability \in Availability
  /\ "approvedAt" \in DOMAIN patch => patch.approvedAt \in BOOLEAN
  /\ "lastSuspensionDate" \in DOMAIN patch => patch.lastSuspensionDate \in BOOLEAN
  /\ "completedBookings" \in DOMAIN patch
       => patch.completedBookings = row.completedBookings + 1
  /\ "locationUpdatedAt" \in DOMAIN patch => patch.locationUpdatedAt \in BOOLEAN
  /\ "status" \in DOMAIN patch /\ o \notin Approval
       => patch.status \in {"REJECTED", "SUSPENDED"}
  /\ IF o = "suspend"
       THEN /\ "suspensionCount" \in DOMAIN patch
            /\ patch.suspensionCount = row.suspensionCount + 1
       ELSE "suspensionCount" \notin DOMAIN patch
  /\ DOMAIN patch \subseteq Writes(o)
  /\ o = "updateLocation"
       => "locationUpdatedAt" \in DOMAIN patch /\ patch.locationUpdatedAt = TRUE

LoadAs(c, o, u, e) ==
  /\ CanStart(c)
  /\ account[u] # NULL
  /\ pc' = [pc EXCEPT ![c] = "loaded"]
  /\ op' = [op EXCEPT ![c] = o]
  /\ target' = [target EXCEPT ![c] = u]
  /\ entity' = [entity EXCEPT ![c] = e]
  /\ UNCHANGED <<tables, changed>>

LoadStep(c, u) ==
  \E o \in SaveOp, e \in AccountRow : LoadAs(c, o, u, e) /\ Assigned(o, account[u], e)

\* What is assigned to a loaded row leaves an entity of the table's type.
LEMMA AssignedAccount ==
  ASSUME NEW row \in AccountRow, NEW o, NEW patch, PatchOK(o, row, patch)
  PROVE  Assign(row, patch) \in AccountRow /\ Assigned(o, row, Assign(row, patch))
<1> DEFINE e == Assign(row, patch)
<1>1. e \in AccountRow
  BY DEF PatchOK, Assign, AccountRow
<1>2. e.status = IF "status" \in DOMAIN patch THEN patch.status ELSE row.status
  BY DEF Assign, AccountRow
<1>3. e.suspensionCount = IF "suspensionCount" \in DOMAIN patch
                            THEN patch.suspensionCount ELSE row.suspensionCount
  BY DEF Assign, AccountRow
<1>4. row.suspensionCount \in Nat
  BY DEF AccountRow
<1>6. \A col \in AccountColumns :
        e[col] = IF col \in DOMAIN patch THEN patch[col] ELSE row[col]
  BY DEF Assign, AccountRow, AccountColumns
<1>7. o = "updateLocation" => e.locationUpdatedAt = TRUE
  BY <1>6 DEF PatchOK, AccountColumns
<1>8. \A col \in AccountColumns \ Writes(o) : e[col] = row[col]
  BY <1>6 DEF PatchOK
<1> HIDE DEF e
<1>5. Assigned(o, row, e)
  BY <1>2, <1>3, <1>4, <1>7, <1>8 DEF PatchOK, Assigned, Added
<1> QED
  BY <1>1, <1>5 DEF e

\* Each request for a save is a LoadStep.
LEMMA LoadSteps ==
  ASSUME TypeOK, NEW c \in Calls, NEW u \in Users
  PROVE  /\ UpdateAvailability(c, u) => LoadStep(c, u)
         /\ UpdateProfile(c, u) => LoadStep(c, u)
         /\ UpdateLocation(c, u) => LoadStep(c, u)
         /\ Approve(c, u) => LoadStep(c, u)
         /\ Reject(c, u) => LoadStep(c, u)
         /\ Suspend(c, u) => LoadStep(c, u)
         /\ ApproveProvider(c, u) => LoadStep(c, u)
         /\ RejectProvider(c, u) => LoadStep(c, u)
         /\ Complete(c, u) => LoadStep(c, u)
<1>1. ASSUME NEW o \in SaveOp, NEW patch, Load(c, o, u, patch),
             PatchOK(o, account[u], patch)
      PROVE  LoadStep(c, u)
  <2> DEFINE e == Assign(account[u], patch)
  <2>1. account[u] \in AccountRow
    BY <1>1 DEF Load, TypeOK
  <2>2. e \in AccountRow /\ Assigned(o, account[u], e)
    BY <1>1, <2>1, AssignedAccount
  <2>3. LoadAs(c, o, u, e)
    BY <1>1 DEF Load, LoadAs
  <2> HIDE DEF e
  <2> QED
    BY <2>2, <2>3 DEF LoadStep
<1>2. ASSUME UpdateAvailability(c, u) PROVE LoadStep(c, u)
  <2>1. PICK a \in Availability : Load(c, "updateAvailability", u, [availability |-> a])
    BY <1>2 DEF UpdateAvailability
  <2> DEFINE patch == [availability |-> a]
  <2>2. PatchOK("updateAvailability", account[u], patch)
    BY DEF PatchOK, Approval, Writes
  <2> HIDE DEF patch
  <2> QED
    BY <1>1, <2>1, <2>2 DEF SaveOp, patch
<1>3. ASSUME UpdateProfile(c, u) PROVE LoadStep(c, u)
  <2>1. CASE Load(c, "updateProfile", u, <<>>)
    <3> DEFINE patch == <<>>
    <3>1. PatchOK("updateProfile", account[u], patch)
      BY DEF PatchOK, Approval, Writes, Standing, Verification
    <3> HIDE DEF patch
    <3> QED
      BY <1>1, <2>1, <3>1 DEF SaveOp, patch
  <2>2. ASSUME NEW n \in Iqamas, Load(c, "updateProfile", u, [iqamaNumber |-> n])
        PROVE  LoadStep(c, u)
    <3> DEFINE patch == [iqamaNumber |-> n]
    <3>1. PatchOK("updateProfile", account[u], patch)
      BY DEF PatchOK, Approval, Writes
    <3> HIDE DEF patch
    <3> QED
      BY <1>1, <2>2, <3>1 DEF SaveOp, patch
  <2> QED
    BY <1>3, <2>1, <2>2 DEF UpdateProfile
<1>4. ASSUME UpdateLocation(c, u) PROVE LoadStep(c, u)
  <2> DEFINE patch ==
        [locationUpdatedAt |-> TRUE]
  <2>1. Load(c, "updateLocation", u, patch)
    BY <1>4 DEF UpdateLocation
  <2>2. PatchOK("updateLocation", account[u], patch)
    BY DEF PatchOK, Approval, Writes, Standing, Verification
  <2> HIDE DEF patch
  <2> QED
    BY <1>1, <2>1, <2>2 DEF SaveOp
<1>5. ASSUME Approve(c, u) PROVE LoadStep(c, u)
  <2> DEFINE patch ==
        [status |-> "ACTIVE", verificationStatus |-> "VERIFIED",
         approvedAt |-> TRUE]
  <2>1. Load(c, "approve", u, patch)
    BY <1>5 DEF Approve
  <2>2. PatchOK("approve", account[u], patch)
    BY DEF PatchOK, Approval, Writes, Standing, Verification
  <2> HIDE DEF patch
  <2> QED
    BY <1>1, <2>1, <2>2 DEF SaveOp
<1>6. ASSUME Reject(c, u) PROVE LoadStep(c, u)
  <2> DEFINE patch ==
        [status |-> "REJECTED", verificationStatus |-> "REJECTED"]
  <2>1. Load(c, "reject", u, patch)
    BY <1>6 DEF Reject
  <2>2. PatchOK("reject", account[u], patch)
    BY DEF PatchOK, Approval, Writes, Standing, Verification
  <2> HIDE DEF patch
  <2> QED
    BY <1>1, <2>1, <2>2 DEF SaveOp
<1>7. ASSUME Suspend(c, u) PROVE LoadStep(c, u)
  <2> DEFINE patch ==
        [status |-> "SUSPENDED", lastSuspensionDate |-> TRUE,
         suspensionCount |-> account[u].suspensionCount + 1]
  <2>1. Load(c, "suspend", u, patch)
    BY <1>7 DEF Suspend
  <2>2. PatchOK("suspend", account[u], patch)
    BY DEF PatchOK, Approval, Writes, Standing, Verification
  <2> HIDE DEF patch
  <2> QED
    BY <1>1, <2>1, <2>2 DEF SaveOp
<1>8. ASSUME ApproveProvider(c, u) PROVE LoadStep(c, u)
  <2> DEFINE patch ==
        [status |-> "ACTIVE", approvedAt |-> TRUE]
  <2>1. Load(c, "approveProvider", u, patch)
    BY <1>8 DEF ApproveProvider
  <2>2. PatchOK("approveProvider", account[u], patch)
    BY DEF PatchOK, Approval, Writes, Standing, Verification
  <2> HIDE DEF patch
  <2> QED
    BY <1>1, <2>1, <2>2 DEF SaveOp
<1>9. ASSUME RejectProvider(c, u) PROVE LoadStep(c, u)
  <2> DEFINE patch ==
        [status |-> "REJECTED"]
  <2>1. Load(c, "rejectProvider", u, patch)
    BY <1>9 DEF RejectProvider
  <2>2. PatchOK("rejectProvider", account[u], patch)
    BY DEF PatchOK, Approval, Writes, Standing, Verification
  <2> HIDE DEF patch
  <2> QED
    BY <1>1, <2>1, <2>2 DEF SaveOp
<1>10. ASSUME Complete(c, u) PROVE LoadStep(c, u)
  <2> DEFINE patch ==
        [completedBookings |-> account[u].completedBookings + 1]
  <2>1. Load(c, "complete", u, patch)
    BY <1>10 DEF Complete
  <2>2. PatchOK("complete", account[u], patch)
    BY DEF PatchOK, Approval, Writes, Standing, Verification
  <2> HIDE DEF patch
  <2> QED
    BY <1>1, <2>1, <2>2 DEF SaveOp
<1> QED
  BY <1>2, <1>3, <1>4, <1>5, <1>6, <1>7, <1>8, <1>9, <1>10

\* A row of a provider nobody has approved or suspended yet.
NewRow(row) ==
  row \in AccountRow /\ row.status # "ACTIVE" /\ row.suspensionCount = 0

\* What register inserts.
LEMMA RegisteredAccount ==
  ASSUME NEW n \in Iqamas
  PROVE  NewRow(Registered(n))
<1>1. Registered(n) \in AccountRow
  <2>1. "OFFLINE" \in Availability
    BY AccountsAssumption
  <2> QED
    BY <2>1 DEF Registered, AccountRow, Standing, Verification
<1>2. Registered(n).status = "PENDING_APPROVAL" /\ Registered(n).suspensionCount = 0
  BY DEF Registered
<1> QED
  BY <1>1, <1>2 DEF NewRow

-----------------------------------------------------------------------------
(***************************************************************************)
(* The invariant.  Beyond the table it follows the entities under way: one *)
(* that is active belongs to a granted provider or to an approval, and its *)
(* count is at most the suspensions stored, and the one it is about to     *)
(* add.  A row, once there, stays.                                         *)
(***************************************************************************)
Saving == {"loaded", "diffed", "stored"}

CallOK ==
  \A c \in Calls :
    /\ pc[c] \in Waiting => target[c] \in Users
    /\ pc[c] \in {"free", "unique"} => NewRow(entity[c])
    /\ pc[c] \in Saving => /\ op[c] \in SaveOp
                           /\ entity[c] \in AccountRow
                           /\ account[target[c]] # NULL
    /\ pc[c] = "inserted" => account[target[c]] # NULL

EntityOK ==
  \A c \in Calls : pc[c] \in {"loaded", "diffed"} =>
    /\ entity[c].status = "ACTIVE" => target[c] \in granted \/ op[c] \in Approval
    /\ entity[c].suspensionCount <= suspensions[target[c]] + Added(op[c])

AccountsInv ==
  /\ TypeOK /\ CallOK /\ EntityOK
  /\ ActiveOnlyIfGranted /\ SuspensionsNotOvercounted
  /\ OneProviderPerIqama /\ RoleFollowsRow

\* The seeded rows satisfy it.
LEMMA InitHolds == Init => AccountsInv
<1> SUFFICES ASSUME Init PROVE AccountsInv
  OBVIOUS
<1>1. \A u \in Users : account[u] # NULL => account[u] \in AccountRow
  BY AccountsAssumption DEF Init
<1>2. \A u \in Users : /\ account[u] # NULL => account[u].suspensionCount \in Nat
                       /\ Seeded(u) \in Nat
  BY <1>1 DEF AccountRow, Seeded
<1>3. TypeOK
  BY <1>1, <1>2 DEF Init, TypeOK
<1>4. CallOK /\ EntityOK
  BY DEF Init, CallOK, EntityOK, Waiting, Saving
<1>5. ActiveOnlyIfGranted /\ SuspensionsNotOvercounted
  BY <1>2 DEF Init, ActiveOnlyIfGranted, SuspensionsNotOvercounted, Seeded
<1>6. OneProviderPerIqama /\ RoleFollowsRow
  BY DEF Init, RoleFollowsRow
<1> QED
  BY <1>3, <1>4, <1>5, <1>6 DEF AccountsInv

\* A call that ends, or waits at another step, and leaves the tables alone.
LEMMA TablesKept ==
  ASSUME AccountsInv, UNCHANGED tables, TypeOK', CallOK', EntityOK'
  PROVE  AccountsInv'
BY DEF AccountsInv, tables, ActiveOnlyIfGranted, SuspensionsNotOvercounted,
       OneProviderPerIqama, RoleFollowsRow

\* A call that ends keeps the types of what the tables may have become.
LEMMA CallEnds ==
  ASSUME TypeOK, CallOK, EntityOK, NEW c \in Calls, NEW outcome \in Ended,
         EndCall(c, outcome),
         account' \in [Users -> AccountRow \cup {NULL}],
         role' \in [Users -> {"CUSTOMER", "PROVIDER"}], track' \subseteq Calls,
         granted \subseteq granted', granted' \subseteq Users,
         appointed' \subseteq Users,
         suspensions' \in [Users -> Nat],
         \A u \in Users : /\ account[u] # NULL => account'[u] # NULL
                          /\ suspensions[u] <= suspensions'[u]
  PROVE  TypeOK' /\ CallOK' /\ EntityOK'
<1>1. TypeOK'
  BY DEF TypeOK, EndCall, Ended
<1>2. \A d \in Calls : pc'[d] \in Waiting =>
        /\ d # c /\ pc'[d] = pc[d] /\ op'[d] = op[d] /\ target'[d] = target[d]
        /\ entity'[d] = entity[d]
  BY DEF TypeOK, EndCall, Ended, Waiting
<1>3. CallOK'
  BY <1>2 DEF CallOK, Waiting, Saving
<1>4. ASSUME NEW d \in Calls, pc'[d] \in {"loaded", "diffed"}
      PROVE  /\ entity'[d].status = "ACTIVE" => target'[d] \in granted' \/ op'[d] \in Approval
             /\ entity'[d].suspensionCount <= suspensions'[target'[d]] + Added(op'[d])
  <2>1. /\ pc[d] \in {"loaded", "diffed"} /\ op'[d] = op[d] /\ target'[d] = target[d]
        /\ entity'[d] = entity[d] /\ target[d] \in Users /\ entity[d] \in AccountRow
    BY <1>2, <1>4 DEF CallOK, Waiting, Saving
  <2>2. /\ entity[d].status = "ACTIVE" => target[d] \in granted \/ op[d] \in Approval
        /\ entity[d].suspensionCount <= suspensions[target[d]] + Added(op[d])
    BY <2>1 DEF EntityOK
  <2>3. /\ entity[d].suspensionCount \in Nat /\ Added(op[d]) \in Nat
        /\ suspensions[target[d]] \in Nat /\ suspensions'[target[d]] \in Nat
        /\ suspensions[target[d]] <= suspensions'[target[d]]
    BY <2>1 DEF AccountRow, Added, TypeOK
  <2> QED
    BY <2>1, <2>2, <2>3
<1> QED
  BY <1>1, <1>3, <1>4 DEF EntityOK

\* A request that loads a row to save it.
LEMMA LoadHolds ==
  ASSUME AccountsInv, NEW c \in Calls, NEW u \in Users, LoadStep(c, u)
  PROVE  AccountsInv'
<1> USE DEF AccountsInv
<1>1. PICK o \in SaveOp, e \in AccountRow :
        LoadAs(c, o, u, e) /\ Assigned(o, account[u], e)
  BY DEF LoadStep
<1>2. TypeOK'
  BY <1>1 DEF LoadAs, TypeOK, tables, Op, Waiting
<1>3. CallOK'
  BY <1>1 DEF LoadAs, TypeOK, CallOK, tables, Waiting, Saving
<1>4. account[u] \in AccountRow
  BY <1>1 DEF LoadAs, TypeOK
<1>5. e.status = "ACTIVE" => u \in granted \/ o \in Approval
  BY <1>1, <1>4 DEF Assigned, LoadAs, ActiveOnlyIfGranted
<1>6. e.suspensionCount <= suspensions[u] + Added(o)
  <2>1. account[u].suspensionCount \in Nat /\ suspensions[u] \in Nat /\ Added(o) \in Nat
    BY <1>4 DEF AccountRow, TypeOK, Added
  <2>2. account[u].suspensionCount <= suspensions[u]
    BY <1>1 DEF LoadAs, SuspensionsNotOvercounted
  <2> QED
    BY <1>1, <2>1, <2>2 DEF Assigned
<1>7. EntityOK'
  BY <1>1, <1>5, <1>6 DEF LoadAs, TypeOK, EntityOK, tables
<1> QED
  BY <1>1, <1>2, <1>3, <1>7, TablesKept DEF LoadAs

\* Every step of a request keeps the invariant.
LEMMA StepHolds == AccountsInv /\ [Next]_vars => AccountsInv'
<1> SUFFICES ASSUME AccountsInv, [Next]_vars PROVE AccountsInv'
  OBVIOUS
<1> USE DEF AccountsInv
<1>1. ASSUME NEW c \in Calls, NEW outcome \in Ended, EndCall(c, outcome),
             UNCHANGED tables
      PROVE  AccountsInv'
  <2>1. \A u \in Users : suspensions[u] <= suspensions[u]
    BY DEF TypeOK
  <2>2. TypeOK' /\ CallOK' /\ EntityOK'
    BY <1>1, <2>1, CallEnds DEF tables, TypeOK
  <2> QED
    BY <1>1, <2>2, TablesKept
<1>2. ASSUME NEW c \in Calls, NEW u \in Users, RegisterCheck(c, u) PROVE AccountsInv'
  <2>1. CASE account[u] = NULL
    <3>1. PICK n \in Iqamas : entity' = [entity EXCEPT ![c] = Registered(n)]
      BY <1>2, <2>1 DEF RegisterCheck
    <3> DEFINE row == Registered(n)
    <3>2. NewRow(row) /\ row \in AccountRow
      BY RegisteredAccount DEF NewRow
    <3>3. /\ pc' = [pc EXCEPT ![c] = "free"] /\ op' = [op EXCEPT ![c] = "register"]
          /\ target' = [target EXCEPT ![c] = u] /\ entity' = [entity EXCEPT ![c] = row]
          /\ UNCHANGED <<tables, changed>> /\ pc[c] = "idle"
      BY <1>2, <2>1, <3>1 DEF RegisterCheck, CanStart
    <3> HIDE DEF row
    <3>4. TypeOK'
      BY <3>2, <3>3 DEF TypeOK, tables, Op, Waiting
    <3>5. CallOK'
      BY <3>2, <3>3 DEF TypeOK, CallOK, tables, Waiting, Saving
    <3>6. EntityOK'
      BY <3>3 DEF TypeOK, EntityOK, tables
    <3> QED
      BY <3>3, <3>4, <3>5, <3>6, TablesKept
  <2>2. CASE account[u] # NULL
    <3>1. /\ pc' = [pc EXCEPT ![c] = "refused"] /\ pc[c] = "idle"
          /\ UNCHANGED tables /\ UNCHANGED <<op, target, entity, changed>>
      BY <1>2, <2>2 DEF RegisterCheck, CanStart
    <3>2. TypeOK'
      BY <3>1 DEF TypeOK, tables, Ended
    <3>3. CallOK' /\ EntityOK'
      BY <3>1 DEF TypeOK, CallOK, EntityOK, tables, Waiting, Saving
    <3> QED
      BY <3>1, <3>2, <3>3, TablesKept
  <2> QED
    BY <2>1, <2>2
<1>3. ASSUME NEW c \in Calls, NEW u \in Users, Missing(c, u) PROVE AccountsInv'
  <2>1. TypeOK'
    BY <1>3 DEF Missing, TypeOK, tables, Ended
  <2>2. CallOK' /\ EntityOK'
    BY <1>3 DEF Missing, TypeOK, CallOK, EntityOK, tables, Waiting, Saving
  <2> QED
    BY <1>3, <2>1, <2>2, TablesKept DEF Missing
<1>4. ASSUME NEW c \in Calls, NEW u \in Users, Request(c, u) PROVE AccountsInv'
  BY <1>2, <1>3, <1>4, LoadSteps, LoadHolds DEF Request
<1>5. ASSUME NEW c \in Calls, RegisterIqama(c) PROVE AccountsInv'
  <2>1. CASE EndCall(c, "refused")
    BY <1>1, <1>5, <2>1 DEF RegisterIqama, Ended
  <2>2. CASE /\ pc' = [pc EXCEPT ![c] = "unique"]
             /\ UNCHANGED <<op, target, entity, changed>>
    <3>1. TypeOK'
      BY <1>5, <2>2 DEF RegisterIqama, TypeOK, tables, Waiting
    <3>2. CallOK' /\ EntityOK'
      BY <1>5, <2>2 DEF RegisterIqama, TypeOK, CallOK, EntityOK, tables, Waiting, Saving
    <3> QED
      BY <1>5, <3>1, <3>2, TablesKept DEF RegisterIqama
  <2> QED
    BY <1>5, <2>1, <2>2 DEF RegisterIqama
<1>6. ASSUME NEW c \in Calls, RegisterInsert(c) PROVE AccountsInv'
  <2> DEFINE u == target[c]
             row == entity[c]
  <2>1. u \in Users /\ pc[c] = "unique"
    BY <1>6 DEF RegisterInsert, CallOK, Waiting
  <2>2. CASE account[u] # NULL \/ IqamaTaken(row.iqamaNumber)
    BY <1>1, <1>6, <2>2 DEF RegisterInsert, tables, Ended
  <2>3. CASE ~(account[u] # NULL \/ IqamaTaken(row.iqamaNumber))
    <3>1. /\ account' = [account EXCEPT ![u] = row]
          /\ pc' = [pc EXCEPT ![c] = "inserted"]
          /\ UNCHANGED <<op, target, entity, changed, role, track, granted, appointed,
                         suspensions>>
      BY <1>6, <2>3 DEF RegisterInsert
    <3>2. /\ row \in AccountRow /\ row # NULL
          /\ row.status # "ACTIVE" /\ row.suspensionCount = 0
      BY <2>1, AccountsAssumption DEF CallOK, NewRow
    <3>3. TypeOK'
      BY <3>1, <3>2 DEF TypeOK, Waiting
    <3>4. CallOK'
      BY <2>1, <3>1, <3>2 DEF TypeOK, CallOK, Waiting, Saving
    <3>5. EntityOK'
      BY <3>1 DEF TypeOK, EntityOK
    <3>6. ActiveOnlyIfGranted'
      BY <3>1, <3>2 DEF TypeOK, ActiveOnlyIfGranted
    <3>7. SuspensionsNotOvercounted'
      BY <2>1, <3>1, <3>2 DEF TypeOK, SuspensionsNotOvercounted
    <3>8. OneProviderPerIqama'
      BY <2>1, <2>3, <3>1 DEF TypeOK, OneProviderPerIqama, IqamaTaken
    <3>9. RoleFollowsRow'
      BY <3>1, <3>2 DEF TypeOK, RoleFollowsRow
    <3> QED
      BY <3>3, <3>4, <3>5, <3>6, <3>7, <3>8, <3>9
  <2> QED
    BY <2>2, <2>3
<1>7. ASSUME NEW c \in Calls, RegisterRole(c) PROVE AccountsInv'
  <2>1. /\ target[c] \in Users /\ account[target[c]] # NULL
        /\ role' = [role EXCEPT ![target[c]] = "PROVIDER"] /\ EndCall(c, "ok")
        /\ UNCHANGED <<account, track, granted, appointed, suspensions>>
    BY <1>7 DEF RegisterRole, CallOK, Waiting
  <2>2. role' \in [Users -> {"CUSTOMER", "PROVIDER"}]
    BY <2>1 DEF TypeOK
  <2>3. \A u \in Users : suspensions[u] <= suspensions[u]
    BY DEF TypeOK
  <2>4. TypeOK' /\ CallOK' /\ EntityOK'
    BY <2>1, <2>2, <2>3, CallEnds DEF TypeOK, Ended
  <2>5. RoleFollowsRow'
    BY <2>1 DEF TypeOK, RoleFollowsRow
  <2> QED
    BY <2>1, <2>4, <2>5 DEF ActiveOnlyIfGranted, SuspensionsNotOvercounted,
                            OneProviderPerIqama
<1>8. ASSUME NEW c \in Calls, SaveSelect(c) PROVE AccountsInv'
  <2> DEFINE cols == Changed(entity[c], account[target[c]], Fresh(op[c]))
  <2>1. /\ pc[c] = "loaded" /\ entity[c] \in AccountRow /\ target[c] \in Users
        /\ account[target[c]] \in AccountRow
    BY <1>8 DEF SaveSelect, TypeOK, CallOK, Waiting, Saving
  <2>2. cols \subseteq AccountColumns
    BY <2>1, ChangedAccount
  <2>3. /\ pc' = [pc EXCEPT ![c] = "diffed"] /\ changed' = [changed EXCEPT ![c] = cols]
        /\ UNCHANGED tables /\ UNCHANGED <<op, target, entity>>
    BY <1>8 DEF SaveSelect
  <2> HIDE DEF cols
  <2>4. TypeOK'
    BY <2>2, <2>3 DEF TypeOK, tables, Waiting
  <2>5. CallOK' /\ EntityOK'
    BY <2>1, <2>3 DEF TypeOK, CallOK, EntityOK, tables, Waiting, Saving
  <2> QED
    BY <2>3, <2>4, <2>5, TablesKept
<1>9. ASSUME NEW c \in Calls, SaveUpdate(c) PROVE AccountsInv'
  <2> DEFINE u == target[c]
             row == Updated(account[u], entity[c], changed[c])
             more == IF op[c] = "suspend"
                       THEN [suspensions EXCEPT ![u] = suspensions[u] + 1]
                       ELSE suspensions
  <2>1. /\ pc[c] = "diffed" /\ u \in Users /\ entity[c] \in AccountRow
        /\ account[u] \in AccountRow /\ account[u] # NULL
    BY <1>9 DEF SaveUpdate, TypeOK, CallOK, Waiting, Saving
  <2>2. /\ row \in AccountRow /\ row # NULL
        /\ row.status \in {account[u].status, entity[c].status}
        /\ row.suspensionCount \in {account[u].suspensionCount, entity[c].suspensionCount}
        /\ row.iqamaNumber = IF "iqamaNumber" \in changed[c]
                               THEN entity[c].iqamaNumber ELSE account[u].iqamaNumber
    BY <2>1, UpdatedAccount, AccountsAssumption
  <2>3. /\ account' = [account EXCEPT ![u] = row] /\ suspensions' = more
        /\ granted' = IF op[c] \in Approval THEN granted \cup {u} ELSE granted
        /\ UNCHANGED <<role, track, appointed>> /\ ~IqamaClash(c)
    BY <1>9 DEF SaveUpdate, Approval
  <2>4. /\ more \in [Users -> Nat]
        /\ \A v \in Users : suspensions[v] <= more[v]
        /\ more[u] = suspensions[u] + Added(op[c])
    BY <2>1 DEF TypeOK, Added
  <2>5. /\ row.suspensionCount \in Nat /\ row.suspensionCount <= more[u]
    <3>1. /\ account[u].suspensionCount <= suspensions[u]
          /\ entity[c].suspensionCount <= suspensions[u] + Added(op[c])
      BY <2>1 DEF SuspensionsNotOvercounted, EntityOK
    <3>2. /\ account[u].suspensionCount \in Nat /\ entity[c].suspensionCount \in Nat
          /\ suspensions[u] \in Nat /\ Added(op[c]) \in Nat
      BY <2>1 DEF AccountRow, TypeOK, Added
    <3> HIDE DEF row, more
    <3> QED
      BY <2>2, <2>4, <3>1, <3>2
  <2>6. row.status = "ACTIVE" => u \in granted'
    BY <2>1, <2>2, <2>3 DEF ActiveOnlyIfGranted, EntityOK
  <2>unshared. \A v \in Users \ {u} :
           account[v] # NULL => account[v].iqamaNumber # row.iqamaNumber
    BY <2>1, <2>2, <2>3 DEF IqamaClash, OneProviderPerIqama
  <2> HIDE DEF u, row, more
  <2>7. /\ account' \in [Users -> AccountRow \cup {NULL}]
        /\ granted \subseteq granted' /\ granted' \subseteq Users
        /\ \A v \in Users : account[v] # NULL => account'[v] # NULL
    BY <2>1, <2>2, <2>3 DEF TypeOK
  <2>8. TypeOK' /\ CallOK' /\ EntityOK'
    <3>1. CASE EndCall(c, "ok")
      BY <2>3, <2>4, <2>7, <3>1, CallEnds DEF TypeOK, Ended
    <3>2. CASE /\ pc' = [pc EXCEPT ![c] = "stored"]
               /\ UNCHANGED <<op, target, entity, changed>>
      <4>1. TypeOK'
        BY <2>3, <2>4, <2>7, <3>2 DEF TypeOK, Waiting
      <4>2. CallOK'
        BY <2>1, <2>7, <3>2 DEF TypeOK, CallOK, Waiting, Saving
      <4>3. ASSUME NEW d \in Calls, pc'[d] \in {"loaded", "diffed"}
            PROVE  /\ entity'[d].status = "ACTIVE"
                        => target'[d] \in granted' \/ op'[d] \in Approval
                   /\ entity'[d].suspensionCount
                        <= suspensions'[target'[d]] + Added(op'[d])
        <5>1. /\ pc[d] \in {"loaded", "diffed"} /\ entity[d] \in AccountRow
              /\ target[d] \in Users
          BY <3>2, <4>3 DEF TypeOK, CallOK, Waiting, Saving
        <5>2. /\ entity[d].suspensionCount \in Nat /\ Added(op[d]) \in Nat
              /\ suspensions[target[d]] \in Nat /\ suspensions'[target[d]] \in Nat
              /\ suspensions[target[d]] <= suspensions'[target[d]]
          BY <2>3, <2>4, <5>1 DEF AccountRow, Added, TypeOK
        <5>3. /\ entity[d].status = "ACTIVE"
                   => target[d] \in granted \/ op[d] \in Approval
              /\ entity[d].suspensionCount <= suspensions[target[d]] + Added(op[d])
          BY <5>1 DEF EntityOK
        <5> QED
          BY <2>7, <3>2, <5>2, <5>3
      <4> QED
        BY <4>1, <4>2, <4>3 DEF EntityOK
    <3> QED
      BY <1>9, <3>1, <3>2 DEF SaveUpdate
  <2>9. ActiveOnlyIfGranted'
    BY <2>1, <2>3, <2>6, <2>7 DEF TypeOK, ActiveOnlyIfGranted
  <2>10. SuspensionsNotOvercounted'
    <3>1. ASSUME NEW v \in Users, account'[v] # NULL
          PROVE  account'[v].suspensionCount <= suspensions'[v]
      <4>1. CASE v = u
        BY <2>1, <2>3, <2>5, <4>1 DEF TypeOK
      <4>2. CASE v # u
        <5>1. account'[v] = account[v] /\ account[v] \in AccountRow
          BY <2>3, <3>1, <4>2 DEF TypeOK
        <5>2. account[v].suspensionCount <= suspensions[v]
          BY <3>1, <5>1 DEF SuspensionsNotOvercounted
        <5>3. /\ account[v].suspensionCount \in Nat /\ suspensions[v] \in Nat
              /\ suspensions'[v] \in Nat /\ suspensions[v] <= suspensions'[v]
          BY <2>3, <2>4, <5>1 DEF AccountRow, TypeOK
        <5> QED
          BY <5>1, <5>2, <5>3
      <4> QED
        BY <4>1, <4>2
    <3> QED
      BY <3>1 DEF SuspensionsNotOvercounted
  <2>11. OneProviderPerIqama'
    BY <2>1, <2>3, <2>unshared DEF TypeOK, OneProviderPerIqama
  <2>12. RoleFollowsRow'
    BY <2>3, <2>7 DEF RoleFollowsRow
  <2> QED
    BY <2>8, <2>9, <2>10, <2>11, <2>12
<1>10. ASSUME NEW c \in Calls, RecordLocation(c) PROVE AccountsInv'
  <2>1. \A u \in Users : suspensions[u] <= suspensions[u]
    BY DEF TypeOK
  <2>2. TypeOK' /\ CallOK' /\ EntityOK'
    BY <1>10, <2>1, CallEnds DEF RecordLocation, TypeOK, Ended
  <2> QED
    BY <1>10, <2>2 DEF RecordLocation, ActiveOnlyIfGranted, SuspensionsNotOvercounted,
                       OneProviderPerIqama, RoleFollowsRow
<1>11. ASSUME NEW c \in Calls, Fail(c) PROVE AccountsInv'
  BY <1>1, <1>11 DEF Fail, Ended
<1>12. ASSUME NEW c \in Calls, SaveRefused(c) PROVE AccountsInv'
  BY <1>1, <1>12 DEF SaveRefused, Ended
<1>13. ASSUME NEW u \in Users, UpdateUser(u) PROVE AccountsInv'
  <2>1. PICK r \in {"CUSTOMER", "PROVIDER"} :
          /\ role' = [role EXCEPT ![u] = r]
          /\ appointed' = IF r = "PROVIDER" THEN appointed \cup {u} ELSE appointed
          /\ UNCHANGED <<account, track, granted, suspensions, calls>>
    BY <1>13 DEF UpdateUser
  <2>2. TypeOK'
    BY <2>1 DEF TypeOK, calls
  <2>3. CallOK' /\ EntityOK'
    BY <2>1 DEF CallOK, EntityOK, calls
  <2>4. RoleFollowsRow'
    BY <2>1 DEF TypeOK, RoleFollowsRow
  <2> QED
    BY <2>1, <2>2, <2>3, <2>4 DEF ActiveOnlyIfGranted, SuspensionsNotOvercounted,
                                  OneProviderPerIqama
<1>14. CASE UNCHANGED vars
  BY <1>14 DEF vars, tables, calls, TypeOK, CallOK, EntityOK, ActiveOnlyIfGranted,
               SuspensionsNotOvercounted, OneProviderPerIqama, RoleFollowsRow
<1> QED
  BY <1>4, <1>5, <1>6, <1>7, <1>8, <1>9, <1>10, <1>11, <1>12,
     <1>13, <1>14 DEF Next, Continue

\* The invariant holds in every state.
LEMMA Accounting == Spec => []AccountsInv
  BY InitHolds, StepHolds, PTL DEF Spec

\* Every column keeps its type, whatever entity is written back stale.
THEOREM TypeCorrect == Spec => []TypeOK
<1>1. AccountsInv => TypeOK
  BY DEF AccountsInv
<1> QED
  BY <1>1, Accounting, PTL

\* No interleaving of stale saves activates a provider nobody approved.
THEOREM ActiveGranted == Spec => []ActiveOnlyIfGranted
<1>1. AccountsInv => ActiveOnlyIfGranted
  BY DEF AccountsInv
<1> QED
  BY <1>1, Accounting, PTL

\* No interleaving of stale saves counts a suspension nobody ordered.
THEOREM SuspensionsReal == Spec => []SuspensionsNotOvercounted
<1>1. AccountsInv => SuspensionsNotOvercounted
  BY DEF AccountsInv
<1> QED
  BY <1>1, Accounting, PTL

\* However registrations, changes of the number and stale saves interleave, an
\* iqama number has one provider.
THEOREM IqamaUnique == Spec => []OneProviderPerIqama
<1>1. AccountsInv => OneProviderPerIqama
  BY DEF AccountsInv
<1> QED
  BY <1>1, Accounting, PTL

\* However registrations interleave and fail, who has the role of a provider
\* without the row of one was given it by another way than register.
THEOREM RoleHasRow == Spec => []RoleFollowsRow
<1>1. AccountsInv => RoleFollowsRow
  BY DEF AccountsInv
<1> QED
  BY <1>1, Accounting, PTL

-----------------------------------------------------------------------------
(***************************************************************************)
(* A lock on the provider's row.  Any number of calls may be under way, as *)
(* long as no two hold the entity of the same provider: then the entity a  *)
(* call saves differs from the row in its handler's own columns only, and  *)
(* the save stores it whole.                                               *)
(***************************************************************************)
Holds(c) == pc[c] \in {"loaded", "diffed"}

RowsLocked ==
  \A c, d \in Calls : Holds(c) /\ Holds(d) /\ target[c] = target[d] => c = d

\* What the UPDATE does not write is in the entity already.
Covers(c) ==
  \A col \in AccountColumns :
    col \in changed[c] \/ entity[c][col] = account[target[c]][col]

LockedInv ==
  /\ \A c \in Calls : Holds(c) => Assigned(op[c], account[target[c]], entity[c])
  /\ \A c \in Calls : pc[c] = "diffed" => Covers(c)
  /\ \A u \in Users : suspensions[u] = Seeded(u)

\* An administrator's suspension is counted on the row it was ordered for.
SuspensionsCounted ==
  \A u \in Users : account[u] # NULL => account[u].suspensionCount = suspensions[u]

\* A save changes no column of the row but those its handler is about.
OwnColumnsOnly ==
  [][\A c \in Calls :
       pc[c] = "diffed" /\ pc'[c] \in {"ok", "stored"} =>
         \A col \in AccountColumns \ Writes(op[c]) :
           account'[target[c]][col] = account[target[c]][col]]_vars

\* What has to be shown of a step of call c: what it has decided, if it still
\* holds the row, that it has touched no row another call holds, and the counts.
LEMMA LockedFrame ==
  ASSUME TypeOK, LockedInv, NEW c \in Calls, NEW x, pc' = [pc EXCEPT ![c] = x],
         \A d \in Calls \ {c} :
           /\ op'[d] = op[d] /\ entity'[d] = entity[d]
           /\ target'[d] = target[d] /\ changed'[d] = changed[d]
           /\ Holds(d) => account'[target[d]] = account[target[d]],
         x \in {"loaded", "diffed"} => Assigned(op[c], account[target[c]], entity[c])',
         x = "diffed" => Covers(c)',
         \A u \in Users : suspensions'[u] = Seeded(u)'
  PROVE  LockedInv'
<1>1. \A d \in Calls : pc'[d] = IF d = c THEN x ELSE pc[d]
  BY DEF TypeOK
<1>2. ASSUME NEW d \in Calls, Holds(d)'
      PROVE  Assigned(op[d], account[target[d]], entity[d])'
  <2>1. CASE d = c
    BY <1>1, <1>2, <2>1 DEF Holds
  <2>2. CASE d # c
    BY <1>1, <1>2, <2>2 DEF Holds, LockedInv
  <2> QED
    BY <2>1, <2>2
<1>3. ASSUME NEW d \in Calls, (pc[d] = "diffed")' PROVE Covers(d)'
  <2>1. CASE d = c
    BY <1>1, <1>3, <2>1
  <2>2. CASE d # c
    <3>1. Holds(d) /\ Covers(d)
      BY <1>1, <1>3, <2>2 DEF Holds, LockedInv
    <3> QED
      BY <2>2, <3>1 DEF Covers
  <2> QED
    BY <2>1, <2>2
<1> QED
  BY <1>2, <1>3 DEF LockedInv

\* A step of call c that leaves the table and the other calls alone, and after
\* which c holds no row.
LEMMA LockedIdle ==
  ASSUME TypeOK, LockedInv, NEW c \in Calls, NEW x, x \notin {"loaded", "diffed"},
         pc' = [pc EXCEPT ![c] = x], UNCHANGED <<account, suspensions>>,
         \A d \in Calls \ {c} : /\ op'[d] = op[d] /\ entity'[d] = entity[d]
                                /\ target'[d] = target[d] /\ changed'[d] = changed[d]
  PROVE  LockedInv'
<1>1. \A u \in Users : suspensions'[u] = Seeded(u)'
  BY DEF LockedInv, Seeded
<1> QED
  BY <1>1, LockedFrame

\* The save of an entity stores it.
LEMMA SavedWhole ==
  ASSUME AccountsInv, LockedInv, NEW c \in Calls, SaveUpdate(c)
  PROVE  /\ pc[c] = "diffed" /\ target[c] \in Users /\ op[c] \in SaveOp
         /\ account[target[c]] \in AccountRow /\ account[target[c]] # NULL
         /\ entity[c] \in AccountRow
         /\ account' = [account EXCEPT ![target[c]] = entity[c]]
<1>1. /\ pc[c] = "diffed" /\ target[c] \in Users /\ op[c] \in SaveOp
      /\ account[target[c]] \in AccountRow /\ account[target[c]] # NULL
      /\ entity[c] \in AccountRow
  BY DEF SaveUpdate, AccountsInv, TypeOK, CallOK, Waiting, Saving
<1>2. Covers(c)
  BY <1>1 DEF LockedInv
<1>3. Updated(account[target[c]], entity[c], changed[c]) = entity[c]
  <2>1. /\ DOMAIN account[target[c]] = AccountColumns
        /\ DOMAIN entity[c] = AccountColumns
        /\ entity[c] = [col \in AccountColumns |-> entity[c][col]]
    BY <1>1 DEF AccountRow, AccountColumns
  <2> QED
    BY <2>1, <1>2 DEF Updated, Covers
<1> QED
  BY <1>1, <1>3 DEF SaveUpdate

\* While the rows are locked, every step keeps what the calls have decided.
LEMMA LockedStep ==
  ASSUME RowsLocked, AccountsInv, LockedInv, [Next]_vars
  PROVE  LockedInv'
<1> USE DEF AccountsInv
<1>1. ASSUME NEW c \in Calls, NEW outcome \in Ended, EndCall(c, outcome),
             UNCHANGED <<account, suspensions>>
      PROVE  LockedInv'
  <2>1. outcome \notin {"loaded", "diffed"} /\ pc' = [pc EXCEPT ![c] = outcome]
    BY <1>1 DEF EndCall, Ended
  <2>2. \A d \in Calls \ {c} : /\ op'[d] = op[d] /\ entity'[d] = entity[d]
                                /\ target'[d] = target[d] /\ changed'[d] = changed[d]
    BY <1>1 DEF EndCall, TypeOK
  <2> QED
    BY <1>1, <2>1, <2>2, LockedIdle
<1>2. ASSUME NEW c \in Calls, NEW u \in Users, LoadStep(c, u) PROVE LockedInv'
  <2>1. PICK o \in SaveOp, e \in AccountRow :
          LoadAs(c, o, u, e) /\ Assigned(o, account[u], e)
    BY <1>2 DEF LoadStep
  <2>2. /\ pc' = [pc EXCEPT ![c] = "loaded"] /\ op'[c] = o /\ target'[c] = u
        /\ entity'[c] = e /\ UNCHANGED <<account, suspensions, changed>>
    BY <2>1 DEF LoadAs, tables, TypeOK
  <2>3. \A d \in Calls \ {c} : /\ op'[d] = op[d] /\ entity'[d] = entity[d]
                                /\ target'[d] = target[d] /\ changed'[d] = changed[d]
    BY <2>1 DEF LoadAs, TypeOK
  <2>4. \A v \in Users : suspensions'[v] = Seeded(v)'
    BY <2>2 DEF LockedInv, Seeded
  <2>5. Assigned(op[c], account[target[c]], entity[c])'
    BY <2>1, <2>2
  <2> QED
    BY <2>2, <2>3, <2>4, <2>5, LockedFrame
<1>3. ASSUME NEW c \in Calls, NEW u \in Users, RegisterCheck(c, u) \/ Missing(c, u)
      PROVE  LockedInv'
  <2>1. /\ \E x \in {"free", "refused"} : pc' = [pc EXCEPT ![c] = x]
        /\ UNCHANGED <<account, suspensions>>
        /\ \A d \in Calls \ {c} : /\ op'[d] = op[d] /\ entity'[d] = entity[d]
                                  /\ target'[d] = target[d] /\ changed'[d] = changed[d]
    BY <1>3 DEF RegisterCheck, Missing, tables, TypeOK
  <2> QED
    BY <2>1, LockedIdle
<1>4. ASSUME NEW c \in Calls, NEW u \in Users, Request(c, u) PROVE LockedInv'
  BY <1>2, <1>3, <1>4, LoadSteps DEF Request
<1>5. ASSUME NEW c \in Calls, RegisterIqama(c) PROVE LockedInv'
  <2>1. CASE EndCall(c, "refused")
    BY <1>1, <1>5, <2>1 DEF RegisterIqama, tables, Ended
  <2>2. CASE /\ pc' = [pc EXCEPT ![c] = "unique"]
             /\ UNCHANGED <<op, target, entity, changed>>
    BY <1>5, <2>2, LockedIdle DEF RegisterIqama, tables
  <2> QED
    BY <1>5, <2>1, <2>2 DEF RegisterIqama
<1>6. ASSUME NEW c \in Calls, RegisterInsert(c) PROVE LockedInv'
  <2> DEFINE u == target[c]
             row == entity[c]
  <2>1. CASE account[u] # NULL \/ IqamaTaken(row.iqamaNumber)
    BY <1>1, <1>6, <2>1 DEF RegisterInsert, Ended
  <2>2. CASE ~(account[u] # NULL \/ IqamaTaken(row.iqamaNumber))
    <3>1. /\ account' = [account EXCEPT ![u] = row] /\ account[u] = NULL
          /\ pc' = [pc EXCEPT ![c] = "inserted"] /\ u \in Users
          /\ UNCHANGED <<op, target, entity, changed, suspensions>>
          /\ row.suspensionCount = 0
      BY <1>6, <2>2 DEF RegisterInsert, CallOK, NewRow, Waiting
    <3>2. \A v \in Users : suspensions'[v] = Seeded(v)'
      BY <3>1 DEF LockedInv, Seeded, TypeOK
    <3>3. \A d \in Calls \ {c} : Holds(d) => account'[target[d]] = account[target[d]]
      BY <3>1 DEF Holds, CallOK, Saving, Waiting, TypeOK
    <3> QED
      BY <3>1, <3>2, <3>3, LockedFrame
  <2> QED
    BY <2>1, <2>2
<1>7. ASSUME NEW c \in Calls,
             RegisterRole(c) \/ RecordLocation(c) \/ SaveRefused(c) \/ Fail(c)
      PROVE  LockedInv'
  <2>1. UNCHANGED <<account, suspensions>> /\ \E x \in Ended : EndCall(c, x)
    BY <1>7 DEF RegisterRole, RecordLocation, SaveRefused, Fail, tables, Ended
  <2> QED
    BY <1>1, <2>1
<1>8. ASSUME NEW c \in Calls, SaveSelect(c) PROVE LockedInv'
  <2>1. /\ pc[c] = "loaded" /\ pc' = [pc EXCEPT ![c] = "diffed"]
        /\ UNCHANGED <<account, suspensions, op, target, entity>>
        /\ changed'[c] = Changed(entity[c], account[target[c]], Fresh(op[c]))
        /\ \A d \in Calls \ {c} : changed'[d] = changed[d]
        /\ account[target[c]] \in AccountRow
    BY <1>8 DEF SaveSelect, tables, TypeOK, CallOK, Waiting, Saving
  <2>2. Assigned(op[c], account[target[c]], entity[c])'
    BY <2>1 DEF LockedInv, Holds
  <2>3. DOMAIN account[target[c]] = AccountColumns
    BY <2>1 DEF AccountRow, AccountColumns
  <2>4. Covers(c)'
    BY <2>1, <2>3 DEF Covers, Changed
  <2>5. \A v \in Users : suspensions'[v] = Seeded(v)'
    BY <2>1 DEF LockedInv, Seeded
  <2> QED
    BY <2>1, <2>2, <2>4, <2>5, LockedFrame
<1>9. ASSUME NEW c \in Calls, SaveUpdate(c) PROVE LockedInv'
  <2>1. /\ pc[c] = "diffed" /\ target[c] \in Users
        /\ account[target[c]] \in AccountRow /\ account[target[c]] # NULL
        /\ entity[c] \in AccountRow /\ entity[c] # NULL
        /\ account' = [account EXCEPT ![target[c]] = entity[c]]
    BY <1>9, SavedWhole, AccountsAssumption
  <2>2. Assigned(op[c], account[target[c]], entity[c])
    BY <2>1 DEF LockedInv, Holds
  <2>3. PICK x \in {"ok", "stored"} : pc' = [pc EXCEPT ![c] = x]
    BY <1>9 DEF SaveUpdate, EndCall
  <2>4. \A d \in Calls \ {c} : /\ op'[d] = op[d] /\ entity'[d] = entity[d]
                                /\ target'[d] = target[d] /\ changed'[d] = changed[d]
    BY <1>9 DEF SaveUpdate, EndCall, TypeOK
  <2>5. \A d \in Calls \ {c} : Holds(d) => account'[target[d]] = account[target[d]]
    BY <2>1 DEF RowsLocked, Holds, TypeOK, CallOK, Waiting
  <2>6. suspensions'[target[c]] = entity[c].suspensionCount
    <3>1. /\ suspensions[target[c]] = account[target[c]].suspensionCount
          /\ account[target[c]].suspensionCount \in Nat
      BY <2>1 DEF LockedInv, Seeded, AccountRow
    <3>2. suspensions'[target[c]] = suspensions[target[c]] + Added(op[c])
      BY <1>9, <2>1, <3>1 DEF SaveUpdate, Added, TypeOK
    <3> QED
      BY <2>2, <3>1, <3>2 DEF Assigned
  <2>7. ASSUME NEW v \in Users PROVE suspensions'[v] = Seeded(v)'
    <3>1. CASE v = target[c]
      BY <2>1, <2>6, <3>1 DEF Seeded, TypeOK
    <3>2. CASE v # target[c]
      <4>1. suspensions'[v] = suspensions[v]
        BY <1>9, <3>2 DEF SaveUpdate, TypeOK
      <4>2. account'[v] = account[v]
        BY <2>1, <3>2 DEF TypeOK
      <4> QED
        BY <4>1, <4>2 DEF LockedInv, Seeded
    <3> QED
      BY <3>1, <3>2
  <2> QED
    <3>1. \A d \in Calls \ {c} :
            /\ op'[d] = op[d] /\ entity'[d] = entity[d]
            /\ target'[d] = target[d] /\ changed'[d] = changed[d]
            /\ Holds(d) => account'[target[d]] = account[target[d]]
      BY <2>4, <2>5
    <3>2. x # "loaded" /\ x # "diffed"
      BY <2>3
    <3>3. \A v \in Users : suspensions'[v] = Seeded(v)'
      BY <2>7
    <3>4. TypeOK /\ LockedInv
      OBVIOUS
    <3> HIDE DEF AccountsInv
    <3> QED
      BY <2>3, <3>1, <3>2, <3>3, <3>4, LockedFrame
<1>10. CASE UNCHANGED vars
  BY <1>10 DEF vars, tables, calls, LockedInv, Holds, Covers, Seeded
<1>11. ASSUME NEW u \in Users, UpdateUser(u) PROVE LockedInv'
  BY <1>11 DEF UpdateUser, calls, LockedInv, Holds, Covers, Seeded
<1> QED
  BY <1>4, <1>5, <1>6, <1>7, <1>8, <1>9, <1>10, <1>11 DEF Next, Continue

\* At first nobody holds a row, and the seeded suspensions are all there are.
LEMMA LockedInit == Init => LockedInv
  BY DEF Init, LockedInv, Holds, Seeded

\* The invariant and the lock's, for as long as the rows are locked.
LEMMA Locked == Spec /\ []RowsLocked => [](AccountsInv /\ LockedInv)
<1>1. RowsLocked /\ AccountsInv /\ LockedInv /\ [Next]_vars
        => (AccountsInv /\ LockedInv)'
  BY StepHolds, LockedStep
<1> QED
  BY <1>1, InitHolds, LockedInit, PTL DEF Spec

\* A call leaves "diffed" with its save done by its own SaveUpdate only.
LEMMA OnlyItsSave ==
  ASSUME AccountsInv, Next, NEW c \in Calls, pc[c] = "diffed",
         pc'[c] \in {"ok", "stored"}
  PROVE  SaveUpdate(c)
<1> USE DEF AccountsInv
<1>1. ASSUME NEW d \in Calls, NEW x, pc' = [pc EXCEPT ![d] = x] PROVE d = c /\ x = pc'[c]
  BY <1>1 DEF TypeOK
<1>2. ASSUME NEW d \in Calls, NEW u \in Users, Request(d, u) PROVE FALSE
  <2>1. pc[d] = "idle" /\ \E x : pc' = [pc EXCEPT ![d] = x]
    BY <1>2, LoadSteps DEF Request, RegisterCheck, Missing, LoadStep, LoadAs, CanStart
  <2> QED
    BY <1>1, <2>1
<1>3. ASSUME NEW d \in Calls, Continue(d) \/ Fail(d) PROVE SaveUpdate(c)
  <2>1. \E x : pc' = [pc EXCEPT ![d] = x]
    BY <1>3 DEF Continue, RegisterIqama, RegisterInsert, RegisterRole, SaveSelect,
       SaveUpdate, SaveRefused, RecordLocation, Fail, EndCall
  <2>2. d = c
    BY <1>1, <2>1
  <2>3. ~Fail(d) /\ ~SaveRefused(d)
    BY <2>2 DEF Fail, SaveRefused, EndCall, TypeOK
  <2> QED
    BY <1>3, <2>2, <2>3 DEF Continue, RegisterIqama, RegisterInsert, RegisterRole,
       SaveSelect, RecordLocation
<1>4. ASSUME NEW u \in Users, UpdateUser(u) PROVE FALSE
  BY <1>4 DEF UpdateUser, calls
<1> QED
  BY <1>2, <1>3, <1>4 DEF Next

\* As long as no two calls hold the same provider, a save changes no column but
\* its handler's own: no approval, suspension or completion is written over.
THEOREM OwnColumnsUnderLock == Spec /\ []RowsLocked => OwnColumnsOnly
<1> DEFINE Own == \A c \in Calls :
      pc[c] = "diffed" /\ pc'[c] \in {"ok", "stored"} =>
        \A col \in AccountColumns \ Writes(op[c]) :
          account'[target[c]][col] = account[target[c]][col]
<1>1. AccountsInv /\ LockedInv /\ [Next]_vars => [Own]_vars
  <2> SUFFICES ASSUME AccountsInv, LockedInv, Next, NEW c \in Calls,
                      pc[c] = "diffed", pc'[c] \in {"ok", "stored"}
               PROVE  \A col \in AccountColumns \ Writes(op[c]) :
                        account'[target[c]][col] = account[target[c]][col]
    OBVIOUS
  <2>1. SaveUpdate(c)
    BY OnlyItsSave
  <2>2. account'[target[c]] = entity[c]
    BY <2>1, SavedWhole DEF AccountsInv, TypeOK
  <2>3. Assigned(op[c], account[target[c]], entity[c])
    BY DEF LockedInv, Holds
  <2> QED
    BY <2>2, <2>3 DEF Assigned
<1> QED
  BY <1>1, Locked, PTL DEF Spec, OwnColumnsOnly

\* Under the same lock updateLocation's UPDATE changes the location and nothing
\* else of the row.
THEOREM LocationOnlyUnderLock == Spec /\ []RowsLocked => LocationOnly
<1> DEFINE Own == \A c \in Calls :
      op[c] = "updateLocation" /\ pc[c] = "diffed" /\ pc'[c] = "stored" =>
        account'[target[c]] = Assign(account[target[c]], [locationUpdatedAt |-> TRUE])
<1>1. AccountsInv /\ LockedInv /\ [Next]_vars => [Own]_vars
  <2> SUFFICES ASSUME AccountsInv, LockedInv, Next, NEW c \in Calls,
                      op[c] = "updateLocation", pc[c] = "diffed", pc'[c] = "stored"
               PROVE  account'[target[c]]
                        = Assign(account[target[c]], [locationUpdatedAt |-> TRUE])
    OBVIOUS
  <2>1. SaveUpdate(c)
    BY OnlyItsSave
  <2>2. /\ account'[target[c]] = entity[c] /\ entity[c] \in AccountRow
        /\ account[target[c]] \in AccountRow
    BY <2>1, SavedWhole DEF AccountsInv, TypeOK
  <2>3. Assigned("updateLocation", account[target[c]], entity[c])
    BY DEF LockedInv, Holds
  <2>4. \A col \in AccountColumns :
          entity[c][col] = IF col = "locationUpdatedAt" THEN TRUE
                                                        ELSE account[target[c]][col]
    BY <2>3 DEF Assigned, Writes, AccountColumns
  <2>5. /\ DOMAIN account[target[c]] = AccountColumns
        /\ DOMAIN entity[c] = AccountColumns
        /\ entity[c] = [col \in AccountColumns |-> entity[c][col]]
    BY <2>2 DEF AccountRow, AccountColumns
  <2> DEFINE patch == [locationUpdatedAt |-> TRUE]
  <2>6. DOMAIN patch = {"locationUpdatedAt"} /\ patch["locationUpdatedAt"] = TRUE
    OBVIOUS
  <2> HIDE DEF patch
  <2>7. account'[target[c]] = Assign(account[target[c]], patch)
    BY <2>2, <2>4, <2>5, <2>6 DEF Assign
  <2> QED
    BY <2>7 DEF patch
<1> QED
  BY <1>1, Locked, PTL DEF Spec, LocationOnly

\* Under the same lock every suspension an administrator's call has stored is
\* counted: none is lost to a stale save.
THEOREM SuspensionsCountedUnderLock == Spec /\ []RowsLocked => []SuspensionsCounted
<1>1. LockedInv => SuspensionsCounted
  BY DEF LockedInv, SuspensionsCounted, Seeded
<1> QED
  BY <1>1, Locked, PTL

-----------------------------------------------------------------------------
(***************************************************************************)
(* One call at a time: a call that is alone holds its row alone.           *)
(***************************************************************************)
OneAtATime == \A c, d \in Calls : pc[c] \in Waiting /\ pc[d] \in Waiting => c = d

Alone(c) == \A d \in Calls : pc[d] \in Waiting => d = c

\* With one slot, the call that takes it is alone.
LEMMA AloneToStart ==
  ASSUME MaxInFlight = 1, NEW c \in Calls, CanStart(c)
  PROVE  Alone(c)
<1>1. IsFiniteSet(InFlight)
  <2>1. InFlight \subseteq Calls
    BY DEF InFlight
  <2> QED
    BY <2>1, FS_Subset, AccountsAssumption
<1>2. Cardinality(InFlight) \in Nat /\ Cardinality(InFlight) < 1
  BY <1>1, FS_CardinalityType DEF CanStart
<1>3. InFlight = {}
  BY <1>1, <1>2, FS_EmptySet
<1> QED
  BY <1>3 DEF InFlight, Alone

\* With one slot, a step is one of the call that is under way, or of one that
\* finds nobody under way.
LEMMA OneAtATimeStep ==
  ASSUME MaxInFlight = 1, TypeOK, OneAtATime, [Next]_vars
  PROVE  OneAtATime'
<1>1. ASSUME NEW c \in Calls, Alone(c), NEW x, pc' = [pc EXCEPT ![c] = x]
      PROVE  OneAtATime'
  BY <1>1 DEF Alone, OneAtATime, TypeOK
<1>2. ASSUME NEW c \in Calls, NEW u \in Users, Request(c, u) PROVE OneAtATime'
  <2>1. CanStart(c) /\ \E x : pc' = [pc EXCEPT ![c] = x]
    BY <1>2, LoadSteps DEF Request, RegisterCheck, Missing, LoadStep, LoadAs
  <2> QED
    BY <1>1, <2>1, AloneToStart
<1>3. ASSUME NEW c \in Calls, Continue(c) \/ Fail(c) PROVE OneAtATime'
  <2>1. pc[c] \in Waiting /\ \E x : pc' = [pc EXCEPT ![c] = x]
    BY <1>3 DEF Continue, RegisterIqama, RegisterInsert, RegisterRole, SaveSelect,
       SaveUpdate, SaveRefused, RecordLocation, Fail, EndCall, Waiting
  <2>2. Alone(c)
    BY <2>1 DEF OneAtATime, Alone
  <2> QED
    BY <1>1, <2>1, <2>2
<1>4. CASE UNCHANGED vars
  BY <1>4 DEF vars, calls, OneAtATime
<1>5. ASSUME NEW u \in Users, UpdateUser(u) PROVE OneAtATime'
  BY <1>5 DEF UpdateUser, calls, OneAtATime
<1> QED
  BY <1>2, <1>3, <1>4, <1>5 DEF Next

\* One call at a time keeps the rows locked.
LEMMA SerialLocks == ASSUME MaxInFlight = 1 PROVE Spec => []RowsLocked
<1>1. Init => OneAtATime
  BY DEF Init, OneAtATime, Waiting
<1>2. TypeOK /\ OneAtATime /\ [Next]_vars => OneAtATime'
  BY OneAtATimeStep
<1>3. OneAtATime => RowsLocked
  BY DEF OneAtATime, RowsLocked, Holds, Waiting
<1> QED
  BY <1>1, <1>2, <1>3, TypeCorrect, PTL DEF Spec

\* Served one at a time, updateLocation's UPDATE changes the location only.
THEOREM LocationOnlyAlone ==
  ASSUME MaxInFlight = 1
  PROVE  Spec => LocationOnly
BY SerialLocks, LocationOnlyUnderLock, PTL
=============================================================================
