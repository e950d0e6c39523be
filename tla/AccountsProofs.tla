--------------------------- MODULE AccountsProofs ---------------------------
(***************************************************************************)
(* What holds of users and codes for any number of users, phones, slots    *)
(* and codes, whatever requests interleave, fail and write back stale.     *)
(***************************************************************************)
EXTENDS Accounts, TLAPS

(***************************************************************************)
(* Rows.                                                                   *)
(***************************************************************************)

\* An UPDATE with an entity of the table's type leaves a row of that type,
\* verified only if the row or the entity was.
LEMMA UpdatedUser ==
  ASSUME NEW row \in UserRow, NEW e \in UserRow, NEW cols
  PROVE  /\ Updated(row, e, cols) \in UserRow
         /\ Updated(row, e, cols).phoneVerified \in {row.phoneVerified, e.phoneVerified}
         /\ Updated(row, e, cols).phone = IF "phone" \in cols THEN e.phone ELSE row.phone
<1>1. Updated(row, e, cols) \in UserRow
  BY DEF Updated, UserRow
<1>2. /\ Updated(row, e, cols).phoneVerified \in {row.phoneVerified, e.phoneVerified}
      /\ Updated(row, e, cols).phone = IF "phone" \in cols THEN e.phone ELSE row.phone
  BY DEF Updated, UserRow
<1> QED
  BY <1>1, <1>2

\* The columns of a pending UPDATE are columns of the table.
LEMMA ChangedUser ==
  ASSUME NEW row \in UserRow, NEW e \in UserRow
  PROVE  Changed(e, row, {}) \subseteq UserColumns
BY DEF Changed, UserRow, UserColumns

\* Assigning values of the columns' types leaves an entity of the table's type.
LEMMA AssignedUser ==
  ASSUME NEW row \in UserRow, NEW patch,
         "phone" \in DOMAIN patch => patch.phone \in Phones,
         "status" \in DOMAIN patch => patch.status \in Status,
         "phoneVerified" \in DOMAIN patch => patch.phoneVerified \in BOOLEAN,
         "password" \in DOMAIN patch => patch.password \in Passwords \cup {UNHASHED},
         "fcmTokens" \in DOMAIN patch => patch.fcmTokens \in SUBSET Tokens,
         "deletedAt" \in DOMAIN patch => patch.deletedAt \in BOOLEAN
  PROVE  /\ Assign(row, patch) \in UserRow
         /\ Assign(row, patch).phoneVerified
              = IF "phoneVerified" \in DOMAIN patch THEN patch.phoneVerified
                                                    ELSE row.phoneVerified
BY DEF Assign, UserRow

\* What a handler makes of the user it loaded is a user, verified only if it
\* was so or the handler is verifyOtp.
LEMMA PatchedUser ==
  ASSUME NEW row \in UserRow, NEW o \in Op, NEW patch \in Patches(o, row)
  PROVE  /\ Assign(row, patch) \in UserRow
         /\ Assign(row, patch).phoneVerified => row.phoneVerified \/ o = "verify"
<1>1. CASE o = "verify"
  <2>1. patch = [phoneVerified |-> TRUE, status |-> "ACTIVE"]
    BY <1>1 DEF Patches
  <2> QED
    BY <1>1, <2>1, AssignedUser DEF Status
<1>2. CASE o \in {"reset", "changePassword"}
  <2>1. PICK w \in Passwords : patch = [password |-> w]
    BY <1>2 DEF Patches
  <2> QED
    BY <2>1, AssignedUser
<1>3. CASE o = "addToken"
  <2>1. PICK t \in Tokens : patch = [fcmTokens |-> row.fcmTokens \cup {t}]
    BY <1>3 DEF Patches
  <2>2. row.fcmTokens \cup {t} \in SUBSET Tokens
    BY DEF UserRow
  <2> QED
    BY <2>1, <2>2, AssignedUser
<1>4. CASE o = "removeToken"
  <2>1. PICK t \in Tokens : patch = [fcmTokens |-> row.fcmTokens \ {t}]
    BY <1>4 DEF Patches
  <2>2. row.fcmTokens \ {t} \in SUBSET Tokens
    BY DEF UserRow
  <2> QED
    BY <2>1, <2>2, AssignedUser
<1>5. CASE o \in {"suspend", "ban", "activate", "unban"}
  <2>1. PICK st \in Status : patch = [status |-> st]
    BY <1>5 DEF Patches, Status
  <2> QED
    BY <2>1, AssignedUser
<1>6. CASE o = "update"
  <2>1. PICK n \in Phones, w \in {row.password, UNHASHED} :
          patch = [phone |-> n, password |-> w]
    BY <1>6 DEF Patches
  <2>2. w \in Passwords \cup {UNHASHED}
    BY DEF UserRow
  <2> QED
    BY <2>1, <2>2, AssignedUser
<1>7. CASE o = "remove"
  <2>1. patch = [deletedAt |-> TRUE]
    BY <1>7 DEF Patches
  <2> QED
    BY <2>1, AssignedUser
<1>8. CASE o \notin {"verify", "reset", "changePassword", "addToken", "removeToken",
                     "suspend", "ban", "activate", "unban", "update", "remove"}
  <2>1. patch = <<>>
    BY <1>8 DEF Patches
  <2> QED
    BY <2>1, AssignedUser
<1> QED
  BY <1>1, <1>2, <1>3, <1>4, <1>5, <1>6, <1>7, <1>8

\* A code that is marked, has had its effect or leaves its cooldown stays a code.
LEMMA AssignedOtp ==
  ASSUME NEW row \in OtpRow
  PROVE  /\ Assign(row, [isUsed |-> TRUE]) \in OtpRow
         /\ Assign(row, [isUsed |-> TRUE]).isUsed
         /\ Assign(row, [spent |-> row.spent + 1]) \in OtpRow
         /\ Assign(row, [spent |-> row.spent + 1]).isUsed = row.isUsed
         /\ Assign(row, [recent |-> FALSE]) \in OtpRow
         /\ Assign(row, [recent |-> FALSE]).isUsed = row.isUsed
         /\ Assign(row, [recent |-> FALSE]).spent = row.spent
<1>1. /\ Assign(row, [isUsed |-> TRUE]) \in OtpRow
      /\ Assign(row, [isUsed |-> TRUE]).isUsed
  BY DEF Assign, OtpRow
<1>2. /\ Assign(row, [spent |-> row.spent + 1]) \in OtpRow
      /\ Assign(row, [spent |-> row.spent + 1]).isUsed = row.isUsed
  BY DEF Assign, OtpRow
<1>3. /\ Assign(row, [recent |-> FALSE]) \in OtpRow
      /\ Assign(row, [recent |-> FALSE]).isUsed = row.isUsed
      /\ Assign(row, [recent |-> FALSE]).spent = row.spent
  BY DEF Assign, OtpRow
<1> QED
  BY <1>1, <1>2, <1>3

\* What register inserts is a user, not verified.
LEMMA NewUserRow ==
  ASSUME NEW n \in Phones, NEW w \in Passwords
  PROVE  /\ NewUser(n, w) \in UserRow /\ NewUser(n, w) # NULL
         /\ NewUser(n, w).phone = n /\ NewUser(n, w).password = w
         /\ NewUser(n, w).status = "PENDING_VERIFICATION"
         /\ ~NewUser(n, w).phoneVerified /\ ~NewUser(n, w).deletedAt
<1>1. NewUser(n, w) \in UserRow
  BY DEF NewUser, UserRow, Status
<1>2. /\ NewUser(n, w).phone = n /\ NewUser(n, w).password = w
      /\ NewUser(n, w).status = "PENDING_VERIFICATION"
      /\ ~NewUser(n, w).phoneVerified /\ ~NewUser(n, w).deletedAt
  BY DEF NewUser
<1> QED
  BY <1>1, <1>2, AccountsAssumption

-----------------------------------------------------------------------------
(***************************************************************************)
(* The invariant.  Beyond the tables it follows each request: the code a   *)
(* request was given is still there, is used once the request is past      *)
(* StoreUsed, and proves the number if the request is verifyOtp's; and an  *)
(* entity that says verified is of a user who has had a proven number.     *)
(***************************************************************************)
Coded == {"verify", "reset"}

SlotOK ==
  \A s \in Slots :
    /\ pc[s] \in Busy => op[s] \in Op
    /\ pc[s] \in {"absent", "created"} => op[s] \in {"register", "create"}
    /\ pc[s] \in {"absent", "created", "known", "sending", "matched", "burned"}
         => number[s] \in Phones
    /\ pc[s] \in {"created", "admitted", "checking", "loaded", "diffed"}
         => target[s] \in Users
    /\ pc[s] \in {"known", "sending"} => purpose[s] \in Purposes
    /\ pc[s] \in {"matched", "burned"} => op[s] \in Coded
    /\ pc[s] \in {"admitted", "checking"} => op[s] \notin Coded
    /\ pc[s] \in {"matched", "burned", "loaded", "diffed"} /\ op[s] \in Coded
         => code[s] \in OtpIds /\ otp[code[s]] # NULL
    /\ pc[s] \in {"checking", "loaded", "diffed"}
         => entity[s] \in UserRow /\ user[target[s]] # NULL

\* u has had a number whose code was accepted.
Earned(u) == had[u] \cap proven # {}

Proof ==
  \A s \in Slots :
    /\ pc[s] \in {"burned", "loaded", "diffed"} /\ op[s] \in Coded
         => otp[code[s]].isUsed
    /\ pc[s] = "burned" /\ op[s] = "verify" => number[s] \in proven
    /\ pc[s] \in {"checking", "loaded", "diffed"} /\ entity[s].phoneVerified
         => Earned(target[s])

OwnNumber == \A u \in Users : user[u] # NULL => user[u].phone \in had[u]

\* What the unique column phone sees to.
NumbersUnique ==
  \A u, v \in Users :
    user[u] # NULL /\ user[v] # NULL /\ user[u].phone = user[v].phone => u = v

TablesOK == VerifiedByOtp /\ UsedBeforeEffect /\ OwnNumber /\ NumbersUnique

AccountsInv == TypeOK /\ SlotOK /\ Proof /\ TablesOK

\* The seeded users satisfy it.
LEMMA InitHolds == Init => AccountsInv
<1> SUFFICES ASSUME Init PROVE AccountsInv
  OBVIOUS
<1>1. TypeOK
  BY AccountsAssumption DEF Init, TypeOK, Busy, Holders, UserRow
<1>2. SlotOK /\ Proof
  BY DEF Init, SlotOK, Proof, Busy
<1>3. OwnNumber /\ NumbersUnique /\ UsedBeforeEffect
  <2>1. \A u \in Users : user[u] # NULL => user[u].phone \in Phones
    BY <1>1 DEF TypeOK, UserRow
  <2> QED
    BY <2>1 DEF Init, OwnNumber, NumbersUnique, UsedBeforeEffect, Holders
<1>4. VerifiedByOtp
  <2> SUFFICES ASSUME NEW u \in Users, user[u] # NULL, user[u].phoneVerified
               PROVE  had[u] \cap proven # {}
    BY DEF VerifiedByOtp
  <2>1. user[u].phone \in Phones /\ u \in Holders(user[u].phone)
    BY <1>1 DEF TypeOK, UserRow, Holders
  <2> QED
    BY <2>1 DEF Init
<1> QED
  BY <1>1, <1>2, <1>3, <1>4 DEF AccountsInv, TablesOK

\* What holds of the tables holds as long as nothing is written.
LEMMA TablesKept ==
  ASSUME TablesOK, UNCHANGED <<user, otp, had, proven>>
  PROVE  TablesOK'
BY DEF TablesOK, VerifiedByOtp, UsedBeforeEffect, OwnNumber, NumbersUnique

\* A request that is answered leaves an idle slot behind, and lets the tables
\* grow as other requests expect.
LEMMA FinishHolds ==
  ASSUME AccountsInv, NEW s \in Slots, Finish(s),
         user' \in [Users -> UserRow \cup {NULL}], wallet' \subseteq Users,
         otp' \in [OtpIds -> OtpRow \cup {NULL}], proven' = proven, failures' \in Nat,
         had' \in [Users -> SUBSET Phones], \A u \in Users : had[u] \subseteq had'[u],
         \A u \in Users : user[u] # NULL => user'[u] # NULL,
         \A i \in OtpIds : otp[i] # NULL =>
            otp'[i] # NULL /\ otp'[i].isUsed = otp[i].isUsed,
         TablesOK'
  PROVE  AccountsInv'
<1> USE DEF AccountsInv
<1>1. TypeOK'
  BY DEF TypeOK, Finish
<1>2. \A r \in Slots : pc'[r] \in Busy =>
        /\ r # s /\ pc'[r] = pc[r] /\ op'[r] = op[r] /\ target'[r] = target[r]
        /\ number'[r] = number[r]
        /\ purpose'[r] = purpose[r] /\ code'[r] = code[r] /\ entity'[r] = entity[r]
  BY DEF TypeOK, Finish, Busy
<1>3. SlotOK'
  BY <1>2 DEF SlotOK, Busy
<1>4. \A u \in Users : Earned(u) => Earned(u)'
  BY DEF Earned
<1>5. ASSUME NEW r \in Slots, pc'[r] \in {"burned", "loaded", "diffed"}, op'[r] \in Coded
      PROVE  otp'[code'[r]].isUsed
  BY <1>2, <1>5 DEF Proof, SlotOK, Busy
<1>6. ASSUME NEW r \in Slots, pc'[r] = "burned", op'[r] = "verify"
      PROVE  number'[r] \in proven'
  BY <1>2, <1>6 DEF Proof, Busy
<1>7. ASSUME NEW r \in Slots, pc'[r] \in {"checking", "loaded", "diffed"},
             entity'[r].phoneVerified
      PROVE  Earned(target[r])' /\ target'[r] = target[r]
  <2>1. target'[r] = target[r] /\ pc'[r] = pc[r] /\ entity'[r] = entity[r]
    BY <1>2, <1>7 DEF Busy
  <2>2. target[r] \in Users /\ Earned(target[r])
    BY <1>7, <2>1 DEF Proof, SlotOK
  <2> QED
    BY <1>4, <2>1, <2>2 DEF Earned
<1>8. Proof'
  BY <1>5, <1>6, <1>7 DEF Proof, Earned
<1> QED
  BY <1>1, <1>3, <1>8

\* A request that ends without writing.
LEMMA Unanswered ==
  ASSUME AccountsInv, NEW s \in Slots, Finish(s), UNCHANGED tables, failures' \in Nat
  PROVE  AccountsInv'
<1>1. TablesOK'
  BY TablesKept DEF AccountsInv, tables
<1> QED
  BY <1>1, FinishHolds DEF tables, AccountsInv, TypeOK

\* A request that comes to hold the user it is going to save.
LEMMA LoadHolds ==
  ASSUME AccountsInv, NEW s \in Slots, NEW u \in Users, NEW e \in UserRow,
         NEW at \in {"checking", "loaded"}, NEW o \in Op,
         user[u] # NULL, e.phoneVerified => Earned(u),
         at = "checking" => o \notin Coded,
         o \in Coded => /\ code[s] \in OtpIds /\ otp[code[s]] # NULL
                        /\ otp[code[s]].isUsed,
         pc' = [pc EXCEPT ![s] = at], op' = [op EXCEPT ![s] = o],
         target' = [target EXCEPT ![s] = u], entity' = [entity EXCEPT ![s] = e],
         number' \in [Slots -> Phones \cup {NULL}],
         \A r \in Slots \ {s} : number'[r] = number[r],
         UNCHANGED <<tables, failures, purpose, code, changed>>
  PROVE  AccountsInv'
<1> USE DEF AccountsInv
<1>1. TypeOK'
  BY DEF TypeOK, tables, Busy
<1>2. SlotOK'
  BY DEF TypeOK, SlotOK, tables, Busy
<1>3. Proof'
  BY DEF TypeOK, Proof, Earned, tables, Coded
<1>4. TablesOK'
  BY TablesKept DEF tables
<1> QED
  BY <1>1, <1>2, <1>3, <1>4

\* The same when the request begins with it.
LEMMA BeginLoadHolds ==
  ASSUME AccountsInv, NEW s \in Slots, NEW o \in Op \ Coded, NEW u \in Users,
         NEW at \in {"checking", "loaded"},
         Found(u), Begin(s, o, u, NULL, at), LoadUser(s, o, u),
         UNCHANGED <<tables, failures, purpose, code, changed>>
  PROVE  AccountsInv'
<1> USE DEF AccountsInv
<1>1. user[u] \in UserRow /\ user[u] # NULL
  BY DEF Found, TypeOK
<1>2. PICK patch \in Patches(o, user[u]) :
        entity' = [entity EXCEPT ![s] = Assign(user[u], patch)]
  BY DEF LoadUser
<1> DEFINE e == Assign(user[u], patch)
<1>3. e \in UserRow /\ (e.phoneVerified => user[u].phoneVerified)
  BY <1>1, PatchedUser DEF Coded
<1>4. e.phoneVerified => Earned(u)
  BY <1>1, <1>3 DEF TablesOK, VerifiedByOtp, Earned
<1>5. entity' = [entity EXCEPT ![s] = e]
  BY <1>2
<1> HIDE DEF e
<1>6. /\ pc' = [pc EXCEPT ![s] = at] /\ op' = [op EXCEPT ![s] = o]
      /\ target' = [target EXCEPT ![s] = u]
      /\ number' \in [Slots -> Phones \cup {NULL}]
      /\ \A r \in Slots \ {s} : number'[r] = number[r]
  BY DEF Begin, TypeOK
<1> QED
  BY <1>1, <1>3, <1>4, <1>5, <1>6, LoadHolds

\* Every request gets under way without disturbing the others.
LEMMA RequestHolds ==
  ASSUME AccountsInv, NEW s \in Slots, Request(s)
  PROVE  AccountsInv'
<1> USE DEF AccountsInv
<1>1. ASSUME NEW o \in Op, NEW u \in Users \cup {NULL}, NEW n \in Phones \cup {NULL},
             NEW at \in {"absent", "known", "sending", "admitted"},
             Begin(s, o, u, n, at), UNCHANGED <<tables, failures, code, entity, changed>>,
             purpose' \in [Slots -> Purposes \cup {NULL}],
             \A r \in Slots \ {s} : purpose'[r] = purpose[r],
             at \in {"known", "sending"} => purpose'[s] \in Purposes,
             at # "admitted" => n \in Phones,
             at = "absent" => o \in {"register", "create"},
             at = "admitted" => o \notin Coded /\ u \in Users
      PROVE  AccountsInv'
  <2>1. TypeOK'
    BY <1>1 DEF Begin, TypeOK, tables, Busy
  <2>2. SlotOK'
    BY <1>1 DEF Begin, TypeOK, SlotOK, tables, Busy
  <2>3. Proof'
    BY <1>1 DEF Begin, TypeOK, Proof, Earned, tables
  <2>4. TablesOK'
    BY <1>1, TablesKept DEF tables
  <2> QED
    BY <2>1, <2>2, <2>3, <2>4
<1>2. ASSUME NEW n \in Phones, RegisterCheck(s, n) PROVE AccountsInv'
  <2>1. PICK o \in {"register", "create"} : Begin(s, o, NULL, n, "absent")
    BY <1>2 DEF RegisterCheck
  <2> QED
    BY <1>1, <1>2, <2>1 DEF RegisterCheck, Op, TypeOK
<1>3. ASSUME NEW n \in Phones, NEW purp \in Purposes, ResendCheck(s, n, purp)
      PROVE  AccountsInv'
  BY <1>1, <1>3 DEF ResendCheck, Op, TypeOK
<1>4. ASSUME NEW n \in Phones, ForgotCheck(s, n) PROVE AccountsInv'
  BY <1>1, <1>4 DEF ForgotCheck, Op, TypeOK, Purposes
<1>5. ASSUME NEW i \in OtpIds, NEW o \in Coded, NEW n \in Phones, FindOtp(s, o, n, i)
      PROVE  AccountsInv'
  <2>1. TypeOK'
    BY <1>5 DEF FindOtp, Begin, TypeOK, tables, Busy, Coded, Op
  <2>2. SlotOK'
    BY <1>5 DEF FindOtp, Begin, TypeOK, SlotOK, tables, Busy, Coded, Op
  <2>3. Proof'
    BY <1>5 DEF FindOtp, Begin, TypeOK, Proof, Earned, tables
  <2>4. TablesOK'
    BY <1>5, TablesKept DEF FindOtp, tables
  <2> QED
    BY <2>1, <2>2, <2>3, <2>4
<1>6. ASSUME NEW u \in Users, AdminLoad(s, u) PROVE AccountsInv'
  <2>1. PICK o \in AdminOp, at \in {"checking", "loaded"} :
          Begin(s, o, u, NULL, at) /\ LoadUser(s, o, u)
    BY <1>6 DEF AdminLoad
  <2>2. o \in Op \ Coded
    BY DEF Op, AdminOp, Coded
  <2> QED
    BY <1>6, <2>1, <2>2, BeginLoadHolds DEF AdminLoad
<1>7. ASSUME NEW u \in Users, Login(s, u) PROVE AccountsInv'
  BY <1>7, BeginLoadHolds DEF Login, InGoodStanding, Op, Coded
<1>8. ASSUME NEW u \in Users, RegisterAsProvider(s, u) PROVE AccountsInv'
  BY <1>8, BeginLoadHolds DEF RegisterAsProvider, Op, Coded
<1>9. ASSUME NEW u \in Users, Authenticate(s, u) PROVE AccountsInv'
  <2>1. PICK o \in OwnOp : Begin(s, o, u, NULL, "admitted")
    BY <1>9 DEF Authenticate
  <2>2. o \in Op /\ o \notin Coded
    BY DEF Op, OwnOp, Coded
  <2> QED
    BY <1>1, <1>9, <2>1, <2>2 DEF Authenticate, TypeOK
<1>10. Resendable \subseteq Purposes
  BY AccountsAssumption
<1> QED
  BY <1>2, <1>3, <1>4, <1>5, <1>6, <1>7, <1>8, <1>9, <1>10
     DEF Request, VerifyFind, ResetFind, Coded

\* Every step of a request under way keeps the invariant.
LEMMA ContinueHolds ==
  ASSUME AccountsInv, NEW s \in Slots, Continue(s)
  PROVE  AccountsInv'
<1> USE DEF AccountsInv
<1>1. CASE RegisterInsert(s)
  <2>1. pc[s] = "absent" /\ number[s] \in Phones
    BY <1>1 DEF RegisterInsert, SlotOK
  <2>2. CASE Holders(number[s]) # {}
    BY <1>1, <2>2, Unanswered DEF RegisterInsert, tables, TypeOK
  <2>3. CASE Holders(number[s]) = {}
    <3>1. PICK u \in Users : user[u] = NULL /\ Insert(s, u)
      BY <1>1, <2>3 DEF RegisterInsert
    <3>2. PICK w \in Passwords : user' = [user EXCEPT ![u] = NewUser(number[s], w)]
      BY <3>1 DEF Insert
    <3>3. PICK row \in UserRow :
            /\ row # NULL /\ row.phone = number[s] /\ ~row.phoneVerified
            /\ user' = [user EXCEPT ![u] = row]
      BY <2>1, <3>2, NewUserRow
    <3>4. /\ had' = [had EXCEPT ![u] = had[u] \cup {number[s]}]
          /\ UNCHANGED <<wallet, otp, proven, failures>>
      BY <1>1, <3>1 DEF RegisterInsert, Insert
    <3>5. /\ user' \in [Users -> UserRow \cup {NULL}]
          /\ had' \in [Users -> SUBSET Phones]
          /\ \A v \in Users : had[v] \subseteq had'[v]
          /\ \A v \in Users : user[v] # NULL => user'[v] # NULL
      BY <2>1, <3>1, <3>3, <3>4 DEF TypeOK
    <3>6. TablesOK'
      <4>1. VerifiedByOtp'
        BY <3>3, <3>4, <3>5 DEF TypeOK, TablesOK, VerifiedByOtp
      <4>2. UsedBeforeEffect'
        BY <3>4 DEF TablesOK, UsedBeforeEffect
      <4>3. OwnNumber'
        BY <3>3, <3>4, <3>5 DEF TypeOK, TablesOK, OwnNumber
      <4>4. NumbersUnique'
        BY <2>3, <3>3 DEF TypeOK, TablesOK, NumbersUnique, Holders
      <4> QED
        BY <4>1, <4>2, <4>3, <4>4 DEF TablesOK
    <3>7. CASE op[s] = "create"
      BY <3>1, <3>4, <3>5, <3>6, <3>7, FinishHolds DEF TypeOK, Insert
    <3>8. CASE op[s] # "create"
      <4>1. /\ pc' = [pc EXCEPT ![s] = "created"]
            /\ target' = [target EXCEPT ![s] = u]
            /\ UNCHANGED <<op, number, purpose, code, entity, changed>>
        BY <3>1, <3>8 DEF Insert
      <4>2. TypeOK'
        BY <3>4, <3>5, <4>1 DEF TypeOK, Busy
      <4>3. SlotOK'
        BY <2>1, <3>4, <3>5, <4>1 DEF TypeOK, SlotOK, Busy
      <4>4. \A v \in Users : Earned(v) => Earned(v)'
        BY <3>4, <3>5 DEF Earned
      <4>5. Proof'
        BY <2>1, <3>4, <4>1, <4>4 DEF TypeOK, Proof, SlotOK, Busy
      <4> QED
        BY <3>6, <4>2, <4>3, <4>5
    <3> QED
      BY <3>7, <3>8
  <2> QED
    BY <2>2, <2>3
<1>2. CASE RegisterWallet(s)
  <2>1. /\ pc[s] = "created" /\ target[s] \in Users /\ number[s] \in Phones
        /\ pc' = [pc EXCEPT ![s] = "sending"]
        /\ purpose' = [purpose EXCEPT ![s] = "REGISTRATION"]
        /\ wallet' = wallet \cup {target[s]}
        /\ UNCHANGED <<user, otp, had, proven, failures, op, target, number, code,
                       entity, changed>>
    BY <1>2 DEF RegisterWallet, SlotOK, Busy
  <2>2. TypeOK'
    BY <2>1 DEF TypeOK, Busy, Purposes
  <2>3. SlotOK' /\ Proof'
    BY <2>1 DEF TypeOK, SlotOK, Proof, Earned, Busy, Purposes
  <2>4. TablesOK'
    BY <2>1, TablesKept
  <2> QED
    BY <2>2, <2>3, <2>4
<1>3. CASE ResendCooldown(s)
  <2>1. CASE Finish(s)
    BY <1>3, <2>1, Unanswered DEF ResendCooldown, TypeOK
  <2>2. CASE Goto(s, "sending")
    <3>1. TypeOK'
      BY <1>3, <2>2 DEF ResendCooldown, Goto, TypeOK, tables, Busy
    <3>2. SlotOK' /\ Proof'
      BY <1>3, <2>2 DEF ResendCooldown, Goto, TypeOK, SlotOK, Proof, Earned, tables, Busy
    <3>3. TablesOK'
      BY <1>3, TablesKept DEF ResendCooldown, tables
    <3> QED
      BY <3>1, <3>2, <3>3
  <2> QED
    BY <1>3, <2>1, <2>2 DEF ResendCooldown
<1>4. CASE SendOtp(s)
  <2>1. PICK i \in OtpIds :
          /\ otp[i] = NULL
          /\ otp' = [otp EXCEPT ![i] =
               [phone |-> number[s], purpose |-> purpose[s], isUsed |-> FALSE,
                recent |-> TRUE, spent |-> 0]]
    BY <1>4 DEF SendOtp
  <2> DEFINE row == [phone |-> number[s], purpose |-> purpose[s], isUsed |-> FALSE,
                     recent |-> TRUE, spent |-> 0]
  <2>2. row \in OtpRow /\ row.spent = 0
    BY <1>4 DEF SendOtp, SlotOK, Busy, OtpRow
  <2>3. /\ otp' = [otp EXCEPT ![i] = row] /\ Finish(s)
        /\ UNCHANGED <<user, wallet, had, proven, failures>>
    BY <1>4, <2>1 DEF SendOtp
  <2> HIDE DEF row
  <2>4. /\ otp' \in [OtpIds -> OtpRow \cup {NULL}]
        /\ \A j \in OtpIds : otp[j] # NULL => otp'[j] = otp[j]
    <3>1. otp \in [OtpIds -> OtpRow \cup {NULL}]
      BY DEF TypeOK
    <3>2. otp' = [otp EXCEPT ![i] = row]
      BY <2>3
    <3>3. otp' \in [OtpIds -> OtpRow \cup {NULL}]
      BY <3>1, <3>2, <2>2
    <3>4. ASSUME NEW j \in OtpIds, otp[j] # NULL PROVE otp'[j] = otp[j]
      BY <3>1, <3>2, <3>4, <2>1
    <3> QED
      BY <3>3, <3>4
  <2>5. TablesOK'
    <3>1. UsedBeforeEffect'
      BY <2>2, <2>3 DEF TypeOK, TablesOK, UsedBeforeEffect
    <3> QED
      BY <2>3, <3>1 DEF TablesOK, VerifiedByOtp, OwnNumber, NumbersUnique
  <2> QED
    BY <2>3, <2>4, <2>5, FinishHolds DEF TypeOK
<1>5. CASE StoreUsed(s)
  <2> DEFINE i == code[s]
             row == Assign(otp[i], [isUsed |-> TRUE])
  <2>1. /\ pc[s] = "matched" /\ op[s] \in Coded /\ i \in OtpIds /\ otp[i] # NULL
        /\ otp[i] \in OtpRow /\ number[s] \in Phones
    BY <1>5 DEF StoreUsed, SlotOK, Busy, TypeOK
  <2>2. \A x \in OtpRow : x # NULL
    BY AccountsAssumption
  <2>3. row \in OtpRow /\ row.isUsed
    BY <2>1, AssignedOtp
  <2>4. /\ otp' = [otp EXCEPT ![i] = row] /\ UNCHANGED <<user, wallet, had, failures>>
        /\ proven' = (IF op[s] = "verify" THEN proven \cup {number[s]} ELSE proven)
        /\ pc' = [pc EXCEPT ![s] = "burned"]
        /\ UNCHANGED <<op, target, number, purpose, code, entity, changed>>
    BY <1>5 DEF StoreUsed, Goto
  <2> HIDE DEF row
  <2>5. TypeOK'
    BY <2>1, <2>3, <2>4 DEF TypeOK, Busy
  <2>6. SlotOK'
    BY <2>1, <2>2, <2>3, <2>4 DEF TypeOK, SlotOK, Busy
  <2>7. \A u \in Users : Earned(u) => Earned(u)'
    BY <2>4 DEF Earned
  <2>8. Proof'
    BY <2>1, <2>3, <2>4, <2>7 DEF TypeOK, SlotOK, Proof, Coded, Busy
  <2>9. TablesOK'
    <3>1. VerifiedByOtp'
      BY <2>4, <2>7 DEF TablesOK, VerifiedByOtp, Earned
    <3>2. UsedBeforeEffect'
      BY <2>1, <2>3, <2>4 DEF TypeOK, TablesOK, UsedBeforeEffect
    <3> QED
      BY <2>4, <3>1, <3>2 DEF TablesOK, OwnNumber, NumbersUnique
  <2> QED
    BY <2>5, <2>6, <2>8, <2>9
<1>6. CASE LoadTarget(s)
  <2>1. /\ pc[s] \in {"admitted", "burned"} /\ op[s] \in Op
        /\ UNCHANGED tables /\ failures' = failures
    BY <1>6 DEF LoadTarget, SlotOK, Busy
  <2>2. CASE Finish(s)
    BY <2>1, <2>2, Unanswered DEF TypeOK
  <2>3. ASSUME NEW u \in Users, Proceeds(s, u), LoadUser(s, op[s], u),
               pc' = [pc EXCEPT ![s] = "loaded"], target' = [target EXCEPT ![s] = u],
               UNCHANGED <<op, number, purpose, code, changed>>
        PROVE  AccountsInv'
    <3>1. user[u] \in UserRow /\ user[u] # NULL
      BY <2>3 DEF Proceeds, Found, TypeOK
    <3>2. PICK patch \in Patches(op[s], user[u]) :
            entity' = [entity EXCEPT ![s] = Assign(user[u], patch)]
      BY <2>3 DEF LoadUser
    <3> DEFINE e == Assign(user[u], patch)
    <3>3. e \in UserRow /\ (e.phoneVerified => user[u].phoneVerified \/ op[s] = "verify")
      BY <2>1, <3>1, PatchedUser
    <3>4. entity' = [entity EXCEPT ![s] = e]
      BY <3>2
    <3> HIDE DEF e
    <3>5. op[s] = "verify" => Earned(u)
      <4>1. op[s] = "verify" => number[s] \in proven /\ user[u].phone = number[s]
        BY <2>1, <2>3 DEF SlotOK, Proof, Coded, Proceeds
      <4>2. user[u].phone \in had[u]
        BY <3>1 DEF TablesOK, OwnNumber
      <4> QED
        BY <4>1, <4>2 DEF Earned
    <3>6. e.phoneVerified => Earned(u)
      BY <3>1, <3>3, <3>5 DEF TablesOK, VerifiedByOtp, Earned
    <3>7. op[s] \in Coded => /\ code[s] \in OtpIds /\ otp[code[s]] # NULL
                             /\ otp[code[s]].isUsed
      BY <2>1 DEF SlotOK, Proof
    <3>8. op' = [op EXCEPT ![s] = op[s]]
      BY <2>3 DEF TypeOK
    <3>9. /\ number' \in [Slots -> Phones \cup {NULL}]
          /\ \A r \in Slots \ {s} : number'[r] = number[r]
      BY <2>3 DEF TypeOK
    <3> QED
      BY <2>1, <2>3, <3>1, <3>3, <3>4, <3>6, <3>7, <3>8, <3>9, LoadHolds
  <2> QED
    BY <1>6, <2>2, <2>3 DEF LoadTarget
<1>7. CASE UpdateCheck(s)
  <2>1. CASE Finish(s)
    BY <1>7, <2>1, Unanswered DEF UpdateCheck, TypeOK
  <2>2. CASE Goto(s, "loaded")
    <3>1. TypeOK'
      BY <1>7, <2>2 DEF UpdateCheck, Goto, TypeOK, tables, Busy
    <3>2. SlotOK'
      BY <1>7, <2>2 DEF UpdateCheck, Goto, TypeOK, SlotOK, tables, Busy
    <3>3. Proof'
      BY <1>7, <2>2 DEF UpdateCheck, Goto, TypeOK, SlotOK, Proof, Earned, tables
    <3>4. TablesOK'
      BY <1>7, TablesKept DEF UpdateCheck, tables
    <3> QED
      BY <3>1, <3>2, <3>3, <3>4
  <2> QED
    BY <1>7, <2>1, <2>2 DEF UpdateCheck
<1>8. CASE SaveSelect(s)
  <2> DEFINE cols == Changed(entity[s], user[target[s]], {}) \cap Held(op[s])
  <2>1. /\ pc[s] = "loaded" /\ entity[s] \in UserRow /\ user[target[s]] \in UserRow
    BY <1>8 DEF SaveSelect, SlotOK, Busy, TypeOK
  <2>2. cols \subseteq UserColumns
    BY <2>1, ChangedUser
  <2>3. /\ pc' = [pc EXCEPT ![s] = "diffed"] /\ changed' = [changed EXCEPT ![s] = cols]
        /\ UNCHANGED <<tables, failures, op, target, number, purpose, code, entity>>
    BY <1>8 DEF SaveSelect
  <2> HIDE DEF cols
  <2>4. TypeOK'
    BY <2>2, <2>3 DEF TypeOK, tables, Busy
  <2>5. SlotOK' /\ Proof'
    BY <2>1, <2>3 DEF TypeOK, SlotOK, Proof, Earned, tables, Busy
  <2>6. TablesOK'
    BY <2>3, TablesKept DEF tables
  <2> QED
    BY <2>4, <2>5, <2>6
<1>9. CASE SaveRefused(s)
  BY <1>9, Unanswered DEF SaveRefused, TypeOK
<1>10. CASE SaveUpdate(s)
  <2> DEFINE u == target[s]
             row == Updated(user[u], entity[s], changed[s])
             i == code[s]
             spent == Assign(otp[i], [spent |-> otp[i].spent + 1])
  <2>1. /\ pc[s] = "diffed" /\ u \in Users /\ entity[s] \in UserRow
        /\ user[u] \in UserRow /\ user[u] # NULL
    BY <1>10 DEF SaveUpdate, SlotOK, Busy, TypeOK
  <2>2. /\ row \in UserRow /\ row # NULL
        /\ row.phoneVerified \in {user[u].phoneVerified, entity[s].phoneVerified}
        /\ row.phone = IF "phone" \in changed[s] THEN entity[s].phone ELSE user[u].phone
    BY <2>1, UpdatedUser, AccountsAssumption
  <2>3. row.phoneVerified => Earned(u)
    BY <2>1, <2>2 DEF TablesOK, VerifiedByOtp, Proof, Earned
  <2>4. /\ user' = [user EXCEPT ![u] = row] /\ Finish(s)
        /\ had' = [had EXCEPT ![u] = had[u] \cup {row.phone}]
        /\ otp' = IF op[s] \in Coded THEN [otp EXCEPT ![i] = spent] ELSE otp
        /\ UNCHANGED <<wallet, proven, failures>>
    BY <1>10 DEF SaveUpdate, Coded
  <2>5. op[s] \in Coded =>
          /\ i \in OtpIds /\ otp[i] \in OtpRow /\ otp[i] # NULL /\ otp[i].isUsed
    BY <2>1 DEF SlotOK, Proof, TypeOK
  <2>6. op[s] \in Coded => spent \in OtpRow /\ spent.isUsed = otp[i].isUsed
    BY <2>5, AssignedOtp
  <2>7. \A v \in Users \ {u} : user[v] # NULL => user[v].phone # row.phone
    <3>1. CASE "phone" \in changed[s]
      BY <1>10, <2>2, <3>1 DEF SaveUpdate, PhoneClash, Holders
    <3>2. CASE "phone" \notin changed[s]
      BY <2>1, <2>2, <3>2 DEF TablesOK, NumbersUnique
    <3> QED
      BY <3>1, <3>2
  <2>8. row.phone \in Phones
    BY <2>2 DEF UserRow
  <2> HIDE DEF row, spent
  <2>9. /\ otp' \in [OtpIds -> OtpRow \cup {NULL}]
        /\ \A j \in OtpIds : otp[j] # NULL =>
             otp'[j] # NULL /\ otp'[j].isUsed = otp[j].isUsed
    BY <2>4, <2>5, <2>6, AccountsAssumption DEF TypeOK
  <2>10. /\ user' \in [Users -> UserRow \cup {NULL}]
         /\ had' \in [Users -> SUBSET Phones]
         /\ \A v \in Users : had[v] \subseteq had'[v]
         /\ \A v \in Users : user[v] # NULL => user'[v] # NULL
    BY <2>1, <2>2, <2>4, <2>8 DEF TypeOK
  <2>11. TablesOK'
    <3>1. VerifiedByOtp'
      BY <2>1, <2>3, <2>4, <2>10 DEF TypeOK, TablesOK, VerifiedByOtp, Earned
    <3>2. UsedBeforeEffect'
      BY <2>4, <2>5, <2>6 DEF TypeOK, TablesOK, UsedBeforeEffect
    <3>3. OwnNumber'
      BY <2>1, <2>4 DEF TypeOK, TablesOK, OwnNumber
    <3>4. NumbersUnique'
      BY <2>1, <2>4, <2>7 DEF TypeOK, TablesOK, NumbersUnique
    <3> QED
      BY <3>1, <3>2, <3>3, <3>4 DEF TablesOK
  <2> QED
    BY <2>4, <2>9, <2>10, <2>11, FinishHolds DEF TypeOK
<1> QED
  BY <1>1, <1>2, <1>3, <1>4, <1>5, <1>6, <1>7, <1>8, <1>9, <1>10 DEF Continue

\* Every step keeps the invariant: requests, failures and the clocks of codes.
LEMMA StepHolds == AccountsInv /\ [Next]_vars => AccountsInv'
<1> SUFFICES ASSUME AccountsInv, [Next]_vars PROVE AccountsInv'
  OBVIOUS
<1> USE DEF AccountsInv
<1>1. ASSUME NEW s \in Slots, Fail(s) PROVE AccountsInv'
  <2>1. failures' \in Nat
    BY <1>1 DEF Fail, TypeOK
  <2> QED
    BY <1>1, <2>1, Unanswered DEF Fail
<1>2. ASSUME NEW i \in OtpIds, Age(i) PROVE AccountsInv'
  <2> DEFINE row == Assign(otp[i], [recent |-> FALSE])
  <2>1. /\ otp[i] # NULL /\ otp[i] \in OtpRow
        /\ UNCHANGED <<user, wallet, had, proven, failures, slots>>
    BY <1>2 DEF Age, TypeOK
  <2>2. /\ row \in OtpRow /\ row.isUsed = otp[i].isUsed /\ row.spent = otp[i].spent
    BY <2>1, AssignedOtp
  <2>3. otp' = [otp EXCEPT ![i] = row] /\ row # NULL
    BY <1>2, <2>2, AccountsAssumption DEF Age
  <2> HIDE DEF row
  <2>4. TypeOK'
    BY <2>1, <2>2, <2>3 DEF TypeOK, slots
  <2>5. SlotOK' /\ Proof'
    BY <2>1, <2>2, <2>3 DEF TypeOK, SlotOK, Proof, Earned, slots
  <2>6. UsedBeforeEffect'
    BY <2>1, <2>2, <2>3 DEF TypeOK, TablesOK, UsedBeforeEffect
  <2>7. TablesOK'
    BY <2>1, <2>6 DEF TablesOK, VerifiedByOtp, OwnNumber, NumbersUnique
  <2> QED
    BY <2>4, <2>5, <2>7
<1>3. ASSUME NEW i \in OtpIds, Expire(i) PROVE AccountsInv'
  <2>1. /\ otp' = [otp EXCEPT ![i] = NULL] /\ \A s \in Slots : code[s] # i
        /\ UNCHANGED <<user, wallet, had, proven, failures, slots>>
    BY <1>3 DEF Expire
  <2>2. TypeOK'
    BY <2>1 DEF TypeOK, slots
  <2>3. SlotOK' /\ Proof'
    BY <2>1 DEF TypeOK, SlotOK, Proof, Earned, slots
  <2>4. UsedBeforeEffect'
    BY <2>1 DEF TypeOK, TablesOK, UsedBeforeEffect
  <2>5. TablesOK'
    BY <2>1, <2>4 DEF TablesOK, VerifiedByOtp, OwnNumber, NumbersUnique
  <2> QED
    BY <2>2, <2>3, <2>5
<1>4. CASE UNCHANGED vars
  <2>1. TablesOK'
    BY <1>4, TablesKept DEF vars, tables
  <2> QED
    BY <1>4, <2>1 DEF vars, tables, slots, TypeOK, SlotOK, Proof, Earned
<1> QED
  BY <1>1, <1>2, <1>3, <1>4, RequestHolds, ContinueHolds DEF Next

\* The invariant holds in every state.
LEMMA Accounting == Spec => []AccountsInv
  BY InitHolds, StepHolds, PTL DEF Spec

\* Every column keeps its type, whatever entity is written back stale.
THEOREM TypeCorrect == Spec => []TypeOK
<1>1. AccountsInv => TypeOK
  BY DEF AccountsInv
<1> QED
  BY <1>1, Accounting, PTL

\* No interleaving of stale saves, and no change of number, verifies a user for
\* whom verify accepted a code of none of the numbers the user has had.
THEOREM VerificationEarned == Spec => []VerifiedByOtp
<1>1. AccountsInv => VerifiedByOtp
  BY DEF AccountsInv, TablesOK
<1> QED
  BY <1>1, Accounting, PTL

\* Wherever the process stops, a code that had its effect is marked as used.
THEOREM MarkedFirst == Spec => []UsedBeforeEffect
<1>1. AccountsInv => UsedBeforeEffect
  BY DEF AccountsInv, TablesOK
<1> QED
  BY <1>1, Accounting, PTL

-----------------------------------------------------------------------------
(***************************************************************************)
(* Requests side by side.  A step is the step of one request, which leaves *)
(* the slots of the others alone, or the clock of a code.                  *)
(***************************************************************************)
Acts(s) == Request(s) \/ Continue(s) \/ Fail(s)

Kept(r) ==
  /\ pc'[r] = pc[r] /\ op'[r] = op[r] /\ target'[r] = target[r]
  /\ number'[r] = number[r]
  /\ purpose'[r] = purpose[r] /\ code'[r] = code[r]
  /\ entity'[r] = entity[r] /\ changed'[r] = changed[r]

\* A request gets under way in an idle slot, and writes no table.
LEMMA Begun ==
  ASSUME NEW s \in Slots, Request(s)
  PROVE  UNCHANGED <<tables, failures>>
BY DEF Request, RegisterCheck, ResendCheck, ForgotCheck, VerifyFind, ResetFind, FindOtp,
   AdminLoad, Login, RegisterAsProvider, Authenticate

\* Only an INSERT and an UPDATE write table users.
LEMMA UsersWritten ==
  ASSUME NEW s \in Slots, Continue(s), ~RegisterInsert(s), ~SaveUpdate(s)
  PROVE  UNCHANGED user
BY DEF Continue, RegisterWallet, ResendCooldown, SendOtp, StoreUsed, LoadTarget, UpdateCheck,
   SaveSelect, SaveRefused, tables

\* A slot whose request does not act keeps all it holds.
LEMMA OthersKept ==
  ASSUME TypeOK, NEW s \in Slots, Acts(s), NEW r \in Slots, r # s
  PROVE  Kept(r)
<1>1. CASE Request(s)
  <2>1. ASSUME NEW n \in Phones,
               \/ RegisterCheck(s, n) \/ ForgotCheck(s, n)
               \/ \E purp \in Resendable : ResendCheck(s, n, purp)
               \/ \E i \in OtpIds : VerifyFind(s, n, i) \/ ResetFind(s, n, i)
        PROVE  Kept(r)
    BY <2>1 DEF RegisterCheck, ForgotCheck, ResendCheck, VerifyFind, ResetFind, FindOtp,
       Begin, TypeOK, Kept
  <2>2. ASSUME NEW u \in Users,
               \/ AdminLoad(s, u) \/ Login(s, u) \/ RegisterAsProvider(s, u)
               \/ Authenticate(s, u)
        PROVE  Kept(r)
    BY <2>2 DEF AdminLoad, Login, RegisterAsProvider, Authenticate, LoadUser, Begin, TypeOK,
       Kept
  <2> QED
    BY <1>1, <2>1, <2>2 DEF Request
<1>2. CASE Finish(s)
  BY <1>2 DEF Finish, TypeOK, Kept
<1>3. CASE \E at \in Busy : Goto(s, at)
  BY <1>3 DEF Goto, TypeOK, Kept
<1>4. CASE Continue(s)
  <2>1. CASE RegisterInsert(s) \/ RegisterWallet(s) \/ ResendCooldown(s) \/ SendOtp(s)
    BY <1>2, <1>3, <2>1 DEF RegisterInsert, Insert, RegisterWallet, ResendCooldown,
       SendOtp, Busy, TypeOK, Kept
  <2>2. CASE StoreUsed(s) \/ LoadTarget(s) \/ UpdateCheck(s)
    BY <1>2, <1>3, <2>2 DEF StoreUsed, LoadTarget, LoadUser, UpdateCheck, Busy, TypeOK, Kept
  <2>3. CASE SaveSelect(s) \/ SaveUpdate(s) \/ SaveRefused(s)
    BY <1>2, <2>3 DEF SaveSelect, SaveUpdate, SaveRefused, TypeOK, Kept
  <2> QED
    BY <1>4, <2>1, <2>2, <2>3 DEF Continue
<1> QED
  BY <1>1, <1>2, <1>4 DEF Acts, Fail

\* Every step is a request's, a clock's, or none.
LEMMA StepActs ==
  ASSUME [Next]_vars
  PROVE  \/ \E s \in Slots : Acts(s)
         \/ (\E i \in OtpIds : Age(i) \/ Expire(i)) /\ UNCHANGED <<user, slots>>
         \/ UNCHANGED vars
BY DEF Next, Acts, Age, Expire

\* The columns of a code that each of its three assignments leaves alone.
LEMMA OtpKept ==
  ASSUME NEW row \in OtpRow
  PROVE  /\ LET used == Assign(row, [isUsed |-> TRUE]) IN
              /\ used.phone = row.phone /\ used.purpose = row.purpose
              /\ used.recent = row.recent /\ used.spent = row.spent
         /\ LET older == Assign(row, [recent |-> FALSE]) IN
              /\ older.phone = row.phone /\ older.purpose = row.purpose
              /\ ~older.recent /\ older.spent = row.spent
         /\ LET spent == Assign(row, [spent |-> row.spent + 1]) IN
              /\ spent.phone = row.phone /\ spent.purpose = row.purpose
              /\ spent.recent = row.recent /\ spent.spent = row.spent + 1
BY DEF Assign, OtpRow

\* What a step makes of the codes: the rows are marked, grow older or expire,
\* a request sends one more, or the request of one has its effect.
RowsAge ==
  \A i \in OtpIds : otp'[i] # NULL =>
    /\ otp[i] # NULL
    /\ otp'[i].phone = otp[i].phone /\ otp'[i].purpose = otp[i].purpose
    /\ otp'[i].spent = otp[i].spent
    /\ otp'[i].recent => otp[i].recent

RowSent(s) ==
  /\ pc[s] = "sending" /\ Finish(s)
  /\ \E i \in OtpIds, row \in OtpRow :
       /\ otp[i] = NULL /\ otp' = [otp EXCEPT ![i] = row]
       /\ row.phone = number[s] /\ row.purpose = purpose[s] /\ row.spent = 0

RowSpent(s) ==
  LET i == code[s] IN
  /\ pc[s] = "diffed" /\ op[s] \in Coded /\ Finish(s)
  /\ i \in OtpIds /\ otp[i] # NULL
  /\ \E row \in OtpRow :
       /\ otp' = [otp EXCEPT ![i] = row]
       /\ row.phone = otp[i].phone /\ row.purpose = otp[i].purpose
       /\ row.recent = otp[i].recent /\ row.spent = otp[i].spent + 1

\* Every step does one of the three to the codes.
LEMMA CodesChange ==
  ASSUME AccountsInv, [Next]_vars
  PROVE  RowsAge \/ \E s \in Slots : RowSent(s) \/ RowSpent(s)
<1> USE DEF AccountsInv
<1>1. ASSUME UNCHANGED otp PROVE RowsAge
  BY <1>1 DEF RowsAge
<1>2. ASSUME NEW s \in Slots, SendOtp(s) PROVE RowSent(s)
  <2> DEFINE new == [phone |-> number[s], purpose |-> purpose[s], isUsed |-> FALSE,
                     recent |-> TRUE, spent |-> 0]
  <2>1. /\ new \in OtpRow /\ new.spent = 0
        /\ new.phone = number[s] /\ new.purpose = purpose[s]
    BY <1>2 DEF SendOtp, SlotOK, Busy, OtpRow
  <2>2. \E i \in OtpIds : otp[i] = NULL /\ otp' = [otp EXCEPT ![i] = new]
    BY <1>2 DEF SendOtp
  <2> HIDE DEF new
  <2> QED
    BY <1>2, <2>1, <2>2 DEF SendOtp, RowSent
<1>3. ASSUME NEW s \in Slots, StoreUsed(s) PROVE RowsAge
  <2> DEFINE used == Assign(otp[code[s]], [isUsed |-> TRUE])
  <2>1. /\ code[s] \in OtpIds /\ otp[code[s]] # NULL /\ otp[code[s]] \in OtpRow
        /\ otp' = [otp EXCEPT ![code[s]] = used]
    BY <1>3 DEF StoreUsed, SlotOK, Busy, TypeOK
  <2>2. /\ used.phone = otp[code[s]].phone /\ used.purpose = otp[code[s]].purpose
        /\ used.recent = otp[code[s]].recent /\ used.spent = otp[code[s]].spent
    BY <2>1, OtpKept
  <2> HIDE DEF used
  <2> QED
    BY <2>1, <2>2 DEF RowsAge, TypeOK
<1>4. ASSUME NEW s \in Slots, SaveUpdate(s) PROVE RowsAge \/ RowSpent(s)
  <2> DEFINE i == code[s]
             spent == Assign(otp[i], [spent |-> otp[i].spent + 1])
  <2>1. /\ pc[s] = "diffed" /\ Finish(s)
        /\ op[s] \in Coded => i \in OtpIds /\ otp[i] # NULL /\ otp[i] \in OtpRow
        /\ otp' = IF op[s] \in Coded THEN [otp EXCEPT ![i] = spent] ELSE otp
    BY <1>4 DEF SaveUpdate, SlotOK, Busy, TypeOK, Coded
  <2>2. CASE op[s] \notin Coded
    BY <1>1, <2>1, <2>2
  <2>3. CASE op[s] \in Coded
    <3>1. /\ spent \in OtpRow
          /\ spent.phone = otp[i].phone /\ spent.purpose = otp[i].purpose
          /\ spent.recent = otp[i].recent /\ spent.spent = otp[i].spent + 1
      BY <2>1, <2>3, OtpKept, AssignedOtp
    <3> HIDE DEF spent
    <3> QED
      BY <2>1, <2>3, <3>1 DEF RowSpent
  <2> QED
    BY <2>2, <2>3
<1>5. ASSUME NEW i \in OtpIds, Age(i) PROVE RowsAge
  <2> DEFINE older == Assign(otp[i], [recent |-> FALSE])
  <2>1. /\ otp[i] # NULL /\ otp[i] \in OtpRow /\ otp' = [otp EXCEPT ![i] = older]
    BY <1>5 DEF Age, TypeOK
  <2>2. /\ older.phone = otp[i].phone /\ older.purpose = otp[i].purpose
        /\ ~older.recent /\ older.spent = otp[i].spent
    BY <2>1, OtpKept
  <2> HIDE DEF older
  <2> QED
    BY <2>1, <2>2 DEF RowsAge, TypeOK
<1>6. ASSUME NEW i \in OtpIds, Expire(i) PROVE RowsAge
  BY <1>6 DEF Expire, RowsAge, TypeOK
<1>7. ASSUME NEW s \in Slots, Request(s) PROVE UNCHANGED otp
  BY <1>7, Begun DEF tables
<1>8. ASSUME NEW s \in Slots, Continue(s), ~SendOtp(s), ~StoreUsed(s), ~SaveUpdate(s)
      PROVE  UNCHANGED otp
  BY <1>8 DEF Continue, RegisterInsert, RegisterWallet, ResendCooldown, LoadTarget,
     UpdateCheck, SaveSelect, SaveRefused, tables
<1> QED
  BY <1>1, <1>2, <1>3, <1>4, <1>5, <1>6, <1>7, <1>8, StepActs DEF Acts, Fail, tables, vars

-----------------------------------------------------------------------------
(***************************************************************************)
(* A code has its effect once, provided that no two requests are between   *)
(* finding it unused and marking it as used, as one UPDATE ... WHERE NOT   *)
(* "isUsed" in place of findOne and save would see to.  Then one request   *)
(* at a time redeems a code, to the end, and the code has had no effect    *)
(* before.                                                                 *)
(***************************************************************************)
Redeems(s) == op[s] \in Coded /\ pc[s] \in {"matched", "burned", "loaded", "diffed"}

MarkedAlone ==
  \A r, s \in Slots :
    pc[r] = "matched" /\ pc[s] = "matched" /\ code[r] = code[s] => r = s

RedeemedAlone ==
  \A r, s \in Slots : Redeems(r) /\ Redeems(s) /\ code[r] = code[s] => r = s

Unspent == \A s \in Slots : Redeems(s) => otp[code[s]].spent = 0

SpentInv == OtpSingleUse /\ RedeemedAlone /\ Unspent

\* A request redeems the code it did before the step, or one it has just found
\* unused.
LEMMA Redeemer ==
  ASSUME AccountsInv, NEW s \in Slots, Acts(s), Redeems(s)'
  PROVE  \/ Redeems(s) /\ code'[s] = code[s]
         \/ /\ pc'[s] = "matched" /\ code'[s] \in OtpIds
            /\ otp[code'[s]] # NULL /\ ~otp[code'[s]].isUsed /\ UNCHANGED otp
<1> USE DEF AccountsInv
<1>1. ASSUME Request(s)
      PROVE  /\ pc'[s] = "matched" /\ code'[s] \in OtpIds
             /\ otp[code'[s]] # NULL /\ ~otp[code'[s]].isUsed /\ UNCHANGED otp
  <2>1. ASSUME NEW n \in Phones, NEW i \in OtpIds, VerifyFind(s, n, i) \/ ResetFind(s, n, i)
        PROVE  /\ pc'[s] = "matched" /\ code'[s] \in OtpIds
               /\ otp[code'[s]] # NULL /\ ~otp[code'[s]].isUsed /\ UNCHANGED otp
    BY <2>1 DEF VerifyFind, ResetFind, FindOtp, Begin, TypeOK, tables
  <2>2. ASSUME NEW n \in Phones,
               \/ RegisterCheck(s, n) \/ ForgotCheck(s, n)
               \/ \E purp \in Resendable : ResendCheck(s, n, purp)
        PROVE  FALSE
    BY <2>2 DEF RegisterCheck, ForgotCheck, ResendCheck, Begin, TypeOK, Redeems
  <2>3. ASSUME NEW u \in Users,
               \/ AdminLoad(s, u) \/ Login(s, u) \/ RegisterAsProvider(s, u)
               \/ Authenticate(s, u)
        PROVE  FALSE
    BY <2>3 DEF AdminLoad, Login, RegisterAsProvider, Authenticate, Begin, TypeOK, Redeems,
       Coded, AdminOp
  <2> QED
    BY <1>1, <2>1, <2>2, <2>3 DEF Request
<1>2. ~Finish(s)
  BY DEF Finish, TypeOK, Redeems
<1>3. ASSUME Continue(s) PROVE Redeems(s) /\ code'[s] = code[s]
  <2>1. CASE RegisterInsert(s) \/ RegisterWallet(s) \/ ResendCooldown(s) \/ SendOtp(s)
    BY <1>2, <2>1 DEF RegisterInsert, Insert, RegisterWallet, ResendCooldown, SendOtp,
       Goto, TypeOK, Redeems
  <2>2. CASE StoreUsed(s) \/ SaveSelect(s) \/ SaveUpdate(s)
    BY <1>2, <2>2 DEF StoreUsed, SaveSelect, SaveUpdate, Goto, TypeOK, Redeems
  <2>3. CASE LoadTarget(s)
    BY <1>2, <2>3 DEF LoadTarget, TypeOK, SlotOK, Redeems
  <2>4. CASE UpdateCheck(s) \/ SaveRefused(s)
    BY <1>2, <2>4 DEF UpdateCheck, SaveRefused, Goto, TypeOK, SlotOK, Redeems
  <2> QED
    BY <1>3, <2>1, <2>2, <2>3, <2>4 DEF Continue
<1> QED
  BY <1>1, <1>2, <1>3 DEF Acts, Fail

\* No second request comes to redeem a code.
LEMMA AloneStep ==
  ASSUME AccountsInv, MarkedAlone', RedeemedAlone, [Next]_vars
  PROVE  RedeemedAlone'
<1> USE DEF AccountsInv
<1>1. ASSUME NEW s \in Slots, Acts(s) PROVE RedeemedAlone'
  <2>1. ASSUME NEW r \in Slots, r # s, Redeems(r)', Redeems(s)', code'[r] = code'[s]
        PROVE  FALSE
    <3>1. Redeems(r) /\ code'[r] = code[r] /\ pc'[r] = pc[r]
      BY <1>1, <2>1, OthersKept DEF Kept, Redeems
    <3>2. CASE Redeems(s) /\ code'[s] = code[s]
      BY <2>1, <3>1, <3>2 DEF RedeemedAlone
    <3>3. CASE pc'[s] = "matched" /\ ~otp[code'[s]].isUsed
      <4>1. pc[r] # "matched"
        BY <2>1, <3>1, <3>3 DEF MarkedAlone
      <4>2. otp[code[r]].isUsed
        BY <3>1, <4>1 DEF Redeems, Proof
      <4> QED
        BY <2>1, <3>1, <3>3, <4>2
    <3> QED
      BY <1>1, <2>1, <3>2, <3>3, Redeemer
  <2>2. ASSUME NEW r \in Slots, NEW t \in Slots, r # t, r # s, t # s,
               Redeems(r)', Redeems(t)', code'[r] = code'[t]
        PROVE  FALSE
    BY <1>1, <2>2, OthersKept DEF Kept, Redeems, RedeemedAlone
  <2> QED
    BY <2>1, <2>2 DEF RedeemedAlone
<1> QED
  BY <1>1, StepActs DEF slots, vars, RedeemedAlone, Redeems

\* The code a request redeems has had no effect, for nobody else redeems it.
LEMMA UnspentStep ==
  ASSUME AccountsInv, AccountsInv', SpentInv, [Next]_vars
  PROVE  Unspent'
<1> USE DEF AccountsInv, SpentInv
<1> SUFFICES ASSUME NEW s \in Slots, Redeems(s)' PROVE otp'[code'[s]].spent = 0
  BY DEF Unspent
<1>1. otp'[code'[s]] # NULL /\ code'[s] \in OtpIds
  BY DEF SlotOK, Redeems
<1>2. CASE \E r \in Slots : Acts(r)
  <2> PICK r \in Slots : Acts(r)
    BY <1>2
  <2>1. CASE Redeems(s) /\ code'[s] = code[s]
    <3>1. otp[code[s]] # NULL /\ otp[code[s]].spent = 0
      BY <2>1 DEF Unspent, SlotOK, Redeems
    <3>2. CASE RowsAge
      BY <1>1, <2>1, <3>1, <3>2 DEF RowsAge
    <3>3. ASSUME NEW t \in Slots, RowSent(t) PROVE otp'[code'[s]].spent = 0
      BY <1>1, <2>1, <3>1, <3>3 DEF RowSent, TypeOK
    <3>4. ASSUME NEW t \in Slots, RowSpent(t) PROVE otp'[code'[s]].spent = 0
      <4>1. t # s
        BY <3>4 DEF RowSpent, Finish, Redeems, TypeOK
      <4>2. code[t] # code[s]
        BY <2>1, <3>4, <4>1 DEF RowSpent, Redeems, RedeemedAlone
      <4> QED
        BY <1>1, <2>1, <3>1, <3>4, <4>2 DEF RowSpent, TypeOK
    <3> QED
      BY <3>2, <3>3, <3>4, CodesChange
  <2>2. CASE ~(Redeems(s) /\ code'[s] = code[s])
    <3>1. r = s
      BY <2>2, OthersKept DEF Kept, Redeems
    <3>2. ~otp[code'[s]].isUsed /\ UNCHANGED otp
      BY <2>2, <3>1, Redeemer
    <3>3. otp[code'[s]] \in OtpRow
      BY <1>1, <3>2 DEF TypeOK
    <3> QED
      BY <1>1, <3>2, <3>3 DEF TablesOK, UsedBeforeEffect, OtpRow
  <2> QED
    BY <2>1, <2>2
<1>3. CASE UNCHANGED slots
  <2>1. Redeems(s) /\ code'[s] = code[s] /\ \A t \in Slots : ~Finish(t) \/ pc[t] = "idle"
    BY <1>3 DEF slots, Redeems, Finish, TypeOK
  <2>2. otp[code[s]].spent = 0
    BY <2>1 DEF Unspent
  <2>3. RowsAge
    BY <2>1, CodesChange DEF RowSent, RowSpent
  <2> QED
    BY <1>1, <2>1, <2>2, <2>3 DEF RowsAge
<1> QED
  BY <1>2, <1>3, StepActs DEF vars

\* A code nobody has spent is spent at most once.
LEMMA SpentStep ==
  ASSUME AccountsInv, AccountsInv', MarkedAlone', SpentInv, [Next]_vars
  PROVE  SpentInv'
<1>1. ASSUME RowsAge PROVE OtpSingleUse'
  BY <1>1 DEF RowsAge, SpentInv, OtpSingleUse
<1>2. ASSUME NEW s \in Slots, RowSent(s) PROVE OtpSingleUse'
  BY <1>2 DEF RowSent, SpentInv, OtpSingleUse, AccountsInv, TypeOK
<1>3. ASSUME NEW s \in Slots, RowSpent(s) PROVE OtpSingleUse'
  <2>1. otp[code[s]].spent = 0
    BY <1>3 DEF RowSpent, SpentInv, Unspent, Redeems
  <2> QED
    BY <1>3, <2>1 DEF RowSpent, SpentInv, OtpSingleUse, AccountsInv, TypeOK
<1>4. OtpSingleUse'
  BY <1>1, <1>2, <1>3, CodesChange
<1> QED
  BY <1>4, AloneStep, UnspentStep DEF SpentInv

\* However else requests interleave, fail or write back stale: if finding and
\* marking a code were one step, a code would have its effect once.
THEOREM CodesSpentOnceUnderLock == Spec /\ []MarkedAlone => []OtpSingleUse
<1>1. AccountsInv /\ AccountsInv' /\ MarkedAlone' /\ SpentInv /\ [Next]_vars => SpentInv'
  BY SpentStep
<1>2. Init => SpentInv
  BY DEF Init, SpentInv, OtpSingleUse, RedeemedAlone, Unspent, Redeems
<1>3. SpentInv => OtpSingleUse
  BY DEF SpentInv
<1> QED
  BY <1>1, <1>2, <1>3, Accounting, PTL DEF Spec

-----------------------------------------------------------------------------
(***************************************************************************)
(* resendOtp sends no code while there is a young one, provided that one   *)
(* request at a time is about to send a code to a number: what resendOtp   *)
(* found when it looked holds until it sends.                              *)
(***************************************************************************)
SendersAlone ==
  \A r, s \in Slots :
    /\ pc[r] = "sending" /\ pc[s] = "sending" /\ op[s] = "resend"
    /\ number[r] = number[s] /\ purpose[r] = purpose[s]
    => r = s

NoneRecent ==
  \A s \in Slots :
    op[s] = "resend" /\ pc[s] = "sending" => ~Recent(number[s], purpose[s])

\* A code becomes young only when it is sent.
LEMMA RecentSent ==
  ASSUME AccountsInv, [Next]_vars, NEW n \in Phones, NEW purp \in Purposes,
         ~Recent(n, purp),
         \A t \in Slots : RowSent(t) => ~(number[t] = n /\ purpose[t] = purp)
  PROVE  ~Recent(n, purp)'
<1>1. CASE RowsAge
  BY <1>1 DEF RowsAge, Recent
<1>2. ASSUME NEW t \in Slots, RowSent(t) PROVE ~Recent(n, purp)'
  BY <1>2 DEF RowSent, Recent, AccountsInv, TypeOK
<1>3. ASSUME NEW t \in Slots, RowSpent(t) PROVE ~Recent(n, purp)'
  BY <1>3 DEF RowSpent, Recent, AccountsInv, TypeOK
<1> QED
  BY <1>1, <1>2, <1>3, CodesChange

\* A request that comes to send again has just found that there is no young code.
LEMMA Resender ==
  ASSUME AccountsInv, NEW s \in Slots, Acts(s), pc'[s] = "sending", op'[s] = "resend"
  PROVE  /\ ~Recent(number'[s], purpose'[s]) /\ UNCHANGED otp
<1> USE DEF AccountsInv
<1>1. ~Finish(s)
  BY DEF Finish, TypeOK
<1>2. ~Request(s)
  <2>1. ASSUME NEW n \in Phones,
               \/ RegisterCheck(s, n) \/ ForgotCheck(s, n)
               \/ \E purp \in Resendable : ResendCheck(s, n, purp)
               \/ \E i \in OtpIds : VerifyFind(s, n, i) \/ ResetFind(s, n, i)
        PROVE  FALSE
    BY <2>1 DEF RegisterCheck, ForgotCheck, ResendCheck, VerifyFind, ResetFind, FindOtp,
       Begin, TypeOK
  <2>2. ASSUME NEW u \in Users,
               \/ AdminLoad(s, u) \/ Login(s, u) \/ RegisterAsProvider(s, u)
               \/ Authenticate(s, u)
        PROVE  FALSE
    BY <2>2 DEF AdminLoad, Login, RegisterAsProvider, Authenticate, Begin, TypeOK
  <2> QED
    BY <2>1, <2>2 DEF Request
<1>3. CASE ResendCooldown(s)
  BY <1>1, <1>3 DEF ResendCooldown, Goto, tables
<1>4. ~RegisterWallet(s)
  BY DEF RegisterWallet, SlotOK
<1>5. ~(RegisterInsert(s) \/ SendOtp(s) \/ StoreUsed(s) \/ LoadTarget(s) \/ UpdateCheck(s)
          \/ SaveSelect(s) \/ SaveUpdate(s) \/ SaveRefused(s))
  BY <1>1 DEF RegisterInsert, Insert, SendOtp, StoreUsed, LoadTarget, UpdateCheck, SaveSelect,
     SaveUpdate, SaveRefused, Goto, TypeOK
<1> QED
  BY <1>1, <1>2, <1>3, <1>4, <1>5 DEF Acts, Continue, Fail

\* What resendOtp found of the cooldown holds until it sends its code, for no
\* other request sends one to that number.
LEMMA NoneRecentStep ==
  ASSUME AccountsInv, AccountsInv', SendersAlone, NoneRecent, [Next]_vars
  PROVE  NoneRecent'
<1> USE DEF AccountsInv
<1> SUFFICES ASSUME NEW s \in Slots, op'[s] = "resend", pc'[s] = "sending"
             PROVE  ~Recent(number[s], purpose[s])'
  BY DEF NoneRecent
<1>1. CASE Acts(s)
  <2>1. ~Recent(number'[s], purpose'[s]) /\ UNCHANGED otp
    BY <1>1, Resender
  <2> QED
    BY <2>1 DEF Recent
<1>2. CASE ~Acts(s)
  <2>1. op[s] = "resend" /\ pc[s] = "sending" /\ number'[s] = number[s]
        /\ purpose'[s] = purpose[s]
    BY <1>2, OthersKept, StepActs DEF Kept, slots, vars
  <2>2. number[s] \in Phones /\ purpose[s] \in Purposes /\ ~Recent(number[s], purpose[s])
    BY <2>1 DEF SlotOK, NoneRecent
  <2>3. ASSUME NEW t \in Slots, RowSent(t)
        PROVE  ~(number[t] = number[s] /\ purpose[t] = purpose[s])
    <3>1. t # s /\ pc[t] = "sending"
      BY <2>3 DEF RowSent, Finish, TypeOK
    <3> QED
      BY <2>1, <3>1 DEF SendersAlone
  <2>4. PICK n \in Phones, purp \in Purposes : n = number[s] /\ purp = purpose[s]
    BY <2>2
  <2>5. ~Recent(n, purp)'
    BY <2>2, <2>3, <2>4, RecentSent
  <2> QED
    BY <2>1, <2>4, <2>5 DEF Recent
<1> QED
  BY <1>1, <1>2

\* A step at which resendOtp sends a code only if none is young.
SendsLate ==
  \A s \in Slots, i \in OtpIds :
    op[s] = "resend" /\ pc[s] = "sending" /\ pc'[s] = "idle"
      /\ otp[i] = NULL /\ otp'[i] # NULL
    => ~Recent(otp'[i].phone, otp'[i].purpose)

\* resendOtp sends to the number, and for the purpose, it looked for.
LEMMA SendStep ==
  ASSUME AccountsInv, NoneRecent, [Next]_vars
  PROVE  SendsLate
<1> USE DEF AccountsInv
<1> SUFFICES ASSUME NEW s \in Slots, NEW i \in OtpIds, op[s] = "resend",
                    pc[s] = "sending", pc'[s] = "idle", otp[i] = NULL, otp'[i] # NULL
             PROVE  ~Recent(otp'[i].phone, otp'[i].purpose)
  BY DEF SendsLate
<1>1. ~RowsAge
  BY DEF RowsAge
<1>2. ASSUME NEW t \in Slots, RowSpent(t) PROVE FALSE
  BY <1>2 DEF RowSpent, TypeOK
<1>3. ASSUME NEW t \in Slots, RowSent(t)
      PROVE  ~Recent(otp'[i].phone, otp'[i].purpose)
  <2>1. t = s
    BY <1>3 DEF RowSent, Finish, TypeOK
  <2>2. otp'[i].phone = number[s] /\ otp'[i].purpose = purpose[s]
    BY <1>3, <2>1 DEF RowSent, TypeOK
  <2> QED
    BY <2>2 DEF NoneRecent
<1> QED
  BY <1>1, <1>2, <1>3, CodesChange

\* However else requests interleave: if looking for a young code and sending one
\* were one step, resendOtp would keep the cooldown.
THEOREM CooldownUnderLock == Spec /\ []SendersAlone => CooldownKept
<1>1. AccountsInv /\ AccountsInv' /\ SendersAlone /\ NoneRecent /\ [Next]_vars => NoneRecent'
  BY NoneRecentStep
<1>2. Init => NoneRecent
  BY DEF Init, NoneRecent
<1>3. AccountsInv /\ NoneRecent /\ [Next]_vars => [SendsLate]_vars
  BY SendStep
<1>4. Spec /\ []SendersAlone => [][SendsLate]_vars
  BY <1>1, <1>2, <1>3, Accounting, PTL DEF Spec
<1> QED
  BY <1>4 DEF CooldownKept, SendsLate

-----------------------------------------------------------------------------
(***************************************************************************)
(* One request at a time holds an entity of a user, as it would if findOne *)
(* were a SELECT ... FOR UPDATE in the transaction of the save.  Then the  *)
(* entity a handler saves is the row as it is, with the handler's patch,   *)
(* so its UPDATE is the one change the handler is named for.               *)
(***************************************************************************)
Holds(s) == pc[s] \in {"checking", "loaded", "diffed"}

UsersLocked ==
  \A r, s \in Slots : Holds(r) /\ Holds(s) /\ target[r] = target[s] => r = s

SaveSlot(s) ==
  /\ Holds(s) =>
       /\ Found(target[s])
       /\ \E patch \in Patches(op[s], user[target[s]]) :
            entity[s] = Assign(user[target[s]], patch)
  /\ pc[s] = "diffed" =>
       changed[s] = Changed(entity[s], user[target[s]], {}) \cap Held(op[s])

SavesInv == \A s \in Slots : SaveSlot(s)

\* What a patch does to a user: it verifies it, sets its status, removes it, or
\* sets what leaves its standing alone.
Same(row, e, cols) == \A col \in cols : e[col] = row[col]

Effect(row, e) ==
  \/ /\ e.status = "ACTIVE" /\ e.phoneVerified
     /\ Same(row, e, {"phone", "password", "deletedAt"})
  \/ /\ e.status \in {"ACTIVE", "SUSPENDED", "BANNED"}
     /\ Same(row, e, {"phone", "phoneVerified", "password", "deletedAt"})
  \/ Same(row, e, {"status", "phoneVerified", "deletedAt"})
  \/ /\ e.deletedAt
     /\ Same(row, e, {"phone", "status", "phoneVerified", "password"})

\* save stores the whole patch: a column it leaves out of its UPDATE, because
\* the entity does not hold it, is one the patch leaves alone.
LEMMA SavedUser ==
  ASSUME NEW row \in UserRow, NEW o \in Op, NEW patch \in Patches(o, row), NEW e,
         e = Assign(row, patch)
  PROVE  /\ Updated(row, e, Changed(e, row, {}) \cap Held(o)) = e
         /\ Effect(row, e)
<1>0. e \in UserRow
  BY PatchedUser
<1>1. ASSUME NEW held, \A col \in UserColumns \ held : e[col] = row[col]
      PROVE  Updated(row, e, Changed(e, row, {}) \cap held) = e
  <2>1. DOMAIN row = UserColumns /\ DOMAIN e = UserColumns
        /\ e = [col \in UserColumns |-> e[col]]
    BY <1>0 DEF UserRow, UserColumns
  <2> QED
    BY <1>1, <2>1 DEF Updated, Changed
<1>2. CASE o = "verify"
  <2>1. patch = [phoneVerified |-> TRUE, status |-> "ACTIVE"] /\ Held(o) = UserColumns
    BY <1>2 DEF Patches, Held
  <2>2. Effect(row, e)
    BY <2>1 DEF Assign, UserRow, Effect, Same
  <2> QED
    BY <1>1, <2>1, <2>2
<1>3. CASE o \in {"reset", "changePassword"}
  <2>1. PICK w \in Passwords : patch = [password |-> w]
    BY <1>3 DEF Patches
  <2>2. Same(row, e, UserColumns \ {"password"})
    BY <2>1 DEF Assign, UserRow, UserColumns, Same
  <2>3. UserColumns \ Held(o) \subseteq UserColumns \ {"password"}
    BY <1>3 DEF Held, UserColumns
  <2>4. Effect(row, e)
    BY <2>2 DEF Effect, Same, UserColumns
  <2> QED
    BY <1>1, <2>2, <2>3, <2>4 DEF Same
<1>4. CASE o \in {"addToken", "removeToken"}
  <2>1. PICK ts : patch = [fcmTokens |-> ts]
    BY <1>4 DEF Patches
  <2>2. Same(row, e, UserColumns \ {"fcmTokens"}) /\ Held(o) = UserColumns
    BY <1>4, <2>1 DEF Assign, UserRow, UserColumns, Same, Held
  <2>3. Effect(row, e)
    BY <2>2 DEF Effect, Same, UserColumns
  <2> QED
    BY <1>1, <2>2, <2>3
<1>5. CASE o \in {"suspend", "ban", "activate", "unban"}
  <2>1. PICK st \in {"ACTIVE", "SUSPENDED", "BANNED"} : patch = [status |-> st]
    BY <1>5 DEF Patches
  <2>2. e.status = st /\ Same(row, e, UserColumns \ {"status"}) /\ Held(o) = UserColumns
    BY <1>5, <2>1 DEF Assign, UserRow, UserColumns, Same, Held
  <2>3. Effect(row, e)
    BY <2>2 DEF Effect, Same, UserColumns
  <2> QED
    BY <1>1, <2>2, <2>3
<1>6. CASE o = "update"
  <2>1. PICK n \in Phones, w \in {row.password, UNHASHED} :
          patch = [phone |-> n, password |-> w]
    BY <1>6 DEF Patches
  <2>2. Same(row, e, UserColumns \ {"phone", "password"}) /\ Held(o) = UserColumns
    BY <1>6, <2>1 DEF Assign, UserRow, UserColumns, Same, Held
  <2>3. Effect(row, e)
    BY <2>2 DEF Effect, Same, UserColumns
  <2> QED
    BY <1>1, <2>2, <2>3
<1>7. CASE o = "remove"
  <2>1. patch = [deletedAt |-> TRUE] /\ Held(o) = {"deletedAt"}
    BY <1>7 DEF Patches, Held
  <2>2. e.deletedAt /\ Same(row, e, UserColumns \ {"deletedAt"})
    BY <2>1 DEF Assign, UserRow, UserColumns, Same
  <2>3. Effect(row, e)
    BY <2>2 DEF Effect, Same, UserColumns
  <2> QED
    BY <1>1, <2>1, <2>2, <2>3 DEF Same
<1>8. CASE o \notin {"verify", "reset", "changePassword", "addToken", "removeToken",
                     "suspend", "ban", "activate", "unban", "update", "remove"}
  <2>1. patch = <<>>
    BY <1>8 DEF Patches
  <2>2. Same(row, e, UserColumns)
    BY <2>1 DEF Assign, UserRow, UserColumns, Same
  <2>3. Effect(row, e)
    BY <2>2 DEF Effect, Same, UserColumns
  <2> QED
    BY <1>1, <2>2, <2>3 DEF Same
<1> QED
  BY <1>2, <1>3, <1>4, <1>5, <1>6, <1>7, <1>8

\* The row of a user that a request holds is written by no other request.
LEMMA HeldRow ==
  ASSUME AccountsInv, SavesInv, UsersLocked, NEW s \in Slots, Acts(s),
         NEW r \in Slots, r # s, Holds(r)
  PROVE  user'[target[r]] = user[target[r]]
<1> USE DEF AccountsInv
<1>1. target[r] \in Users /\ user[target[r]] # NULL
  BY DEF Holds, SlotOK
<1>2. CASE RegisterInsert(s)
  BY <1>1, <1>2 DEF RegisterInsert, Insert, TypeOK
<1>3. CASE SaveUpdate(s)
  <2>1. target[s] # target[r]
    BY <1>3 DEF SaveUpdate, Holds, UsersLocked
  <2> QED
    BY <1>1, <1>3, <2>1 DEF SaveUpdate, TypeOK
<1>4. CASE Request(s) \/ Fail(s)
  BY <1>4, Begun DEF Fail, tables
<1> QED
  BY <1>2, <1>3, <1>4, UsersWritten DEF Acts

\* The row a handler loaded is the row it saves.
LEMMA SavesStep ==
  ASSUME AccountsInv, SavesInv, UsersLocked, [Next]_vars
  PROVE  SavesInv'
<1> USE DEF AccountsInv
<1>1. ASSUME NEW s \in Slots, Acts(s), SaveSlot(s)' PROVE SavesInv'
  <2> SUFFICES ASSUME NEW r \in Slots, r # s PROVE SaveSlot(r)'
    BY <1>1 DEF SavesInv
  <2>1. Kept(r)
    BY <1>1, OthersKept
  <2>2. CASE Holds(r)
    <3>1. user'[target[r]] = user[target[r]]
      BY <1>1, <2>2, HeldRow
    <3> QED
      BY <2>1, <3>1 DEF Kept, SavesInv, SaveSlot, Found, Holds
  <2>3. CASE ~Holds(r)
    BY <2>1, <2>3 DEF Kept, Holds, SaveSlot
  <2> QED
    BY <2>2, <2>3
<1>2. ASSUME NEW s \in Slots, Acts(s), ~Holds(s)' PROVE SavesInv'
  BY <1>1, <1>2 DEF SaveSlot, Holds
<1>3. ASSUME NEW s \in Slots, NEW u \in Users, NEW o \in Op,
             NEW at \in {"checking", "loaded"},
             Acts(s), Begin(s, o, u, NULL, at), LoadUser(s, o, u), Found(u), UNCHANGED user
      PROVE  SavesInv'
  <2>1. pc'[s] = at /\ op'[s] = o /\ target'[s] = u
    BY <1>3 DEF Begin, TypeOK
  <2>2. \E patch \in Patches(o, user[u]) : entity'[s] = Assign(user[u], patch)
    BY <1>3 DEF LoadUser, TypeOK
  <2>3. Found(u)'
    BY <1>3 DEF Found
  <2> QED
    BY <1>1, <1>3, <2>1, <2>2, <2>3 DEF SaveSlot, Found
<1>4. ASSUME NEW s \in Slots, Request(s) PROVE SavesInv'
  <2>0. Acts(s) /\ UNCHANGED user
    BY <1>4, Begun DEF Acts, tables
  <2>1. ASSUME NEW n \in Phones,
               \/ RegisterCheck(s, n) \/ ForgotCheck(s, n)
               \/ \E purp \in Resendable : ResendCheck(s, n, purp)
               \/ \E i \in OtpIds : VerifyFind(s, n, i) \/ ResetFind(s, n, i)
        PROVE  ~Holds(s)'
    BY <2>1 DEF RegisterCheck, ResendCheck, ForgotCheck, VerifyFind, ResetFind, FindOtp,
       Begin, TypeOK, Holds
  <2>2. ASSUME NEW u \in Users, AdminLoad(s, u) PROVE SavesInv'
    BY <1>3, <2>0, <2>2 DEF AdminLoad, Op
  <2>3. ASSUME NEW u \in Users, Login(s, u) \/ RegisterAsProvider(s, u) PROVE SavesInv'
    BY <1>3, <2>0, <2>3 DEF Login, RegisterAsProvider, InGoodStanding, Op
  <2>4. ASSUME NEW u \in Users, Authenticate(s, u) PROVE ~Holds(s)'
    BY <2>4 DEF Authenticate, Begin, TypeOK, Holds
  <2> QED
    BY <1>2, <1>4, <2>0, <2>1, <2>2, <2>3, <2>4 DEF Request
<1>5. ASSUME NEW s \in Slots,
             \/ RegisterInsert(s) \/ RegisterWallet(s) \/ ResendCooldown(s)
             \/ SendOtp(s) \/ StoreUsed(s) \/ SaveUpdate(s) \/ SaveRefused(s) \/ Fail(s)
      PROVE  SavesInv'
  <2>1. Acts(s)
    BY <1>5 DEF Acts, Continue
  <2>2. ~Holds(s)'
    BY <1>5 DEF RegisterInsert, Insert, RegisterWallet, ResendCooldown, SendOtp, StoreUsed,
       SaveUpdate, SaveRefused, Fail, Goto, Finish, TypeOK, Holds
  <2> QED
    BY <1>2, <2>1, <2>2
<1>6. ASSUME NEW s \in Slots, LoadTarget(s) PROVE SavesInv'
  <2>0. Acts(s)
    BY <1>6 DEF Acts, Continue
  <2>1. CASE Finish(s)
    BY <1>2, <2>0, <2>1 DEF Finish, TypeOK, Holds
  <2>2. ASSUME NEW u \in Users, Proceeds(s, u), LoadUser(s, op[s], u),
               pc' = [pc EXCEPT ![s] = "loaded"], target' = [target EXCEPT ![s] = u],
               UNCHANGED <<op, number, purpose, code, changed>>
        PROVE  SavesInv'
    <3>1. /\ pc'[s] = "loaded" /\ target'[s] = u /\ UNCHANGED user /\ Found(u)'
          /\ \E patch \in Patches(op[s], user[u]) : entity'[s] = Assign(user[u], patch)
      BY <1>6, <2>2 DEF LoadTarget, LoadUser, Proceeds, Found, tables, TypeOK
    <3> QED
      BY <1>1, <2>0, <2>2, <3>1 DEF SaveSlot, Found
  <2> QED
    BY <1>6, <2>1, <2>2 DEF LoadTarget
<1>7. ASSUME NEW s \in Slots, UpdateCheck(s) PROVE SavesInv'
  <2>0. Acts(s)
    BY <1>7 DEF Acts, Continue
  <2>1. CASE Finish(s)
    BY <1>2, <2>0, <2>1 DEF Finish, TypeOK, Holds
  <2>2. CASE Goto(s, "loaded")
    <3>1. /\ pc[s] = "checking" /\ pc'[s] = "loaded"
          /\ UNCHANGED <<user, op, target, entity>>
      BY <1>7, <2>2 DEF UpdateCheck, Goto, tables, TypeOK
    <3> QED
      BY <1>1, <2>0, <3>1 DEF SavesInv, SaveSlot, Found, Holds
  <2> QED
    BY <1>7, <2>1, <2>2 DEF UpdateCheck
<1>8. ASSUME NEW s \in Slots, SaveSelect(s) PROVE SavesInv'
  <2>0. Acts(s)
    BY <1>8 DEF Acts, Continue
  <2>1. /\ pc[s] = "loaded" /\ pc'[s] = "diffed"
        /\ changed'[s] = Changed(entity[s], user[target[s]], {}) \cap Held(op[s])
        /\ UNCHANGED <<user, op, target, entity>>
    BY <1>8 DEF SaveSelect, tables, TypeOK
  <2> QED
    BY <1>1, <2>0, <2>1 DEF SavesInv, SaveSlot, Found, Holds
<1>9. CASE (\E i \in OtpIds : Age(i) \/ Expire(i)) \/ UNCHANGED vars
  BY <1>9 DEF Age, Expire, vars, tables, slots, SavesInv, SaveSlot, Found, Holds
<1> QED
  BY <1>4, <1>5, <1>6, <1>7, <1>8, <1>9 DEF Next, Continue

\* The entities at hand are the rows as they are, always.
LEMMA Saves == Spec /\ []UsersLocked => [](AccountsInv /\ SavesInv)
<1>1. AccountsInv /\ SavesInv /\ UsersLocked /\ [Next]_vars => SavesInv'
  BY SavesStep
<1>2. Init => SavesInv
  BY DEF Init, SavesInv, SaveSlot, Holds
<1> QED
  BY <1>1, <1>2, Accounting, PTL DEF Spec

(***************************************************************************)
(* The columns an account shows, as functions and sets of users.          *)
(***************************************************************************)
NumberOf == [u \in Users |-> IF user[u] = NULL THEN NULL ELSE user[u].phone]
StatusOf == [u \in Users |-> IF user[u] = NULL THEN "NONE" ELSE user[u].status]
VerifiedOf == {u \in Users : user[u] # NULL /\ user[u].phoneVerified}
PasswordOf == [u \in Users |-> IF user[u] = NULL THEN NULL ELSE user[u].password]
RemovedOf == {u \in Users : user[u] # NULL /\ user[u].deletedAt}

Shown == <<NumberOf, StatusOf, VerifiedOf, PasswordOf, RemovedOf>>

\* A user whose row is replaced: what becomes of the columns shown.
LEMMA ShownAfter ==
  ASSUME TypeOK, NEW u \in Users, NEW e \in UserRow, user' = [user EXCEPT ![u] = e]
  PROVE  /\ NumberOf' = [NumberOf EXCEPT ![u] = e.phone]
         /\ StatusOf' = [StatusOf EXCEPT ![u] = e.status]
         /\ VerifiedOf' = IF e.phoneVerified THEN VerifiedOf \cup {u}
                                             ELSE VerifiedOf \ {u}
         /\ PasswordOf' = [PasswordOf EXCEPT ![u] = e.password]
         /\ RemovedOf' = IF e.deletedAt THEN RemovedOf \cup {u} ELSE RemovedOf \ {u}
<1>1. \A v \in Users : user'[v] = IF v = u THEN e ELSE user[v]
  BY DEF TypeOK
<1>2. e # NULL /\ e.phoneVerified \in BOOLEAN /\ e.deletedAt \in BOOLEAN
  BY AccountsAssumption DEF UserRow
<1>3. StatusOf' = [StatusOf EXCEPT ![u] = e.status]
  <2>1. StatusOf' = [v \in Users |->
                     IF user'[v] = NULL THEN "NONE" ELSE user'[v].status]
    BY DEF StatusOf
  <2>2. \A v \in Users : (IF user'[v] = NULL THEN "NONE" ELSE user'[v].status)
                             = [StatusOf EXCEPT ![u] = e.status][v]
    BY <1>1, <1>2 DEF StatusOf
  <2>3. [StatusOf EXCEPT ![u] = e.status]
          = [v \in Users |-> [StatusOf EXCEPT ![u] = e.status][v]]
    BY DEF StatusOf
  <2> QED
    BY <2>1, <2>2, <2>3, Zenon
<1>4. PasswordOf' = [PasswordOf EXCEPT ![u] = e.password]
  <2>1. PasswordOf' = [v \in Users |->
                     IF user'[v] = NULL THEN NULL ELSE user'[v].password]
    BY DEF PasswordOf
  <2>2. \A v \in Users : (IF user'[v] = NULL THEN NULL ELSE user'[v].password)
                             = [PasswordOf EXCEPT ![u] = e.password][v]
    BY <1>1, <1>2 DEF PasswordOf
  <2>3. [PasswordOf EXCEPT ![u] = e.password]
          = [v \in Users |-> [PasswordOf EXCEPT ![u] = e.password][v]]
    BY DEF PasswordOf
  <2> QED
    BY <2>1, <2>2, <2>3, Zenon
<1>5. VerifiedOf' = IF e.phoneVerified THEN VerifiedOf \cup {u} ELSE VerifiedOf \ {u}
  BY <1>1, <1>2 DEF VerifiedOf
<1>6. RemovedOf' = IF e.deletedAt THEN RemovedOf \cup {u} ELSE RemovedOf \ {u}
  BY <1>1, <1>2 DEF RemovedOf
<1>7. NumberOf' = [NumberOf EXCEPT ![u] = e.phone]
  <2>1. NumberOf' = [v \in Users |->
                     IF user'[v] = NULL THEN NULL ELSE user'[v].phone]
    BY DEF NumberOf
  <2>2. \A v \in Users : (IF user'[v] = NULL THEN NULL ELSE user'[v].phone)
                             = [NumberOf EXCEPT ![u] = e.phone][v]
    BY <1>1, <1>2 DEF NumberOf
  <2>3. [NumberOf EXCEPT ![u] = e.phone]
          = [v \in Users |-> [NumberOf EXCEPT ![u] = e.phone][v]]
    BY DEF NumberOf
  <2> QED
    BY <2>1, <2>2, <2>3, Zenon
<1> QED
  BY <1>3, <1>4, <1>5, <1>6, <1>7

\* The number it gets is no other's, for the column is unique.
LEMMA FreeAfter ==
  ASSUME TypeOK, NumbersUnique', NEW u \in Users, NEW e \in UserRow,
         user' = [user EXCEPT ![u] = e]
  PROVE  Standing!Free(u, e.phone)
<1> SUFFICES ASSUME NEW v \in Users \ {u} PROVE NumberOf[v] # e.phone
  BY DEF Standing!Free, NumberOf
<1>1. user'[u] = e /\ user'[v] = user[v] /\ e # NULL
  BY AccountsAssumption DEF TypeOK
<1>2. CASE user[v] = NULL
  BY <1>2, AccountsAssumption DEF NumberOf, UserRow
<1>3. CASE user[v] # NULL
  BY <1>1, <1>3 DEF NumberOf, NumbersUnique
<1> QED
  BY <1>2, <1>3

\* The UPDATE of a user is an operation on its account, or does not show.
LEMMA SaveShows ==
  ASSUME AccountsInv, AccountsInv', SavesInv, NEW s \in Slots, SaveUpdate(s)
  PROVE  Standing!Next \/ UNCHANGED Shown
<1> USE DEF AccountsInv
<1>1. /\ pc[s] = "diffed" /\ target[s] \in Users /\ op[s] \in Op
      /\ user' = [user EXCEPT ![target[s]] =
                    Updated(user[target[s]], entity[s], changed[s])]
  BY DEF SaveUpdate, SlotOK, Busy
<1>2. PICK u \in Users, o \in Op : u = target[s] /\ o = op[s]
  BY <1>1
<1>3. Found(u) /\ user[u] \in UserRow
  BY <1>1, <1>2 DEF SavesInv, SaveSlot, Holds, Found, TypeOK
<1>4. PICK row \in UserRow : row = user[u]
  BY <1>3
<1>5. PICK patch \in Patches(o, row) : entity[s] = Assign(row, patch)
  BY <1>1, <1>2, <1>4 DEF SavesInv, SaveSlot, Holds
<1>6. PICK e \in UserRow : e = Assign(row, patch)
  BY PatchedUser
<1>7. user' = [user EXCEPT ![u] = e] /\ Effect(row, e)
  <2>1. changed[s] = Changed(e, row, {}) \cap Held(o)
    BY <1>1, <1>2, <1>4, <1>5, <1>6 DEF SavesInv, SaveSlot, Holds
  <2> QED
    <3>1. Updated(row, e, Changed(e, row, {}) \cap Held(o)) = e /\ Effect(row, e)
      BY <1>6, SavedUser
    <3>2. user' = [user EXCEPT ![u] = Updated(row, e, Changed(e, row, {}) \cap Held(o))]
      BY <1>1, <1>2, <1>4, <1>5, <1>6, <2>1
    <3> QED
      BY <3>1, <3>2
<1>8. /\ NumberOf' = [NumberOf EXCEPT ![u] = e.phone]
      /\ StatusOf' = [StatusOf EXCEPT ![u] = e.status]
      /\ VerifiedOf' = IF e.phoneVerified THEN VerifiedOf \cup {u} ELSE VerifiedOf \ {u}
      /\ PasswordOf' = [PasswordOf EXCEPT ![u] = e.password]
      /\ RemovedOf' = IF e.deletedAt THEN RemovedOf \cup {u} ELSE RemovedOf \ {u}
  BY <1>7, ShownAfter
<1>9. /\ StatusOf[u] = row.status /\ PasswordOf[u] = row.password
      /\ NumberOf[u] = row.phone
      /\ u \in VerifiedOf <=> row.phoneVerified
      /\ u \notin RemovedOf /\ ~row.deletedAt /\ row.status # "NONE"
  BY <1>3, <1>4 DEF Found, NumberOf, StatusOf, PasswordOf, VerifiedOf, RemovedOf, UserRow,
         Status
<1>10. Standing!Known(u)
  BY <1>9 DEF Standing!Known, StatusOf, RemovedOf
<1>11. /\ StatusOf = [StatusOf EXCEPT ![u] = row.status]
       /\ PasswordOf = [PasswordOf EXCEPT ![u] = row.password]
       /\ NumberOf = [NumberOf EXCEPT ![u] = row.phone]
  BY <1>9 DEF NumberOf, StatusOf, PasswordOf
<1>12. CASE /\ e.status = "ACTIVE" /\ e.phoneVerified
            /\ Same(row, e, {"phone", "password", "deletedAt"})
  <2>1. Standing!Verify(u)
    BY <1>8, <1>9, <1>10, <1>11, <1>12
       DEF Standing!Verify, Same, NumberOf, StatusOf, VerifiedOf, PasswordOf, RemovedOf
  <2> QED
    BY <2>1 DEF Standing!Next
<1>13. CASE /\ e.status \in {"ACTIVE", "SUSPENDED", "BANNED"}
            /\ Same(row, e, {"phone", "phoneVerified", "password", "deletedAt"})
  <2>1. Standing!SetStatus(u, e.status)
    BY <1>8, <1>9, <1>10, <1>11, <1>13
       DEF Standing!SetStatus, Same, NumberOf, StatusOf, VerifiedOf, PasswordOf, RemovedOf
  <2> QED
    BY <1>13, <2>1 DEF Standing!Next
<1>14. CASE Same(row, e, {"status", "phoneVerified", "deletedAt"})
  <2>1. Standing!Free(u, e.phone)
    BY <1>7, FreeAfter DEF TablesOK
  <2>2. Standing!Update(u, e.phone, e.password)
    BY <1>8, <1>9, <1>10, <1>11, <1>14, <2>1
       DEF Standing!Update, Same, NumberOf, StatusOf, VerifiedOf, PasswordOf, RemovedOf
  <2>3. e.password \in Passwords \cup {UNHASHED, NULL} /\ e.phone \in Phones \cup {NULL}
    BY DEF UserRow
  <2> QED
    BY <2>2, <2>3 DEF Standing!Next
<1>15. CASE /\ e.deletedAt
            /\ Same(row, e, {"phone", "status", "phoneVerified", "password"})
  <2>1. Standing!Remove(u)
    BY <1>8, <1>9, <1>10, <1>11, <1>15
       DEF Standing!Remove, Same, NumberOf, StatusOf, VerifiedOf, PasswordOf, RemovedOf
  <2> QED
    BY <2>1 DEF Standing!Next
<1> QED
  BY <1>7, <1>12, <1>13, <1>14, <1>15 DEF Effect

\* The INSERT of a user creates its account.
LEMMA InsertShows ==
  ASSUME AccountsInv, AccountsInv', NEW s \in Slots, RegisterInsert(s)
  PROVE  Standing!Next \/ UNCHANGED Shown
<1> USE DEF AccountsInv
<1>1. CASE UNCHANGED user
  BY <1>1 DEF Shown, NumberOf, StatusOf, VerifiedOf, PasswordOf, RemovedOf
<1>2. ASSUME NEW u \in Users, user[u] = NULL, Insert(s, u) PROVE Standing!Next
  <2>1. PICK n \in Phones : n = number[s]
    BY DEF RegisterInsert, SlotOK
  <2>2. PICK w \in Passwords : user' = [user EXCEPT ![u] = NewUser(n, w)]
    BY <1>2, <2>1 DEF Insert
  <2>3. PICK e \in UserRow :
          /\ user' = [user EXCEPT ![u] = e] /\ e.status = "PENDING_VERIFICATION"
          /\ e.phone = n /\ e.password = w /\ ~e.phoneVerified /\ ~e.deletedAt
    BY <2>2, NewUserRow
  <2>4. /\ NumberOf' = [NumberOf EXCEPT ![u] = n]
        /\ StatusOf' = [StatusOf EXCEPT ![u] = "PENDING_VERIFICATION"]
        /\ VerifiedOf' = VerifiedOf \ {u}
        /\ PasswordOf' = [PasswordOf EXCEPT ![u] = w]
        /\ RemovedOf' = RemovedOf \ {u}
    <3>1. /\ NumberOf' = [NumberOf EXCEPT ![u] = e.phone]
          /\ StatusOf' = [StatusOf EXCEPT ![u] = e.status]
          /\ VerifiedOf' = IF e.phoneVerified THEN VerifiedOf \cup {u}
                                              ELSE VerifiedOf \ {u}
          /\ PasswordOf' = [PasswordOf EXCEPT ![u] = e.password]
          /\ RemovedOf' = IF e.deletedAt THEN RemovedOf \cup {u} ELSE RemovedOf \ {u}
      BY <2>3, ShownAfter
    <3> QED
      BY <2>3, <3>1
  <2>5. u \notin VerifiedOf /\ u \notin RemovedOf /\ StatusOf[u] = "NONE"
    BY <1>2 DEF StatusOf, VerifiedOf, RemovedOf
  <2>6. Standing!Free(u, n)
    BY <2>3, FreeAfter DEF TablesOK
  <2>7. Standing!Create(u, n, w)
    BY <2>4, <2>5, <2>6
       DEF Standing!Create, NumberOf, StatusOf, VerifiedOf, PasswordOf, RemovedOf
  <2> QED
    BY <2>7 DEF Standing!Next
<1> QED
  BY <1>1, <1>2 DEF RegisterInsert

\* No other step touches a user.
LEMMA StandingStep ==
  ASSUME AccountsInv, AccountsInv', SavesInv, [Next]_vars
  PROVE  [Standing!Next]_Shown
<1>1. ASSUME NEW s \in Slots, Request(s) PROVE UNCHANGED user
  BY <1>1, Begun DEF tables
<1>2. ASSUME NEW s \in Slots, Continue(s) PROVE Standing!Next \/ UNCHANGED Shown
  <2>1. CASE RegisterInsert(s) \/ SaveUpdate(s)
    BY <2>1, InsertShows, SaveShows
  <2>2. CASE ~(RegisterInsert(s) \/ SaveUpdate(s))
    <3>1. UNCHANGED user
      BY <1>2, <2>2, UsersWritten
    <3> QED
      BY <3>1 DEF Shown, NumberOf, StatusOf, VerifiedOf, PasswordOf, RemovedOf
  <2> QED
    BY <2>1, <2>2
<1>3. UNCHANGED user => UNCHANGED Shown
  BY DEF Shown, NumberOf, StatusOf, VerifiedOf, PasswordOf, RemovedOf
<1>4. ASSUME (\E s \in Slots : Fail(s)) \/ (\E i \in OtpIds : Age(i) \/ Expire(i))
               \/ UNCHANGED vars
      PROVE  UNCHANGED user
  BY <1>4 DEF Fail, Age, Expire, vars, tables
<1> QED
  BY <1>1, <1>2, <1>3, <1>4 DEF Next

\* If one request at a time held the entity of a user, the handlers would
\* implement accounts whose operations change what they are named for and
\* nothing else, no two with one number, whatever else interleaves and wherever
\* requests fail.
THEOREM StandingUnderLock == Spec /\ []UsersLocked => ImplementsStanding
<1>1. Init => Standing!Init
  <2> SUFFICES ASSUME Init PROVE Standing!Init
    OBVIOUS
  <2>1. user \in [Users -> UserRow \cup {NULL}]
    BY InitHolds DEF AccountsInv, TypeOK
  <2> QED
    BY <2>1 DEF Standing!Init, Standing!Statuses, UserRow, Status
<1>2. AccountsInv /\ AccountsInv' /\ SavesInv /\ [Next]_vars
        => [Standing!Next]_(Standing!vars)
  BY StandingStep
     DEF Shown, NumberOf, StatusOf, VerifiedOf, PasswordOf, RemovedOf, Standing!vars
<1> QED
  BY <1>1, <1>2, Saves, PTL DEF Spec, ImplementsStanding, Standing!Spec

\* A step that leaves the deleted users deleted.
KeepsDeleted ==
  \A u \in Users : user[u] # NULL /\ user[u].deletedAt => user'[u].deletedAt

\* Nobody saves a user that has been deleted.
LEMMA DeletedStep ==
  ASSUME AccountsInv, SavesInv, [Next]_vars
  PROVE  KeepsDeleted
<1> USE DEF AccountsInv
<1>1. ASSUME NEW s \in Slots, SaveUpdate(s) PROVE KeepsDeleted
  <2>1. Found(target[s])
    BY <1>1 DEF SaveUpdate, SavesInv, SaveSlot, Holds
  <2>2. \A u \in Users : u # target[s] => user'[u] = user[u]
    BY <1>1 DEF SaveUpdate, TypeOK
  <2> QED
    BY <2>1, <2>2 DEF Found, KeepsDeleted
<1>2. ASSUME NEW s \in Slots, RegisterInsert(s) PROVE KeepsDeleted
  BY <1>2 DEF RegisterInsert, Insert, TypeOK, KeepsDeleted
<1>3. ASSUME UNCHANGED user PROVE KeepsDeleted
  BY <1>3 DEF KeepsDeleted
<1> QED
  BY <1>1, <1>2, <1>3, Begun, UsersWritten DEF Next, Fail, Age, Expire, vars, tables

\* Under the same lock a deleted user stays deleted: no handler loads it, and
\* none saves it back from an entity it loaded before.
THEOREM DeletedForGoodUnderLock == Spec /\ []UsersLocked => DeletedStaysDeleted
<1>1. AccountsInv /\ SavesInv /\ [Next]_vars => [KeepsDeleted]_vars
  BY DeletedStep
<1>2. Spec /\ []UsersLocked => [][KeepsDeleted]_vars
  BY <1>1, Saves, PTL DEF Spec
<1> QED
  BY <1>2 DEF DeletedStaysDeleted, KeepsDeleted

-----------------------------------------------------------------------------
(***************************************************************************)
(* One slot.  Requests are served one after the other, so that each of the *)
(* conditions above holds.                                                 *)
(***************************************************************************)
OneSlot == \A r, s \in Slots : r = s

\* Whoever is served alone holds the user and the code, and sends, alone.
LEMMA Alone == ASSUME OneSlot PROVE MarkedAlone /\ SendersAlone /\ UsersLocked
BY DEF OneSlot, MarkedAlone, SendersAlone, UsersLocked

\* Served one at a time, a code has its effect once, wherever requests fail
\* between marking it and saving the user.
THEOREM CodesSpentOnce == ASSUME OneSlot PROVE Spec => []OtpSingleUse
BY Alone, CodesSpentOnceUnderLock, PTL

\* Served one at a time, resendOtp sends no code while another of that purpose
\* is young: what it looks up still holds when it sends.
THEOREM CooldownHolds == ASSUME OneSlot PROVE Spec => CooldownKept
BY Alone, CooldownUnderLock, PTL

\* Served one at a time, the handlers implement accounts whose operations change
\* what they are named for and nothing else, and no two of which have one number.
THEOREM StandingImplemented == ASSUME OneSlot PROVE Spec => ImplementsStanding
BY Alone, StandingUnderLock, PTL

\* Served one at a time, a deleted user stays deleted.
THEOREM DeletedForGood == ASSUME OneSlot PROVE Spec => DeletedStaysDeleted
BY Alone, DeletedForGoodUnderLock, PTL
=============================================================================
