------------------------------- MODULE Accounts -------------------------------
(***************************************************************************)
(* Tables users, wallets and otps, and the handlers that write them:       *)
(* AuthService, UsersService, AdminService.banUser and unbanUser, the save *)
(* of the user in ProvidersService.register, and JwtStrategy.validate in   *)
(* front of the handlers of a signed-in user.  A slot serves one request   *)
(* after the other; every statement of a request is a step.  A request     *)
(* refused before it has written anything is no step at all.               *)
(***************************************************************************)
EXTENDS Rows, FiniteSets

CONSTANTS
  Users,        \* ids of users, a bound on the rows of table users
  Phones,       \* phone numbers
  Slots,        \* requests the process can have under way
  Requests,     \* the operations clients ask for
  Resendable,   \* the purposes clients name in resendOtp
  Passwords,    \* passwords in use
  UNHASHED,     \* a password column no password matches
  Tokens,       \* FCM tokens
  OtpIds,       \* bound on the rows of otps that are no older than ten minutes
  MaxFailures,  \* bound on statements that fail
  UserSeeds,    \* what a user's row may start as
  NULL          \* no row, no value

Status == {"ACTIVE", "SUSPENDED", "BANNED", "PENDING_VERIFICATION"}
Purposes == {"REGISTRATION", "FORGOT_PASSWORD"}

UserRow == [phone : Phones, status : Status, phoneVerified : BOOLEAN,
            password : Passwords \cup {UNHASHED}, fcmTokens : SUBSET Tokens,
            deletedAt : BOOLEAN]

UserColumns == {"phone", "status", "phoneVerified", "password", "fcmTokens",
                "deletedAt"}

\* recent: within the cooldown of two minutes.  An expired row is none at all.
\* spent is history: how often the code has had its effect.
OtpRow == [phone : Phones, purpose : Purposes, isUsed : BOOLEAN,
           recent : BOOLEAN, spent : Nat]

AdminOp == {"suspend", "activate", "ban", "unban", "update", "remove"}
OwnOp == {"changePassword", "addToken", "removeToken", "updateProfile"}
Op == AdminOp \cup OwnOp \cup {"register", "create", "resend", "forgot",
                               "verify", "reset", "login", "asProvider"}

ASSUME AccountsAssumption ==
  /\ Requests \subseteq Op
  /\ Resendable \subseteq Purposes
  /\ MaxFailures \in Nat
  /\ UserSeeds \subseteq UserRow \cup {NULL}
  /\ NULL \notin UserRow \cup OtpRow \cup Phones
  /\ IsFiniteSet(OtpIds)

VARIABLES
  user,      \* table users: the row of each id
  wallet,    \* table wallets: the users who have one
  otp,       \* table otps
  had,       \* history: the numbers each user has had
  proven,    \* history: numbers seeded verified or whose code verify accepted
  failures,  \* statements that have failed
  pc,        \* where each slot stands
  op,        \* the operation it performs
  target,    \* the user it is about
  number,    \* the phone number in its body
  purpose,   \* the purpose of the OTP it sends
  code,      \* the OTP it was given
  entity,    \* the user entity it holds
  changed    \* the columns its pending UPDATE writes

tables == <<user, wallet, otp, had, proven>>
slots == <<pc, op, target, number, purpose, code, entity, changed>>
vars == <<tables, failures, slots>>

Busy == {"absent", "created", "sending", "known", "matched", "burned",
         "admitted", "checking", "loaded", "diffed"}

TypeOK ==
  /\ user \in [Users -> UserRow \cup {NULL}]
  /\ wallet \subseteq Users
  /\ otp \in [OtpIds -> OtpRow \cup {NULL}]
  /\ had \in [Users -> SUBSET Phones]
  /\ proven \subseteq Phones
  /\ failures \in Nat
  /\ pc \in [Slots -> Busy \cup {"idle"}]
  /\ op \in [Slots -> Op \cup {NULL}]
  /\ target \in [Slots -> Users \cup {NULL}]
  /\ number \in [Slots -> Phones \cup {NULL}]
  /\ purpose \in [Slots -> Purposes \cup {NULL}]
  /\ code \in [Slots -> OtpIds \cup {NULL}]
  /\ entity \in [Slots -> UserRow \cup {NULL}]
  /\ changed \in [Slots -> SUBSET UserColumns]

\* The rows with number n.  Column phone is unique, soft-deleted rows included.
Holders(n) == {u \in Users : user[u] # NULL /\ user[u].phone = n}

Init ==
  /\ user \in [Users -> UserSeeds]
  /\ \A n \in Phones : \A u, v \in Holders(n) : u = v
  /\ wallet = {u \in Users : user[u] # NULL}
  /\ otp = [i \in OtpIds |-> NULL]
  /\ had = [u \in Users |-> IF user[u] = NULL THEN {} ELSE {user[u].phone}]
  /\ proven = {n \in Phones : \E u \in Holders(n) : user[u].phoneVerified}
  /\ failures = 0
  /\ pc = [s \in Slots |-> "idle"]
  /\ op = [s \in Slots |-> NULL]
  /\ target = [s \in Slots |-> NULL]
  /\ number = [s \in Slots |-> NULL]
  /\ purpose = [s \in Slots |-> NULL]
  /\ code = [s \in Slots |-> NULL]
  /\ entity = [s \in Slots |-> NULL]
  /\ changed = [s \in Slots |-> {}]

\* find skips soft-deleted rows.
Found(u) == user[u] # NULL /\ ~user[u].deletedAt

HasUser(n) == \E u \in Holders(n) : Found(u)

\* JwtStrategy.validate, and the status checks of login.
InGoodStanding(u) == Found(u) /\ user[u].status \notin {"SUSPENDED", "BANNED"}

\* Request o, about user u or with number n in its body, gets as far as step at.
Begin(s, o, u, n, at) ==
  /\ o \in Requests
  /\ pc[s] = "idle"
  /\ pc' = [pc EXCEPT ![s] = at]
  /\ op' = [op EXCEPT ![s] = o]
  /\ target' = [target EXCEPT ![s] = u]
  /\ number' = [number EXCEPT ![s] = n]

Goto(s, at) ==
  /\ pc' = [pc EXCEPT ![s] = at]
  /\ UNCHANGED <<op, target, number, purpose, code, entity, changed>>

\* The request is answered and leaves nothing behind in the slot.
Finish(s) ==
  /\ pc' = [pc EXCEPT ![s] = "idle"]
  /\ op' = [op EXCEPT ![s] = NULL]
  /\ target' = [target EXCEPT ![s] = NULL]
  /\ number' = [number EXCEPT ![s] = NULL]
  /\ purpose' = [purpose EXCEPT ![s] = NULL]
  /\ code' = [code EXCEPT ![s] = NULL]
  /\ entity' = [entity EXCEPT ![s] = NULL]
  /\ changed' = [changed EXCEPT ![s] = {}]

-----------------------------------------------------------------------------
(* register and UsersService.create.                                       *)

\* Bound: only a number that will be refused is tried when no id is left.
RegisterCheck(s, n) ==
  /\ ~HasUser(n)
  /\ \E u \in Users : user[u] = NULL \/ u \in Holders(n)
  /\ \E o \in {"register", "create"} : Begin(s, o, NULL, n, "absent")
  /\ UNCHANGED <<tables, failures, purpose, code, entity, changed>>

\* Fault: a new account counts as verified.
NewUserVerified(n, w) ==
  [phone |-> n, status |-> "PENDING_VERIFICATION", phoneVerified |-> TRUE,
   password |-> w, fcmTokens |-> {}, deletedAt |-> FALSE]

\* The row register inserts.
NewUser(n, w) ==
  [phone |-> n, status |-> "PENDING_VERIFICATION", phoneVerified |-> FALSE,
   password |-> w, fcmTokens |-> {}, deletedAt |-> FALSE]

\* The row is inserted under a new id u; create has nothing more to write.
Insert(s, u) ==
  /\ \E w \in Passwords : user' = [user EXCEPT ![u] = NewUser(number[s], w)]
  /\ had' = [had EXCEPT ![u] = had[u] \cup {number[s]}]
  /\ IF op[s] = "create"
       THEN Finish(s)
       ELSE /\ pc' = [pc EXCEPT ![s] = "created"]
            /\ target' = [target EXCEPT ![s] = u]
            /\ UNCHANGED <<op, number, purpose, code, entity, changed>>

\* Fault: a user who was deleted with that number is brought back.
RegisterInsertRestoring(s) ==
  /\ pc[s] = "absent"
  /\ \E u \in Users : /\ user[u] = NULL <=> Holders(number[s]) = {}
                      /\ user[u] # NULL => u \in Holders(number[s])
                      /\ Insert(s, u)
  /\ UNCHANGED <<wallet, otp, proven, failures>>

\* The look-up has skipped soft-deleted rows; the unique column does not.
RegisterInsert(s) ==
  /\ pc[s] = "absent"
  /\ IF Holders(number[s]) # {}
       THEN Finish(s) /\ UNCHANGED <<user, had>>
       ELSE \E u \in Users : user[u] = NULL /\ Insert(s, u)
  /\ UNCHANGED <<wallet, otp, proven, failures>>

RegisterWallet(s) ==
  /\ pc[s] = "created"
  /\ wallet' = wallet \cup {target[s]}
  /\ pc' = [pc EXCEPT ![s] = "sending"]
  /\ purpose' = [purpose EXCEPT ![s] = "REGISTRATION"]
  /\ UNCHANGED <<user, otp, had, proven, failures, op, target, number, code, entity,
                 changed>>

-----------------------------------------------------------------------------
(* OTPs: resendOtp, forgotPassword, verifyOtp and resetPassword.           *)

\* Fault: only a user with a wallet may ask for another code.
ResendCheckWallet(s, n, purp) ==
  /\ \E u \in Holders(n) \cap wallet : Found(u)
  /\ Begin(s, "resend", NULL, n, "known")
  /\ purpose' = [purpose EXCEPT ![s] = purp]
  /\ UNCHANGED <<tables, failures, code, entity, changed>>

ResendCheck(s, n, purp) ==
  /\ HasUser(n)
  /\ Begin(s, "resend", NULL, n, "known")
  /\ purpose' = [purpose EXCEPT ![s] = purp]
  /\ UNCHANGED <<tables, failures, code, entity, changed>>

Recent(n, purp) ==
  \E i \in OtpIds : /\ otp[i] # NULL
                    /\ otp[i].phone = n /\ otp[i].purpose = purp /\ otp[i].recent

\* Fault: resendOtp does not look for a recent code.
ResendUnchecked(s) ==
  /\ pc[s] = "known"
  /\ Goto(s, "sending")
  /\ UNCHANGED <<tables, failures>>

ResendCooldown(s) ==
  /\ pc[s] = "known"
  /\ IF Recent(number[s], purpose[s]) THEN Finish(s) ELSE Goto(s, "sending")
  /\ UNCHANGED <<tables, failures>>

\* Fault: the purpose of the code is left out.
ForgotCheckPurposeless(s, n) ==
  /\ HasUser(n)
  /\ Begin(s, "forgot", NULL, n, "sending")
  /\ UNCHANGED <<tables, failures, purpose, code, entity, changed>>

\* There is no cooldown here.
ForgotCheck(s, n) ==
  /\ HasUser(n)
  /\ Begin(s, "forgot", NULL, n, "sending")
  /\ purpose' = [purpose EXCEPT ![s] = "FORGOT_PASSWORD"]
  /\ UNCHANGED <<tables, failures, code, entity, changed>>

\* generateAndSendOtp.
SendOtp(s) ==
  /\ pc[s] = "sending"
  /\ \E i \in OtpIds :
       /\ otp[i] = NULL
       /\ otp' = [otp EXCEPT ![i] =
            [phone |-> number[s], purpose |-> purpose[s], isUsed |-> FALSE,
             recent |-> TRUE, spent |-> 0]]
  /\ Finish(s)
  /\ UNCHANGED <<user, wallet, had, proven, failures>>

\* Fault: a used code is found too.
FindOtpUsed(s, o, n, i) ==
  /\ otp[i] # NULL
  /\ otp[i].phone = n
  /\ Begin(s, o, NULL, n, "matched")
  /\ code' = [code EXCEPT ![s] = i]
  /\ UNCHANGED <<tables, failures, purpose, entity, changed>>

\* Fault: the code takes effect before it is marked as used.
FindOtpUnmarked(s, o, n, i) ==
  /\ otp[i] # NULL
  /\ otp[i].phone = n /\ ~otp[i].isUsed
  /\ Begin(s, o, NULL, n, "burned")
  /\ code' = [code EXCEPT ![s] = i]
  /\ UNCHANGED <<tables, failures, purpose, entity, changed>>

\* A client sends the code of row i.  attemptCount is never incremented, so
\* no row is ever blocked; verifyOtp takes any purpose the client names.
FindOtp(s, o, n, i) ==
  /\ otp[i] # NULL
  /\ otp[i].phone = n /\ ~otp[i].isUsed
  /\ Begin(s, o, NULL, n, "matched")
  /\ code' = [code EXCEPT ![s] = i]
  /\ UNCHANGED <<tables, failures, purpose, entity, changed>>

VerifyFind(s, n, i) == FindOtp(s, "verify", n, i)

ResetFind(s, n, i) ==
  /\ otp[i] # NULL
  /\ otp[i].purpose = "FORGOT_PASSWORD"
  /\ FindOtp(s, "reset", n, i)

\* otpRepository.save: whatever the SELECT returns, the row is used now.
StoreUsed(s) ==
  /\ pc[s] = "matched"
  /\ otp' = [otp EXCEPT ![code[s]] = Assign(otp[code[s]], [isUsed |-> TRUE])]
  /\ proven' = IF op[s] = "verify" THEN proven \cup {number[s]} ELSE proven
  /\ Goto(s, "burned")
  /\ UNCHANGED <<user, wallet, had, failures>>

-----------------------------------------------------------------------------
(* Handlers that load the user, assign to the entity and save it.          *)

\* What each operation may assign to the entity it loaded as row.
Patches(o, row) ==
  CASE o = "verify" -> {[phoneVerified |-> TRUE, status |-> "ACTIVE"]}
    [] o \in {"reset", "changePassword"} -> {[password |-> w] : w \in Passwords}
    [] o = "addToken" -> {[fcmTokens |-> row.fcmTokens \cup {t}] :
                            t \in Tokens \ row.fcmTokens}
    [] o = "removeToken" -> {[fcmTokens |-> row.fcmTokens \ {t}] : t \in Tokens}
    [] o = "suspend" -> {[status |-> "SUSPENDED"]}
    [] o = "ban" -> {[status |-> "BANNED"]}
    [] o \in {"activate", "unban"} -> {[status |-> "ACTIVE"]}
    [] o = "update" -> {[phone |-> n, password |-> w] :
                          n \in Phones, w \in {row.password, UNHASHED}}
    [] o = "remove" -> {[deletedAt |-> TRUE]}
    [] OTHER -> {<<>>}

LoadUser(s, o, u) ==
  \E patch \in Patches(o, user[u]) :
    entity' = [entity EXCEPT ![s] = Assign(user[u], patch)]

\* Fault: an administrator's look-up finds deleted users.
AdminLoadDeleted(s, u) ==
  /\ user[u] # NULL
  /\ \E o \in AdminOp, at \in {"checking", "loaded"} :
       /\ Begin(s, o, u, NULL, at)
       /\ LoadUser(s, o, u)
       /\ at = "checking" <=> entity'[s].phone # user[u].phone
  /\ UNCHANGED <<tables, failures, purpose, code, changed>>

\* users.update, given another number, looks whether somebody has it before it
\* assigns; it leaves phoneVerified as it is.
AdminLoad(s, u) ==
  /\ Found(u)
  /\ \E o \in AdminOp, at \in {"checking", "loaded"} :
       /\ Begin(s, o, u, NULL, at)
       /\ LoadUser(s, o, u)
       /\ at = "checking" <=> entity'[s].phone # user[u].phone
  /\ UNCHANGED <<tables, failures, purpose, code, changed>>

\* findOne returns one row that has the number or the e-mail of the body: with
\* the user's own e-mail in it that may be the user, whoever has the number.
UpdateCheck(s) ==
  /\ pc[s] = "checking"
  /\ \/ Goto(s, "loaded")
     \/ /\ \E v \in Holders(entity[s].phone) \ {target[s]} : Found(v)
        /\ Finish(s)
  /\ UNCHANGED <<tables, failures>>

\* The client knows the password, unless the column holds no hash.
Login(s, u) ==
  /\ InGoodStanding(u)
  /\ user[u].phoneVerified
  /\ user[u].password \in Passwords
  /\ Begin(s, "login", u, NULL, "loaded")
  /\ LoadUser(s, "login", u)
  /\ UNCHANGED <<tables, failures, purpose, code, changed>>

\* ProvidersService.register, which saves the user it loaded once the
\* provider is inserted.
RegisterAsProvider(s, u) ==
  /\ Found(u)
  /\ Begin(s, "asProvider", u, NULL, "loaded")
  /\ LoadUser(s, "asProvider", u)
  /\ UNCHANGED <<tables, failures, purpose, code, changed>>

\* validate reads the user; the handler reads it again.
Authenticate(s, u) ==
  /\ InGoodStanding(u)
  /\ \E o \in OwnOp : Begin(s, o, u, NULL, "admitted")
  /\ UNCHANGED <<tables, failures, purpose, code, entity, changed>>

\* The user a signed-in request is about, or who has the number of an accepted
\* code by now, can be saved: it is there, knows the password or has a new token.
Proceeds(s, u) ==
  /\ Found(u)
  /\ IF pc[s] = "burned" THEN user[u].phone = number[s] ELSE u = target[s]
  /\ op[s] = "changePassword" => user[u].password \in Passwords
  /\ Patches(op[s], user[u]) # {}

LoadTarget(s) ==
  /\ pc[s] \in {"admitted", "burned"}
  /\ IF \E u \in Users : Proceeds(s, u)
       THEN \E u \in Users :
              /\ Proceeds(s, u)
              /\ LoadUser(s, op[s], u)
              /\ pc' = [pc EXCEPT ![s] = "loaded"]
              /\ target' = [target EXCEPT ![s] = u]
              /\ UNCHANGED <<op, number, purpose, code, changed>>
       ELSE Finish(s)
  /\ UNCHANGED <<tables, failures>>

\* The columns an operation's entity holds: login and changePassword select
\* some, and softRemove writes one.
Held(o) ==
  CASE o = "login" -> {"phone", "status", "phoneVerified", "password"}
    [] o = "changePassword" -> {"password"}
    [] o = "remove" -> {"deletedAt"}
    [] OTHER -> UserColumns

\* save looks the row up by its id, deleted or not.
SaveSelect(s) ==
  /\ pc[s] = "loaded"
  /\ pc' = [pc EXCEPT ![s] = "diffed"]
  /\ changed' = [changed EXCEPT ![s] =
       Changed(entity[s], user[target[s]], {}) \cap Held(op[s])]
  /\ UNCHANGED <<tables, failures, op, target, number, purpose, code, entity>>

\* The UPDATE would give the row the number of another.
PhoneClash(s) ==
  "phone" \in changed[s] /\ Holders(entity[s].phone) \ {target[s]} # {}

\* The unique index refuses the UPDATE: save rejects and nothing is stored.
SaveRefused(s) ==
  /\ pc[s] = "diffed"
  /\ PhoneClash(s)
  /\ Finish(s)
  /\ UNCHANGED <<tables, failures>>

SaveUpdate(s) ==
  LET u == target[s]
      row == Updated(user[u], entity[s], changed[s])
  IN
  /\ pc[s] = "diffed"
  /\ ~PhoneClash(s)
  /\ user' = [user EXCEPT ![u] = row]
  /\ had' = [had EXCEPT ![u] = had[u] \cup {row.phone}]
  /\ otp' = IF op[s] \in {"verify", "reset"}
              THEN [otp EXCEPT ![code[s]] =
                      Assign(otp[code[s]], [spent |-> otp[code[s]].spent + 1])]
              ELSE otp
  /\ Finish(s)
  /\ UNCHANGED <<wallet, proven, failures>>

-----------------------------------------------------------------------------
\* A statement fails, or the process stops: what is written stays, the rest
\* of the request never happens.
Fail(s) ==
  /\ pc[s] \in Busy
  /\ failures < MaxFailures
  /\ failures' = failures + 1
  /\ Finish(s)
  /\ UNCHANGED tables

\* Row i is two minutes old; the rows' clocks may drift apart.
Age(i) ==
  /\ otp[i] # NULL
  /\ otp[i].recent
  /\ otp' = [otp EXCEPT ![i] = Assign(otp[i], [recent |-> FALSE])]
  /\ UNCHANGED <<user, wallet, had, proven, failures, slots>>

\* Row i is ten minutes old.  It does not matter when a row expires that a
\* request has found already: it looks it up by its id from there on.
Expire(i) ==
  /\ otp[i] # NULL
  /\ ~otp[i].recent
  /\ \A s \in Slots : code[s] # i
  /\ otp' = [otp EXCEPT ![i] = NULL]
  /\ UNCHANGED <<user, wallet, had, proven, failures, slots>>

Request(s) ==
  \/ \E n \in Phones :
       \/ RegisterCheck(s, n)
       \/ \E purp \in Resendable : ResendCheck(s, n, purp)
       \/ ForgotCheck(s, n)
       \/ \E i \in OtpIds : VerifyFind(s, n, i) \/ ResetFind(s, n, i)
  \/ \E u \in Users :
       \/ AdminLoad(s, u)
       \/ Login(s, u)
       \/ RegisterAsProvider(s, u)
       \/ Authenticate(s, u)

Continue(s) ==
  \/ RegisterInsert(s)
  \/ RegisterWallet(s)
  \/ ResendCooldown(s)
  \/ SendOtp(s)
  \/ StoreUsed(s)
  \/ LoadTarget(s)
  \/ UpdateCheck(s)
  \/ SaveSelect(s)
  \/ SaveUpdate(s)
  \/ SaveRefused(s)

Next ==
  \/ \E s \in Slots : Request(s) \/ Continue(s) \/ Fail(s)
  \/ \E i \in OtpIds : Age(i) \/ Expire(i)

Spec == Init /\ [][Next]_vars

\* The event loop gets to every request, clocks run, and a client whose phone
\* is not verified asks for a code, and sends one it has, again and again.
Fairness ==
  /\ \A s \in Slots : WF_vars(Continue(s))
  /\ \A i \in OtpIds : WF_vars(Age(i)) /\ WF_vars(Expire(i))
  /\ \A n \in Phones :
       /\ SF_vars(\E s \in Slots : ResendCheck(s, n, "REGISTRATION"))
       /\ SF_vars(\E s \in Slots, i \in OtpIds : VerifyFind(s, n, i))

FairSpec == Spec /\ Fairness

-----------------------------------------------------------------------------
(* Properties.                                                             *)

\* A user counts as verified only if verify has accepted a code sent to a number
\* the user has had, or was seeded with as verified, whatever stale entities are
\* written back.  It need not be the number of today: users.update changes the
\* number and leaves phoneVerified.
VerifiedByOtp ==
  \A u \in Users :
    user[u] # NULL /\ user[u].phoneVerified => had[u] \cap proven # {}

\* A code has its effect only after it has been marked as used, wherever the
\* process stops in between.
UsedBeforeEffect ==
  \A i \in OtpIds : otp[i] # NULL /\ otp[i].spent > 0 => otp[i].isUsed

\* verifyOtp's comment "Mark OTP as used": a code has its effect once.
OtpSingleUse == \A i \in OtpIds : otp[i] # NULL => otp[i].spent <= 1

\* resendOtp's comment "Check for recent OTP (cooldown period)": it sends no code
\* to a number while another of the same purpose is younger than two minutes.
CooldownKept ==
  [][\A s \in Slots, i \in OtpIds :
       op[s] = "resend" /\ pc[s] = "sending" /\ pc'[s] = "idle"
         /\ otp[i] = NULL /\ otp'[i] # NULL
       => ~Recent(otp'[i].phone, otp'[i].purpose)]_vars

\* remove's comment "Soft delete": a deleted user stays deleted.
DeletedStaysDeleted ==
  [][\A u \in Users : user[u] # NULL /\ user[u].deletedAt
                         => user'[u].deletedAt]_vars

\* Served one at a time (one slot), the handlers implement accounts whose
\* operations change what they are named for, and no two of which have one number.
Standing == INSTANCE AccountStanding
  WITH Passwords <- Passwords \cup {UNHASHED, NULL},
       Numbers <- Phones \cup {NULL},
       number <- [u \in Users |-> IF user[u] = NULL THEN NULL ELSE user[u].phone],
       status <- [u \in Users |-> IF user[u] = NULL THEN "NONE" ELSE user[u].status],
       verified <- {u \in Users : user[u] # NULL /\ user[u].phoneVerified},
       password <- [u \in Users |-> IF user[u] = NULL THEN NULL ELSE user[u].password],
       removed <- {u \in Users : user[u] # NULL /\ user[u].deletedAt}
ImplementsStanding == Standing!Spec

\* However far a registration got before it failed, and whatever else is done
\* to the account, resendOtp and verifyOtp lead to a verified phone, unless an
\* administrator deletes the user or changes the number.
RegistrationRecovers ==
  \A u \in Users, n \in Phones :
    (user[u] # NULL /\ user[u].phone = n) ~>
      (user[u] # NULL /\ (\/ user[u].phoneVerified \/ user[u].deletedAt
                         \/ user[u].phone # n))
=============================================================================
