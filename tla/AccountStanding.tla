---------------------------- MODULE AccountStanding ----------------------------
(***************************************************************************)
(* What the handlers of users, one request at a time, promise of an        *)
(* account: each changes what it is named for and nothing else, and no two *)
(* accounts come to have one number.                                       *)
(***************************************************************************)
CONSTANTS Users, Numbers, Passwords

VARIABLES
  number,     \* the phone number of each account
  status,     \* "NONE" for a user who is not there
  verified,   \* accounts that have been verified
  password,   \* the password of each account
  removed     \* accounts that have been deleted

vars == <<number, status, verified, password, removed>>

Statuses == {"ACTIVE", "SUSPENDED", "BANNED", "PENDING_VERIFICATION"}
Known(u) == status[u] # "NONE" /\ u \notin removed
Free(u, n) == \A v \in Users \ {u} : number[v] # n

Init ==
  /\ number \in [Users -> Numbers]
  /\ status \in [Users -> Statuses \cup {"NONE"}]
  /\ verified \subseteq Users
  /\ password \in [Users -> Passwords]
  /\ removed \subseteq Users

Create(u, n, w) ==
  /\ status[u] = "NONE"
  /\ Free(u, n)
  /\ number' = [number EXCEPT ![u] = n]
  /\ status' = [status EXCEPT ![u] = "PENDING_VERIFICATION"]
  /\ password' = [password EXCEPT ![u] = w]
  /\ UNCHANGED <<verified, removed>>

Verify(u) ==
  /\ Known(u)
  /\ status' = [status EXCEPT ![u] = "ACTIVE"]
  /\ verified' = verified \cup {u}
  /\ UNCHANGED <<number, password, removed>>

SetPassword(u, w) ==
  /\ Known(u)
  /\ password' = [password EXCEPT ![u] = w]
  /\ UNCHANGED <<number, status, verified, removed>>

\* Whether the account is verified stays as it is.
Update(u, n, w) ==
  /\ Known(u)
  /\ Free(u, n)
  /\ number' = [number EXCEPT ![u] = n]
  /\ password' = [password EXCEPT ![u] = w]
  /\ UNCHANGED <<status, verified, removed>>

SetStatus(u, s) ==
  /\ Known(u)
  /\ status' = [status EXCEPT ![u] = s]
  /\ UNCHANGED <<number, verified, password, removed>>

Remove(u) ==
  /\ Known(u)
  /\ removed' = removed \cup {u}
  /\ UNCHANGED <<number, status, verified, password>>

Next ==
  \E u \in Users :
    \/ Verify(u)
    \/ Remove(u)
    \/ \E w \in Passwords :
         SetPassword(u, w) \/ \E n \in Numbers : Create(u, n, w) \/ Update(u, n, w)
    \/ \E s \in {"ACTIVE", "SUSPENDED", "BANNED"} : SetStatus(u, s)

Spec == Init /\ [][Next]_vars
=============================================================================
