-------------------------- MODULE ChatPresenceProofs --------------------------
(***************************************************************************)
(* ChatGateway's two maps stay consistent for any number of users and      *)
(* sockets.  The invariants of ChatPresence are inductive together with    *)
(* Recorded: the gateway has written nothing about a socket before its     *)
(* connection, and the map of sockets tells what property userId does.     *)
(***************************************************************************)
EXTENDS ChatPresence, TLAPS

\* Property userId is set once the link is there, to the user the token is for,
\* and the map of sockets tells what that property does.
Recorded ==
  \A s \in Sockets :
    /\ link[s] = "new" => userId[s] = NULL
    /\ userId[s] # NULL => userId[s] = TokenOf[s]
    /\ socketToUser[s] # NULL => socketToUser[s] = userId[s]

PresenceInv == TypeOK /\ Recorded /\ MapsAgree /\ ToldWhatIsKept /\ OpenIsKnown

\* The gateway starts with empty maps and no socket.
LEMMA InitHolds == Init => PresenceInv
  BY PresenceAssumption
     DEF Init, PresenceInv, TypeOK, Recorded, MapsAgree, ToldWhatIsKept,
         OpenIsKnown, IsOnline

\* handleDisconnect of a socket that is down and was recorded, if at all, for
\* user u leaves the maps and the announcements consistent.
LEMMA DisconnectKeepsMaps ==
  ASSUME TypeOK, MapsAgree, ToldWhatIsKept,
         NEW s \in Sockets, NEW u \in Users,
         socketToUser[s] \in {u, NULL},
         HandleDisconnect(s, u)
  PROVE  /\ connectedUsers' \in [Users -> Sockets \cup {NULL}]
         /\ socketToUser' \in [Sockets -> Users \cup {NULL}]
         /\ told' \in [Users -> BOOLEAN]
         /\ socketToUser'[s] = NULL
         /\ \A r \in Sockets \ {s} : socketToUser'[r] = socketToUser[r]
         /\ MapsAgree'
         /\ ToldWhatIsKept'
<1>1. /\ connectedUsers' \in [Users -> Sockets \cup {NULL}]
      /\ socketToUser' \in [Sockets -> Users \cup {NULL}]
      /\ told' \in [Users -> BOOLEAN]
  BY DEF HandleDisconnect, TypeOK
<1>2. /\ socketToUser'[s] = NULL
      /\ \A r \in Sockets \ {s} : socketToUser'[r] = socketToUser[r]
  BY DEF HandleDisconnect, TypeOK
<1>3. MapsAgree'
  BY PresenceAssumption DEF HandleDisconnect, TypeOK, MapsAgree, IsOnline
<1>4. ToldWhatIsKept'
  BY DEF HandleDisconnect, TypeOK, ToldWhatIsKept, IsOnline
<1> QED
  BY <1>1, <1>2, <1>3, <1>4

\* Every step of a connection keeps the invariant.
LEMMA StepHolds == PresenceInv /\ [Next]_vars => PresenceInv'
<1> SUFFICES ASSUME PresenceInv, [Next]_vars
             PROVE  PresenceInv'
  OBVIOUS
<1> USE PresenceAssumption DEF PresenceInv
<1>1. ASSUME NEW s \in Sockets, Refuse(s)
      PROVE  PresenceInv'
  BY <1>1 DEF Refuse, TypeOK, Recorded, MapsAgree, ToldWhatIsKept, OpenIsKnown,
              IsOnline
<1>2. ASSUME NEW s \in Sockets, Register(s)
      PROVE  PresenceInv'
  <2>1. TokenOf[s] \in Users
    BY <1>2 DEF Register
  <2>2. TypeOK'
    BY <1>2, <2>1 DEF Register, TypeOK
  <2>3. Recorded'
    BY <1>2, <2>1 DEF Register, TypeOK, Recorded
  <2>4. MapsAgree' /\ ToldWhatIsKept'
    BY <1>2, <2>1 DEF Register, TypeOK, Recorded, MapsAgree, ToldWhatIsKept, IsOnline
  <2>5. OpenIsKnown'
    BY <1>2, <2>1 DEF Register, TypeOK, OpenIsKnown
  <2> QED
    BY <2>2, <2>3, <2>4, <2>5
<1>3. ASSUME NEW s \in Sockets, Collide(s)
      PROVE  PresenceInv'
  <2> DEFINE u == TokenOf[s]
  <2>1. /\ u \in Users /\ socketToUser[s] = NULL /\ userId[s] = NULL
        /\ HandleDisconnect(s, u)
    BY <1>3 DEF Collide, TypeOK, Recorded
  <2>2. /\ connectedUsers' \in [Users -> Sockets \cup {NULL}]
        /\ socketToUser' \in [Sockets -> Users \cup {NULL}]
        /\ told' \in [Users -> BOOLEAN]
        /\ socketToUser'[s] = NULL
        /\ \A r \in Sockets \ {s} : socketToUser'[r] = socketToUser[r]
        /\ MapsAgree'
        /\ ToldWhatIsKept'
    BY <2>1, DisconnectKeepsMaps
  <2>3. TypeOK'
    BY <1>3, <2>1, <2>2 DEF Collide, TypeOK
  <2>4. Recorded' /\ OpenIsKnown'
    BY <1>3, <2>1, <2>2 DEF Collide, TypeOK, Recorded, OpenIsKnown
  <2> QED
    BY <2>2, <2>3, <2>4
<1>4. ASSUME NEW s \in Sockets, Drop(s)
      PROVE  PresenceInv'
  <2>1. CASE userId[s] = NULL
    BY <1>4, <2>1 DEF Drop, TypeOK, Recorded, MapsAgree, ToldWhatIsKept,
                      OpenIsKnown, IsOnline
  <2>2. CASE userId[s] # NULL
    <3>1. userId[s] \in Users /\ socketToUser[s] \in {userId[s], NULL}
      BY <2>2 DEF TypeOK, Recorded
    <3>2. HandleDisconnect(s, userId[s])
      BY <1>4, <2>2 DEF Drop
    <3>3. /\ connectedUsers' \in [Users -> Sockets \cup {NULL}]
          /\ socketToUser' \in [Sockets -> Users \cup {NULL}]
          /\ told' \in [Users -> BOOLEAN]
          /\ socketToUser'[s] = NULL
          /\ \A r \in Sockets \ {s} : socketToUser'[r] = socketToUser[r]
          /\ MapsAgree'
          /\ ToldWhatIsKept'
      BY <3>1, <3>2, DisconnectKeepsMaps
    <3>4. TypeOK'
      BY <1>4, <3>3 DEF Drop, TypeOK
    <3>5. Recorded' /\ OpenIsKnown'
      BY <1>4, <3>3 DEF Drop, TypeOK, Recorded, OpenIsKnown
    <3> QED
      BY <3>3, <3>4, <3>5
  <2> QED
    BY <2>1, <2>2
<1>5. CASE UNCHANGED vars
  BY <1>5 DEF vars, TypeOK, Recorded, MapsAgree, ToldWhatIsKept, OpenIsKnown,
              IsOnline
<1> QED
  BY <1>1, <1>2, <1>3, <1>4, <1>5 DEF Next

\* The invariant holds in every state.
LEMMA Presence == Spec => []PresenceInv
  BY InitHolds, StepHolds, PTL DEF Spec

\* Every variable of the gateway keeps its type.
THEOREM TypeCorrect == Spec => []TypeOK
<1>1. PresenceInv => TypeOK
  BY DEF PresenceInv
<1> QED
  BY <1>1, Presence, PTL

\* connectedUsers and socketToUser agree about every user who is online,
\* whatever sockets of the user connect, are turned away and disconnect.
THEOREM MapsConsistent == Spec => []MapsAgree
<1>1. PresenceInv => MapsAgree
  BY DEF PresenceInv
<1> QED
  BY <1>1, Presence, PTL

\* The status broadcast last of a user is the one check_online answers.
THEOREM AnnouncementsHold == Spec => []ToldWhatIsKept
<1>1. PresenceInv => ToldWhatIsKept
  BY DEF PresenceInv
<1> QED
  BY <1>1, Presence, PTL

\* No socket stays open that handleConnection has not verified and recorded.
THEOREM OpenSocketsKnown == Spec => []OpenIsKnown
<1>1. PresenceInv => OpenIsKnown
  BY DEF PresenceInv
<1> QED
  BY <1>1, Presence, PTL

-----------------------------------------------------------------------------
(***************************************************************************)
(* OnlineIsConnected does not hold of the gateway.  It would if no user    *)
(* ever connected a second socket while the first is open: which           *)
(* handleConnection relies on, and does not ensure.                        *)
(***************************************************************************)
NoSecondSocket ==
  \A s, r \in Sockets :
    /\ s # r
    /\ TokenOf[s] # NULL /\ TokenOf[s] = TokenOf[r]
    /\ link[s] = "new" /\ link[r] = "up"
    => userId'[s] = NULL

\* The entry of a user is that of the socket that is open.
EntryIsOpen ==
  \A u \in Users : \A s \in Sockets :
    connectedUsers[u] = s <=> link[s] = "up" /\ userId[s] = u

\* No socket is registered at first.
LEMMA EntryInit == Init => EntryIsOpen
  BY PresenceAssumption DEF Init, EntryIsOpen

\* A second socket of a user never collides with the first, and the socket
\* whose end deletes the entry is the one the entry names.
LEMMA EntryStep ==
  ASSUME PresenceInv, EntryIsOpen, [NoSecondSocket]_vars, [Next]_vars
  PROVE  EntryIsOpen'
<1> USE PresenceAssumption DEF PresenceInv
<1>1. ASSUME NEW s \in Sockets, Refuse(s) PROVE EntryIsOpen'
  <2>1. userId[s] = NULL
    BY <1>1 DEF Refuse, Recorded
  <2>2. /\ \A r \in Sockets \ {s} : link'[r] = link[r]
        /\ link[s] = "new" /\ link'[s] = "down"
        /\ UNCHANGED <<userId, connectedUsers>>
    BY <1>1 DEF Refuse, TypeOK
  <2> QED
    BY <2>1, <2>2 DEF EntryIsOpen
<1>2. ASSUME NEW s \in Sockets, Register(s) PROVE EntryIsOpen'
  <2> DEFINE u == TokenOf[s]
  <2>1. u \in Users /\ link[s] = "new" /\ userId[s] = NULL
    BY <1>2 DEF Register, Recorded
  <2>2. /\ connectedUsers[u] = NULL /\ connectedUsers'[u] = s
        /\ \A v \in Users \ {u} : connectedUsers'[v] = connectedUsers[v]
        /\ userId'[s] = u /\ \A r \in Sockets \ {s} : userId'[r] = userId[r]
        /\ link'[s] = "up" /\ \A r \in Sockets \ {s} : link'[r] = link[r]
    BY <1>2, <2>1 DEF Register, TypeOK
  <2> QED
    BY <2>1, <2>2 DEF EntryIsOpen
<1>3. ASSUME NEW s \in Sockets, Collide(s) PROVE EntryIsOpen'
  <2> DEFINE u == TokenOf[s]
             r == connectedUsers[u]
  <2>1. /\ u \in Users /\ link[s] = "new" /\ r \in Sockets
        /\ userId'[s] = u /\ link'[s] = "down"
    BY <1>3 DEF Collide, TypeOK
  <2>2. link[r] = "up" /\ TokenOf[r] = u /\ r # s
    BY <2>1 DEF EntryIsOpen, Recorded
  <2>3. NoSecondSocket
    BY <2>1 DEF vars
  <2> QED
    BY <2>1, <2>2, <2>3 DEF NoSecondSocket
<1>4. ASSUME NEW s \in Sockets, Drop(s) PROVE EntryIsOpen'
  <2>1. /\ link[s] = "up" /\ link'[s] = "down" /\ userId' = userId
        /\ \A r \in Sockets \ {s} : link'[r] = link[r]
    BY <1>4 DEF Drop, TypeOK
  <2> DEFINE u == userId[s]
  <2>2. u \in Users
    BY <2>1 DEF OpenIsKnown, TypeOK
  <2>3. /\ connectedUsers'[u] = NULL
        /\ \A v \in Users \ {u} : connectedUsers'[v] = connectedUsers[v]
    BY <1>4, <2>2 DEF Drop, HandleDisconnect, TypeOK
  <2>4. connectedUsers[u] = s
    BY <2>1, <2>2 DEF EntryIsOpen
  <2>5. \A r \in Sockets \ {s} : ~(link[r] = "up" /\ userId[r] = u)
    BY <2>2, <2>4 DEF EntryIsOpen
  <2> QED
    BY <2>1, <2>2, <2>3, <2>5 DEF EntryIsOpen
<1>5. CASE UNCHANGED vars
  BY <1>5 DEF vars, EntryIsOpen
<1> QED
  BY <1>1, <1>2, <1>3, <1>4, <1>5 DEF Next

\* A user is online exactly when one of the user's sockets is open, should no
\* client connect with the token of a user who has a socket open already.
THEOREM OnlineWhenSingle ==
  Spec /\ [][NoSecondSocket]_vars => []OnlineIsConnected
<1>1. PresenceInv /\ EntryIsOpen => OnlineIsConnected
  <2> SUFFICES ASSUME PresenceInv, EntryIsOpen, NEW u \in Users
               PROVE  IsOnline(u) <=>
                        \E s \in Sockets : link[s] = "up" /\ userId[s] = u
    BY DEF OnlineIsConnected
  <2>1. connectedUsers[u] \in Sockets \cup {NULL}
    BY DEF PresenceInv, TypeOK
  <2> QED
    BY <2>1, PresenceAssumption DEF EntryIsOpen, IsOnline
<1>2. Init => EntryIsOpen
  BY EntryInit
<1>3. PresenceInv /\ EntryIsOpen /\ [NoSecondSocket]_vars /\ [Next]_vars
      => EntryIsOpen'
  BY EntryStep
<1> QED
  BY <1>1, <1>2, <1>3, Presence, PTL DEF Spec
=============================================================================
