----------------------------- MODULE ChatPresence -----------------------------
(***************************************************************************)
(* ChatGateway's presence (src/modules/chat/chat.gateway.ts): who is       *)
(* connected to namespace /chat.  The secret of verifyAsync is at hand, so *)
(* its promise settles within the turn that called it and no other event   *)
(* is handled before handleConnection goes on: it runs to its end in one   *)
(* step, and so does handleDisconnect.                                     *)
(***************************************************************************)
CONSTANTS
  Users,    \* users of the platform
  Sockets,  \* socket ids, each of one connection
  TokenOf,  \* the user a socket's token is for, NULL for none
  NULL      \* no value

ASSUME PresenceAssumption ==
  /\ TokenOf \in [Sockets -> Users \cup {NULL}]
  /\ NULL \notin Users
  /\ NULL \notin Sockets

VARIABLES
  link,            \* the connection: "new", "up" or "down"
  userId,          \* property userId of the socket
  connectedUsers,  \* userId -> socketId
  socketToUser,    \* socketId -> userId
  personal,        \* the sockets in the room of their user
  told             \* the status of a user that was broadcast last

vars == <<link, userId, connectedUsers, socketToUser, personal, told>>

TypeOK ==
  /\ link \in [Sockets -> {"new", "up", "down"}]
  /\ userId \in [Sockets -> Users \cup {NULL}]
  /\ connectedUsers \in [Users -> Sockets \cup {NULL}]
  /\ socketToUser \in [Sockets -> Users \cup {NULL}]
  /\ personal \subseteq Sockets
  /\ told \in [Users -> BOOLEAN]

Init ==
  /\ link = [s \in Sockets |-> "new"]
  /\ userId = [s \in Sockets |-> NULL]
  /\ connectedUsers = [u \in Users |-> NULL]
  /\ socketToUser = [s \in Sockets |-> NULL]
  /\ personal = {}
  /\ told = [u \in Users |-> FALSE]

\* isUserOnline and check_online.
IsOnline(u) == connectedUsers[u] # NULL

-----------------------------------------------------------------------------
\* handleConnection of a client without a token, or with one that verifyAsync
\* rejects: the client is disconnected, and has no property userId.
Refuse(s) ==
  /\ link[s] = "new"
  /\ link' = [link EXCEPT ![s] = "down"]
  /\ UNCHANGED <<userId, connectedUsers, socketToUser, personal, told>>

\* Fault: the entry of another socket of the user is left alone, and the user
\* is announced to be offline all the same.
HandleDisconnectOwn(s, u) ==
  /\ connectedUsers' = IF connectedUsers[u] = s
                         THEN [connectedUsers EXCEPT ![u] = NULL]
                         ELSE connectedUsers
  /\ socketToUser' = [socketToUser EXCEPT ![s] = NULL]
  /\ told' = [told EXCEPT ![u] = FALSE]

\* Fault: the entry of the user is forgotten only at the next connection.
HandleDisconnectLate(s, u) ==
  /\ socketToUser' = [socketToUser EXCEPT ![s] = NULL]
  /\ UNCHANGED <<connectedUsers, told>>

\* handleDisconnect of a socket with property userId: u is offline, whatever
\* other socket of u is connected.
HandleDisconnect(s, u) ==
  /\ connectedUsers' = [connectedUsers EXCEPT ![u] = NULL]
  /\ socketToUser' = [socketToUser EXCEPT ![s] = NULL]
  /\ told' = [told EXCEPT ![u] = FALSE]

\* Fault: the two ids are stored the wrong way round.
RegisterSwapped(s) ==
  LET u == TokenOf[s] IN
  /\ link[s] = "new"
  /\ u # NULL
  /\ connectedUsers[u] = NULL
  /\ link' = [link EXCEPT ![s] = "up"]
  /\ userId' = [userId EXCEPT ![s] = u]
  /\ connectedUsers' = [connectedUsers EXCEPT ![u] = u]
  /\ socketToUser' = [socketToUser EXCEPT ![s] = s]
  /\ personal' = personal \cup {s}
  /\ told' = [told EXCEPT ![u] = TRUE]

\* handleConnection of a client whose token is good, of a user without a
\* socket.
Register(s) ==
  LET u == TokenOf[s] IN
  /\ link[s] = "new"
  /\ u # NULL
  /\ connectedUsers[u] = NULL
  /\ link' = [link EXCEPT ![s] = "up"]
  /\ userId' = [userId EXCEPT ![s] = u]
  /\ connectedUsers' = [connectedUsers EXCEPT ![u] = s]
  /\ socketToUser' = [socketToUser EXCEPT ![s] = u]
  /\ personal' = personal \cup {s}
  /\ told' = [told EXCEPT ![u] = TRUE]

\* Fault: the newcomer is kept when the look-up of the old socket throws.
CollideOpen(s) ==
  LET u == TokenOf[s] IN
  /\ link[s] = "new"
  /\ u # NULL
  /\ connectedUsers[u] # NULL
  /\ link' = [link EXCEPT ![s] = "up"]
  /\ userId' = [userId EXCEPT ![s] = u]
  /\ UNCHANGED <<connectedUsers, socketToUser, personal, told>>

\* The same when the user has a socket: server is the namespace, whose sockets
\* is a map without a property sockets, so the look-up of the old socket
\* throws and it is the new one that is disconnected, its userId set; its
\* handleDisconnect runs.
Collide(s) ==
  LET u == TokenOf[s] IN
  /\ link[s] = "new"
  /\ u # NULL
  /\ connectedUsers[u] # NULL
  /\ link' = [link EXCEPT ![s] = "down"]
  /\ userId' = [userId EXCEPT ![s] = u]
  /\ HandleDisconnect(s, u)
  /\ UNCHANGED personal

\* The client leaves, or the link is lost: the socket leaves its rooms, and
\* handleDisconnect runs.
Drop(s) ==
  /\ link[s] = "up"
  /\ link' = [link EXCEPT ![s] = "down"]
  /\ personal' = personal \ {s}
  /\ IF userId[s] = NULL
       THEN UNCHANGED <<connectedUsers, socketToUser, told>>
       ELSE HandleDisconnect(s, userId[s])
  /\ UNCHANGED userId

Next ==
  \E s \in Sockets :
    Refuse(s) \/ Register(s) \/ Collide(s) \/ Drop(s)

Spec == Init /\ [][Next]_vars

-----------------------------------------------------------------------------
(* Properties.                                                             *)

\* The two maps of the gateway never disagree about the socket of a user who
\* is online, in whatever order the user's sockets connect, are turned away by
\* the look-up that throws, and disconnect.
MapsAgree ==
  \A u \in Users : IsOnline(u) => socketToUser[connectedUsers[u]] = u

\* What the clients were last told of a user is what check_online answers.
ToldWhatIsKept == \A u \in Users : told[u] <=> IsOnline(u)

\* handleConnection leaves no socket open without having verified its token,
\* recorded it and put it into the room of its user, and no other socket of
\* the user that ends undoes this.
OpenIsKnown ==
  \A s \in Sockets :
    link[s] = "up" =>
      /\ userId[s] # NULL
      /\ socketToUser[s] = userId[s]
      /\ s \in personal

\* The comment "Check if user is online": a user is online exactly when one of
\* the user's verified sockets is open.
OnlineIsConnected ==
  \A u \in Users :
    IsOnline(u) <=> \E s \in Sockets : link[s] = "up" /\ userId[s] = u
=============================================================================
