------------------------------ MODULE RateLimit ------------------------------
(***************************************************************************)
(* RateLimitGuard before resend-otp, the one handler with @RateLimit       *)
(* options.  A counter per client and url, in the memory of the process,   *)
(* is read, compared and set: the store answers without leaving the        *)
(* process, so no other request comes in between.                          *)
(***************************************************************************)
EXTENDS Naturals, FiniteSets, Sequences

CONSTANTS
  Clients,    \* what getIdentifier tells apart
  Limit,      \* options.limit
  Ttl,        \* options.ttl
  MaxLimitTime  \* bound on the clock

ASSUME RateLimitAssumption ==
  /\ Limit \in Nat \ {0} /\ Ttl \in Nat \ {0} /\ MaxLimitTime \in Nat

VARIABLES
  limitClock,
  counter,   \* per client: the count stored, and until when it is kept
  admitted,  \* per client: when requests were let through since the start
  verdict    \* the last decision

limitVars == <<limitClock, counter, admitted, verdict>>

NoCounter == [count |-> 0, until |-> 0]

LimitTypeOK ==
  /\ limitClock \in 0..MaxLimitTime
  /\ counter \in [Clients -> [count : 0..Limit, until : 0..(MaxLimitTime + Ttl)]]
  /\ \A c \in Clients : \A k \in DOMAIN admitted[c] : admitted[c][k] \in 0..MaxLimitTime
  /\ verdict \in [client : Clients \cup {"-"}, pass : BOOLEAN, at : 0..MaxLimitTime]

LimitInit ==
  /\ limitClock = 0
  /\ counter = [c \in Clients |-> NoCounter]
  /\ admitted = [c \in Clients |-> <<>>]
  /\ verdict = [client |-> "-", pass |-> TRUE, at |-> 0]

-----------------------------------------------------------------------------
CurrentCount(c) == IF limitClock <= counter[c].until THEN counter[c].count ELSE 0

\* Fault: the comparison lets one request more through.
FullLate(c) == CurrentCount(c) > Limit

Full(c) == CurrentCount(c) >= Limit

Refuse(c) ==
  /\ verdict' = [client |-> c, pass |-> FALSE, at |-> limitClock]
  /\ UNCHANGED <<limitClock, counter, admitted>>

Admit(c) ==
  /\ counter' = [counter EXCEPT ![c] = [count |-> CurrentCount(c) + 1,
                                        until |-> limitClock + Ttl]]
  /\ admitted' = [admitted EXCEPT ![c] = Append(@, limitClock)]
  /\ verdict' = [client |-> c, pass |-> TRUE, at |-> limitClock]
  /\ UNCHANGED limitClock

\* Fault: a refused request starts the time to live again.
CanActivateRenewing(c) ==
  IF Full(c)
    THEN /\ counter' = [counter EXCEPT ![c].until = limitClock + Ttl]
         /\ verdict' = [client |-> c, pass |-> FALSE, at |-> limitClock]
         /\ UNCHANGED <<limitClock, admitted>>
    ELSE Admit(c)

\* canActivate: an admitted request sets the counter with its whole time to
\* live, a refused one leaves it alone.
CanActivate(c) == IF Full(c) THEN Refuse(c) ELSE Admit(c)

\* The process ends and starts again, with no counters.
RestartLimit ==
  /\ \E c \in Clients : admitted[c] # <<>>
  /\ counter' = [c \in Clients |-> NoCounter]
  /\ admitted' = [c \in Clients |-> <<>>]
  /\ verdict' = [client |-> "-", pass |-> TRUE, at |-> 0]
  /\ UNCHANGED limitClock

LimitTick ==
  /\ limitClock < MaxLimitTime
  /\ limitClock' = limitClock + 1
  /\ UNCHANGED <<counter, admitted, verdict>>

LimitNext == (\E c \in Clients : CanActivate(c)) \/ RestartLimit \/ LimitTick

-----------------------------------------------------------------------------
(***************************************************************************)
(* Properties.                                                             *)
(***************************************************************************)
\* "3 per 2 minutes": between two starts, no client gets more than Limit
\* requests through in any window as long as the time to live.
WindowLimit ==
  \A c \in Clients : \A k \in DOMAIN admitted[c] :
    k + Limit \in DOMAIN admitted[c] => admitted[c][k + Limit] - admitted[c][k] > Ttl

\* The counter moves with the traffic but never locks a client out: a request
\* is refused only within the time to live of the client's own last success,
\* however many refused requests, or requests of others, came in between.
RefusedWithinTtl ==
  ~verdict.pass =>
    LET mine == admitted[verdict.client] IN
    /\ mine # <<>>
    /\ verdict.at <= mine[Len(mine)] + Ttl
=============================================================================
