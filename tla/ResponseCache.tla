---------------------------- MODULE ResponseCache ----------------------------
(***************************************************************************)
(* CacheInterceptor, which main.ts puts before every handler: the answer   *)
(* to a GET is looked for under a key of the request, and an answer the    *)
(* handler had to compute is stored under it.  The store is in the memory  *)
(* of the process.  A look-up or a store only awaits it, so each is one    *)
(* step; the handler's own query, and any writes, come in between.         *)
(***************************************************************************)
EXTENDS Naturals

CONSTANTS
  Readers,      \* GET requests in flight
  Urls,         \* what they ask for
  KeyOf,        \* the key of a url: every answer of findOne of users has one
  TtlOf,        \* the time to live of a url, as its handler is decorated
  MaxHandling,  \* the longest a handler takes from its query to its answer
  MaxWrites,    \* bound on the writes to what a url shows
  MaxTime       \* bound on the clock

ASSUME CacheAssumption ==
  /\ TtlOf \in [Urls -> Nat \ {0}]
  /\ MaxHandling \in Nat /\ MaxWrites \in Nat /\ MaxTime \in Nat
  /\ \A u, v \in Urls : KeyOf[u] = KeyOf[v] => TtlOf[u] = TtlOf[v]

VARIABLES
  cacheClock,
  version,    \* how often what a url shows was written
  writtenAt,  \* when each version was replaced by the next
  store,      \* key -> the answer stored under it, and until when
  reader,     \* the GET requests
  served      \* the answer the last step gave to its client

cacheVars == <<cacheClock, version, writtenAt, store, reader, served>>

Keys == {KeyOf[u] : u \in Urls}

\* The answer of the handler for url, at a version; none is a version 0 that
\* was never stored.
Answer(url, v) == [url |-> url, version |-> v]

NoEntry == [answer |-> Answer("-", 0), until |-> 0, present |-> FALSE]
NoRequest == [step |-> "free", url |-> "-", answer |-> Answer("-", 0), readAt |-> 0]
NothingServed == Answer("-", 0)

CacheTypeOK ==
  LET answers == [url : Urls \cup {"-"}, version : 0..MaxWrites]
      times == 0..MaxTime
  IN /\ cacheClock \in times
     /\ version \in [Urls -> 0..MaxWrites]
     /\ writtenAt \in [Urls -> [0..MaxWrites -> times]]
     /\ store \in [Keys -> [answer : answers, until : Nat, present : BOOLEAN]]
     /\ reader \in [Readers -> [step : {"free", "missed", "read"},
                                url : Urls \cup {"-"}, answer : answers,
                                readAt : times]]
     /\ served \in answers

CacheInit ==
  /\ cacheClock = 0
  /\ version = [u \in Urls |-> 0]
  /\ writtenAt = [u \in Urls |-> [v \in 0..MaxWrites |-> 0]]
  /\ store = [k \in Keys |-> NoEntry]
  /\ reader = [r \in Readers |-> NoRequest]
  /\ served = NothingServed

-----------------------------------------------------------------------------
\* Keyv returns an entry as long as it has not expired.
Fresh(k) == store[k].present /\ cacheClock <= store[k].until

\* Fault: a hit starts the time to live again.
LookupRenewing(r, u) ==
  /\ reader[r].step = "free"
  /\ IF Fresh(KeyOf[u])
       THEN /\ served' = store[KeyOf[u]].answer
            /\ store' = [store EXCEPT ![KeyOf[u]].until = cacheClock + TtlOf[u]]
            /\ UNCHANGED reader
       ELSE /\ reader' = [reader EXCEPT ![r].step = "missed", ![r].url = u]
            /\ served' = NothingServed
            /\ UNCHANGED store
  /\ UNCHANGED <<cacheClock, version, writtenAt>>

\* cacheManager.get: a hit is the answer.
Lookup(r, u) ==
  /\ reader[r].step = "free"
  /\ IF Fresh(KeyOf[u])
       THEN served' = store[KeyOf[u]].answer /\ UNCHANGED reader
       ELSE /\ reader' = [reader EXCEPT ![r].step = "missed", ![r].url = u]
            /\ served' = NothingServed
  /\ UNCHANGED <<cacheClock, version, writtenAt, store>>

\* next.handle(): the handler's query.
HandlerReads(r) ==
  /\ reader[r].step = "missed"
  /\ reader' = [reader EXCEPT ![r].step = "read",
                              ![r].answer = Answer(reader[r].url, version[reader[r].url]),
                              ![r].readAt = cacheClock]
  /\ served' = NothingServed
  /\ UNCHANGED <<cacheClock, version, writtenAt, store>>

\* tap: the answer is stored whatever was written, or stored, since.
Store(r) ==
  LET url == reader[r].url IN
  /\ reader[r].step = "read"
  /\ store' = [store EXCEPT ![KeyOf[url]] =
       [answer |-> reader[r].answer, until |-> cacheClock + TtlOf[url], present |-> TRUE]]
  /\ served' = reader[r].answer
  /\ reader' = [reader EXCEPT ![r] = NoRequest]
  /\ UNCHANGED <<cacheClock, version, writtenAt>>

\* A PATCH, POST or DELETE passes the interceptor by and leaves the store alone.
Write(u) ==
  /\ version[u] < MaxWrites
  /\ version' = [version EXCEPT ![u] = @ + 1]
  /\ writtenAt' = [writtenAt EXCEPT ![u][version[u]] = cacheClock]
  /\ served' = NothingServed
  /\ UNCHANGED <<cacheClock, store, reader>>

\* The process ends and starts again: its memory is gone.
RestartCache ==
  /\ \E k \in Keys : store[k].present
  /\ store' = [k \in Keys |-> NoEntry]
  /\ reader' = [r \in Readers |-> NoRequest]
  /\ served' = NothingServed
  /\ UNCHANGED <<cacheClock, version, writtenAt>>

CacheTick ==
  /\ cacheClock < MaxTime
  /\ \A r \in Readers :
       reader[r].step = "read" => cacheClock < reader[r].readAt + MaxHandling
  /\ cacheClock' = cacheClock + 1
  /\ served' = NothingServed
  /\ UNCHANGED <<version, writtenAt, store, reader>>

CacheNext ==
  \/ \E r \in Readers, u \in Urls : Lookup(r, u)
  \/ \E r \in Readers : HandlerReads(r)
  \/ \E r \in Readers : Store(r)
  \/ \E u \in Urls : Write(u)
  \/ RestartCache
  \/ CacheTick

-----------------------------------------------------------------------------
(***************************************************************************)
(* Properties.                                                             *)
(***************************************************************************)
\* An answer shows what was replaced no longer ago than the time to live and
\* the time the handler took that computed it: no interleaving of slow
\* handlers, hits and writes keeps an old answer alive for longer.
StalenessBounded ==
  (served.url # "-" /\ served.version < version[served.url]) =>
     cacheClock <= writtenAt[served.url][served.version] + TtlOf[served.url]
                     + MaxHandling
=============================================================================
