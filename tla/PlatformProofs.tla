---------------------------- MODULE PlatformProofs ----------------------------
(***************************************************************************)
(* The parts of the platform that keep no rows.  The two stores in the     *)
(* memory of the process, for any number of clients, requests, urls and    *)
(* writes, any times to live, any limit and any number of restarts:        *)
(* CacheInterceptor answers nothing that is stale by more than a time to   *)
(* live and the handler's own time, and RateLimitGuard keeps to its limit  *)
(* and locks nobody out.  The route tables and their guards: a request     *)
(* reaches the handler it was meant for, whoever sent what before it.      *)
(* And the type invariant of the platform, from that of each part.         *)
(***************************************************************************)
EXTENDS SeedingProofs, MarketplaceProofs, SequenceTheorems

(***************************************************************************)
(* The response cache.  An entry expires early enough whatever is written  *)
(* after it was stored, because its time to live began at most MaxHandling *)
(* after the handler's query.                                              *)
(***************************************************************************)
Answers == [url : Urls \cup {"-"}, version : Nat]

ReaderRecords ==
  [step : {"free", "missed", "read"}, url : Urls \cup {"-"}, answer : Answers,
   readAt : Nat]

CacheState ==
  /\ cacheClock \in Nat
  /\ version \in [Urls -> 0..MaxWrites]
  /\ writtenAt \in [Urls -> [0..MaxWrites -> Nat]]
  /\ store \in [Keys -> [answer : Answers, until : Nat, present : BOOLEAN]]
  /\ reader \in [Readers -> ReaderRecords]
  /\ served \in Answers

\* a is an answer to a request for a url there is, at a version it has had.
Genuine(a) == a.url \in Urls /\ a.version <= version[a.url]

\* Should a be stale, then t is not too long after it was replaced.
InTime(a, t) ==
  a.version < version[a.url] =>
    t <= writtenAt[a.url][a.version] + TtlOf[a.url] + MaxHandling

\* A request under way asks for a url, and its answer, if stale, was replaced
\* after the handler read it.
ReadersInTime ==
  \A r \in Readers :
    /\ reader[r].step \in {"missed", "read"} => reader[r].url \in Urls
    /\ reader[r].step = "read" =>
         /\ Genuine(reader[r].answer) /\ reader[r].answer.url = reader[r].url
         /\ reader[r].readAt <= cacheClock
         /\ cacheClock <= reader[r].readAt + MaxHandling
         /\ reader[r].answer.version < version[reader[r].url] =>
              reader[r].readAt <= writtenAt[reader[r].url][reader[r].answer.version]

\* An entry holds an answer to a url of its key and expires in time, and no
\* later than a time to live from now.
EntriesInTime ==
  \A k \in Keys : store[k].present =>
    LET a == store[k].answer IN
    /\ Genuine(a) /\ KeyOf[a.url] = k
    /\ store[k].until <= cacheClock + TtlOf[a.url]
    /\ InTime(a, store[k].until)

ServedInTime == served.url # "-" => Genuine(served) /\ InTime(served, cacheClock)

CacheInv == CacheState /\ ReadersInTime /\ EntriesInTime /\ ServedInTime

\* The numbers an answer's age is told by.
LEMMA AnswerNumbers ==
  ASSUME CacheState, NEW a \in Answers, Genuine(a)
  PROVE  /\ a.url \in Urls /\ a.version \in Nat /\ version[a.url] \in Nat
         /\ a.version <= version[a.url] /\ TtlOf[a.url] \in Nat
         /\ MaxHandling \in Nat
         /\ a.version < version[a.url] =>
              a.version \in 0..MaxWrites /\ writtenAt[a.url][a.version] \in Nat
<1>1. /\ a.url \in Urls /\ a.version \in Nat /\ a.version <= version[a.url]
      /\ version[a.url] \in 0..MaxWrites /\ MaxWrites \in Nat
      /\ TtlOf[a.url] \in Nat /\ MaxHandling \in Nat
  BY CacheAssumption DEF Genuine, Answers, CacheState
<1>2. writtenAt[a.url] \in [0..MaxWrites -> Nat]
  BY <1>1 DEF CacheState
<1> QED
  BY <1>1, <1>2

\* The cache starts empty.
LEMMA CacheInitHolds == CacheInit => CacheInv
  BY CacheAssumption
     DEF CacheInit, CacheInv, CacheState, ReadersInTime, EntriesInTime,
         ServedInTime, ReaderRecords, Answers, Answer, NoEntry, NoRequest,
              NothingServed

\* A hit is answered before the entry's end, which is in time.
LEMMA LookupHolds ==
  ASSUME CacheInv, NEW r \in Readers, NEW u \in Urls, Lookup(r, u)
  PROVE  CacheInv'
<1>1. KeyOf[u] \in Keys
  BY DEF Keys
<1>2. CASE Fresh(KeyOf[u])
  <2>1. /\ served' = store[KeyOf[u]].answer
        /\ UNCHANGED <<cacheClock, version, writtenAt, store, reader>>
    BY <1>2 DEF Lookup
  <2>2. /\ store[KeyOf[u]].answer \in Answers /\ store[KeyOf[u]].until \in Nat
        /\ store[KeyOf[u]].present
        /\ cacheClock <= store[KeyOf[u]].until /\ cacheClock \in Nat
    BY <1>1, <1>2 DEF CacheInv, CacheState, Fresh
  <2>3. Genuine(store[KeyOf[u]].answer)
        /\ InTime(store[KeyOf[u]].answer, store[KeyOf[u]].until)
    BY <1>1, <2>2 DEF CacheInv, EntriesInTime
  <2>4. InTime(store[KeyOf[u]].answer, cacheClock)
    BY <2>2, <2>3, AnswerNumbers DEF InTime, CacheInv
  <2>5. CacheState' /\ ReadersInTime' /\ EntriesInTime'
    BY <2>1, <2>2
       DEF CacheInv, CacheState, ReadersInTime, EntriesInTime, Genuine, InTime
  <2> QED
    BY <2>1, <2>3, <2>4, <2>5 DEF CacheInv, ServedInTime, Genuine, InTime
<1>3. CASE ~Fresh(KeyOf[u])
  <2>1. /\ reader' = [reader EXCEPT ![r].step = "missed", ![r].url = u]
        /\ served' = NothingServed
        /\ UNCHANGED <<cacheClock, version, writtenAt, store>>
    BY <1>3 DEF Lookup
  <2>2. CacheState'
    <3>1. [reader[r] EXCEPT !.step = "missed", !.url = u] \in ReaderRecords
      <4>1. reader[r] \in ReaderRecords
        BY DEF CacheInv, CacheState
      <4> QED
        BY <4>1 DEF ReaderRecords
    <3>2. reader' \in [Readers -> ReaderRecords]
      BY <2>1, <3>1 DEF CacheInv, CacheState
    <3> QED
      BY <2>1, <3>2 DEF CacheInv, CacheState, Answers, Answer, NothingServed
  <2>3. ReadersInTime'
    <3>1. /\ reader'[r].step = "missed" /\ reader'[r].url = u
          /\ \A q \in Readers : q # r => reader'[q] = reader[q]
      BY <2>1 DEF CacheInv, CacheState, ReaderRecords
    <3> QED
      BY <2>1, <3>1 DEF CacheInv, ReadersInTime, Genuine
  <2>4. EntriesInTime' /\ ServedInTime'
    BY <2>1 DEF CacheInv, EntriesInTime, ServedInTime, Genuine, InTime, Answer,
                NothingServed
  <2> QED
    BY <2>2, <2>3, <2>4 DEF CacheInv
<1> QED
  BY <1>2, <1>3

\* The handler's query reads the version of the moment.
LEMMA HandlerReadsHolds ==
  ASSUME CacheInv, NEW r \in Readers, HandlerReads(r)
  PROVE  CacheInv'
<1> DEFINE url == reader[r].url
<1>1. /\ reader' = [reader EXCEPT ![r].step = "read",
                                  ![r].answer = Answer(url, version[url]),
                                  ![r].readAt = cacheClock]
      /\ served' = NothingServed
      /\ UNCHANGED <<cacheClock, version, writtenAt, store>>
  BY DEF HandlerReads
<1>2. url \in Urls /\ version[url] \in Nat /\ cacheClock \in Nat
  BY DEF HandlerReads, CacheInv, CacheState, ReadersInTime
<1>3. Answer(url, version[url]) \in Answers
  BY <1>2 DEF Answer, Answers
<1>4. CacheState'
  <2>1. reader' \in [Readers -> ReaderRecords]
    <3>1. reader[r] \in ReaderRecords
      BY DEF CacheInv, CacheState
    <3>2. [reader[r] EXCEPT !.step = "read", !.answer = Answer(url, version[url]),
                            !.readAt = cacheClock] \in ReaderRecords
      BY <1>2, <1>3, <3>1 DEF ReaderRecords
    <3> QED
      BY <1>1, <3>2 DEF CacheInv, CacheState
  <2> QED
    BY <1>1, <2>1 DEF CacheInv, CacheState, Answers, Answer, NothingServed
<1>5. ReadersInTime'
  <2>1. /\ reader'[r].step = "read" /\ reader'[r].url = url
        /\ reader'[r].answer = Answer(url, version[url])
        /\ reader'[r].readAt = cacheClock
        /\ \A q \in Readers : q # r => reader'[q] = reader[q]
    BY <1>1 DEF CacheInv, CacheState, ReaderRecords
  <2>2. Answer(url, version[url]).url = url
        /\ Answer(url, version[url]).version = version[url]
    BY DEF Answer
  <2>3. cacheClock <= cacheClock + MaxHandling
    BY <1>2, CacheAssumption
  <2>4. ~(version[url] < version[url])
    BY <1>2
  <2> SUFFICES ASSUME NEW q \in Readers
               PROVE  ( /\ reader[q].step \in {"missed", "read"} => reader[q].url \in Urls
                        /\ reader[q].step = "read" =>
                             /\ Genuine(reader[q].answer)
                             /\ reader[q].answer.url = reader[q].url
                             /\ reader[q].readAt <= cacheClock
                             /\ cacheClock <= reader[q].readAt + MaxHandling
                             /\ reader[q].answer.version < version[reader[q].url] =>
                                  reader[q].readAt <=
                                    writtenAt[reader[q].url][reader[q].answer.version] )'
    BY DEF ReadersInTime
  <2>5. CASE q # r
    BY <1>1, <2>1, <2>5 DEF CacheInv, ReadersInTime, Genuine
  <2>6. CASE q = r
    <3>1. reader'[q].answer.url = url /\ reader'[q].answer.version = version[url]
          /\ reader'[q].url = url /\ reader'[q].readAt = cacheClock
          /\ reader'[q].answer = Answer(url, version[url])
      BY <2>1, <2>2, <2>6
    <3>2. Genuine(reader[q].answer)'
      BY <1>1, <1>2, <3>1 DEF Genuine
    <3>3. ~(reader'[q].answer.version < version'[reader'[q].url])
      BY <1>1, <2>4, <3>1
    <3>4. /\ reader'[q].readAt <= cacheClock'
          /\ cacheClock' <= reader'[q].readAt + MaxHandling
      BY <1>1, <1>2, <2>3, <3>1
    <3> QED
      BY <1>2, <3>1, <3>2, <3>3, <3>4
  <2> QED
    BY <2>5, <2>6
<1>6. EntriesInTime' /\ ServedInTime'
  BY <1>1 DEF CacheInv, EntriesInTime, ServedInTime, Genuine, InTime, Answer,
              NothingServed
<1> QED
  BY <1>4, <1>5, <1>6 DEF CacheInv

\* What is stored may be stale by then, but was read at most MaxHandling ago.
LEMMA StoreHolds ==
  ASSUME CacheInv, NEW r \in Readers, Store(r)
  PROVE  CacheInv'
<1> DEFINE url == reader[r].url
           a == reader[r].answer
           end == cacheClock + TtlOf[url]
<1>1. /\ store' = [store EXCEPT ![KeyOf[url]] =
                     [answer |-> a, until |-> end, present |-> TRUE]]
      /\ served' = a
      /\ reader' = [reader EXCEPT ![r] = NoRequest]
      /\ UNCHANGED <<cacheClock, version, writtenAt>>
  BY DEF Store
<1>2. /\ url \in Urls /\ a \in Answers /\ a.url = url /\ Genuine(a)
      /\ reader[r].readAt \in Nat /\ cacheClock \in Nat
      /\ cacheClock <= reader[r].readAt + MaxHandling
      /\ a.version < version[url] => reader[r].readAt <= writtenAt[url][a.version]
  BY DEF Store, CacheInv, CacheState, ReaderRecords, ReadersInTime
<1>3. /\ TtlOf[url] \in Nat /\ MaxHandling \in Nat /\ end \in Nat
      /\ KeyOf[url] \in Keys
  BY <1>2, CacheAssumption DEF Keys
<1>4. /\ a.version \in Nat /\ version[url] \in 0..MaxWrites
      /\ a.version < version[url] => writtenAt[url][a.version] \in Nat
  <2>1. /\ a.version \in Nat /\ a.version <= version[url] /\ MaxWrites \in Nat
        /\ version[url] \in 0..MaxWrites /\ writtenAt[url] \in [0..MaxWrites -> Nat]
    BY <1>2, CacheAssumption DEF Answers, Genuine, CacheInv, CacheState
  <2> QED
    BY <2>1
<1>5. InTime(a, end) /\ InTime(a, cacheClock)
  BY <1>2, <1>3, <1>4 DEF InTime
<1>6. CacheState'
  BY <1>1, <1>2, <1>3
     DEF CacheInv, CacheState, ReaderRecords, NoRequest, Answers, Answer
<1>7. ReadersInTime'
  BY <1>1 DEF CacheInv, CacheState, ReadersInTime, Genuine, NoRequest
<1>8. EntriesInTime'
  <2> SUFFICES ASSUME NEW k \in Keys, store'[k].present
               PROVE  ( /\ Genuine(store[k].answer) /\ KeyOf[store[k].answer.url] = k
                        /\ store[k].until <= cacheClock + TtlOf[store[k].answer.url]
                        /\ InTime(store[k].answer, store[k].until) )'
    BY DEF EntriesInTime, Keys
  <2>1. CASE k = KeyOf[url]
    <3>1. store'[k] = [answer |-> a, until |-> end, present |-> TRUE]
      BY <1>1, <1>3, <2>1 DEF CacheInv, CacheState
    <3> HIDE DEF a, end
    <3>2. store'[k].answer = a /\ store'[k].until = end
      BY <3>1
    <3>3. /\ a.url \in Urls /\ a.version <= version[a.url]
          /\ a.version < version[a.url] =>
               end <= writtenAt[a.url][a.version] + TtlOf[a.url] + MaxHandling
      BY <1>2, <1>5 DEF Genuine, InTime
    <3>4. KeyOf[a.url] = k /\ end <= cacheClock + TtlOf[a.url]
      BY <1>1, <1>2, <1>3, <2>1 DEF end
    <3> QED
      BY <1>1, <3>2, <3>3, <3>4 DEF Genuine, InTime
  <2>2. CASE k # KeyOf[url]
    BY <1>1, <2>2 DEF CacheInv, CacheState, EntriesInTime, Genuine, InTime
  <2> QED
    BY <2>1, <2>2
<1>9. ServedInTime'
  BY <1>1, <1>2, <1>5 DEF ServedInTime, Genuine, InTime
<1> QED
  BY <1>6, <1>7, <1>8, <1>9 DEF CacheInv

\* What a write makes stale is replaced at this moment.
LEMMA WriteHolds ==
  ASSUME CacheInv, NEW u \in Urls, Write(u)
  PROVE  CacheInv'
<1> DEFINE v == version[u]
<1>1. /\ version' = [version EXCEPT ![u] = v + 1]
      /\ writtenAt' = [writtenAt EXCEPT ![u][v] = cacheClock]
      /\ served' = NothingServed
      /\ UNCHANGED <<cacheClock, store, reader>>
  BY DEF Write
<1>2. v \in Nat /\ v < MaxWrites /\ MaxWrites \in Nat /\ cacheClock \in Nat
  BY CacheAssumption DEF Write, CacheInv, CacheState
<1>3. CacheState'
  <2>1. /\ version \in [Urls -> 0..MaxWrites] /\ v + 1 \in 0..MaxWrites
        /\ writtenAt \in [Urls -> [0..MaxWrites -> Nat]]
    BY <1>2 DEF CacheInv, CacheState
  <2>2. version' \in [Urls -> 0..MaxWrites]
    BY <1>1, <2>1
  <2>3. [writtenAt[u] EXCEPT ![v] = cacheClock] \in [0..MaxWrites -> Nat]
    BY <1>2, <2>1
  <2>4. writtenAt' \in [Urls -> [0..MaxWrites -> Nat]]
    BY <1>1, <2>1, <2>3
  <2>5. served' \in Answers
    BY <1>1 DEF Answers, Answer, NothingServed
  <2> QED
    BY <1>1, <2>2, <2>4, <2>5 DEF CacheInv, CacheState
<1>4. /\ \A w \in Urls : w # u =>
           version'[w] = version[w] /\ writtenAt'[w] = writtenAt[w]
      /\ version'[u] = v + 1 /\ writtenAt'[u][v] = cacheClock
      /\ \A n \in 0..MaxWrites : n # v => writtenAt'[u][n] = writtenAt[u][n]
  BY <1>1, <1>2 DEF CacheInv, CacheState
<1>5. ASSUME NEW b \in Answers, Genuine(b) PROVE Genuine(b)'
  <2>1. b.url \in Urls /\ b.version \in Nat /\ b.version <= version[b.url]
    BY <1>5 DEF Genuine, Answers
  <2>2. b.version <= version'[b.url]
    BY <1>2, <1>4, <2>1
  <2> QED
    BY <2>1, <2>2 DEF Genuine
<1>6. ASSUME NEW r \in Readers, reader[r].step = "read",
             reader[r].answer.version < version'[reader[r].url]
      PROVE  reader[r].readAt <= writtenAt'[reader[r].url][reader[r].answer.version]
  <2> DEFINE b == reader[r].answer
  <2>1. /\ b \in Answers /\ Genuine(b) /\ b.url = reader[r].url
        /\ reader[r].readAt <= cacheClock
        /\ b.version < version[b.url] => reader[r].readAt <= writtenAt[b.url][b.version]
    BY <1>6 DEF CacheInv, CacheState, ReaderRecords, ReadersInTime
  <2>2. b.url \in Urls /\ b.version \in Nat /\ b.version <= version[b.url]
    BY <2>1 DEF Genuine, Answers
  <2>3. CASE b.url # u
    BY <1>4, <1>6, <2>1, <2>2, <2>3
  <2>4. CASE b.url = u /\ b.version = v
    BY <1>4, <2>1, <2>4
  <2>5. CASE b.url = u /\ b.version # v
    BY <1>2, <1>4, <1>6, <2>1, <2>2, <2>5
  <2> QED
    BY <2>3, <2>4, <2>5
<1>7. ReadersInTime'
  <2>1. \A r \in Readers : reader[r].answer \in Answers
    BY DEF CacheInv, CacheState, ReaderRecords
  <2> QED
    BY <1>1, <1>5, <1>6, <2>1 DEF CacheInv, ReadersInTime
<1>8. ASSUME NEW k \in Keys, store[k].present
      PROVE  InTime(store[k].answer, store[k].until)'
  <2> DEFINE b == store[k].answer
             t == store[k].until
  <2>1. /\ b \in Answers /\ Genuine(b) /\ t \in Nat
        /\ t <= cacheClock + TtlOf[b.url] /\ InTime(b, t)
    BY <1>8 DEF CacheInv, CacheState, EntriesInTime
  <2>2. /\ b.url \in Urls /\ b.version \in Nat /\ b.version <= version[b.url]
        /\ TtlOf[b.url] \in Nat /\ MaxHandling \in Nat
    BY <2>1, CacheAssumption DEF Genuine, Answers
  <2>3. CASE b.url # u
    BY <1>1, <1>4, <2>1, <2>2, <2>3 DEF InTime
  <2>4. CASE b.url = u /\ b.version = v
    BY <1>1, <1>2, <1>4, <2>1, <2>2, <2>4 DEF InTime
  <2>5. CASE b.url = u /\ b.version # v
    BY <1>1, <1>2, <1>4, <2>1, <2>2, <2>5 DEF InTime
  <2> QED
    BY <2>3, <2>4, <2>5
<1>9. EntriesInTime'
  <2>1. \A k \in Keys : store[k].answer \in Answers
    BY DEF CacheInv, CacheState
  <2> QED
    BY <1>1, <1>5, <1>8, <2>1 DEF CacheInv, EntriesInTime
<1>10. ServedInTime'
  BY <1>1 DEF ServedInTime, NothingServed, Answer
<1> QED
  BY <1>3, <1>7, <1>9, <1>10 DEF CacheInv

\* Every step of the cache keeps the invariant.
LEMMA CacheStepHolds ==
  ASSUME CacheInv, [CacheNext]_cacheVars
  PROVE  CacheInv'
<1>1. CASE RestartCache
  BY <1>1 DEF RestartCache, CacheInv, CacheState, ReadersInTime, EntriesInTime,
              ServedInTime, ReaderRecords, Answers, Answer, NoEntry, NoRequest,
              NothingServed
<1>2. CASE CacheTick
  <2>1. /\ cacheClock' = cacheClock + 1 /\ cacheClock \in Nat
        /\ served' = NothingServed
        /\ UNCHANGED <<version, writtenAt, store, reader>>
        /\ \A r \in Readers :
             reader[r].step = "read" => cacheClock < reader[r].readAt + MaxHandling
    BY <1>2 DEF CacheTick, CacheInv, CacheState
  <2>2. CacheState'
    BY <2>1 DEF CacheInv, CacheState, ReaderRecords, Answers, Answer,
              NothingServed
  <2>3. ReadersInTime'
    BY <2>1, CacheAssumption
       DEF CacheInv, CacheState, ReaderRecords, ReadersInTime, Genuine
  <2>4. EntriesInTime'
    <3>1. \A k \in Keys : store[k].until \in Nat
      BY DEF CacheInv, CacheState
    <3>2. \A k \in Keys : store[k].present => TtlOf[store[k].answer.url] \in Nat
      BY CacheAssumption DEF CacheInv, EntriesInTime, Genuine
    <3> QED
      BY <2>1, <3>1, <3>2 DEF CacheInv, EntriesInTime, Genuine, InTime
  <2>5. ServedInTime'
    BY <2>1 DEF ServedInTime, NothingServed, Answer
  <2> QED
    BY <2>2, <2>3, <2>4, <2>5 DEF CacheInv
<1>3. CASE UNCHANGED cacheVars
  BY <1>3 DEF cacheVars, CacheInv, CacheState, ReadersInTime, EntriesInTime,
              ServedInTime, Genuine, InTime
<1> QED
  BY <1>1, <1>2, <1>3, LookupHolds, HandlerReadsHolds, StoreHolds, WriteHolds
     DEF CacheNext

\* No interleaving of slow handlers, hits and writes keeps an answer alive for
\* longer than a time to live and the handler's time after it was replaced.
THEOREM AnswersInTime == Spec => []StalenessBounded
<1>1. Init => CacheInv
  BY CacheInitHolds DEF Init
<1>2. CacheInv /\ [Next]_vars => CacheInv'
  <2> SUFFICES ASSUME CacheInv, [Next]_vars PROVE CacheInv'
    OBVIOUS
  <2>1. [CacheNext]_cacheVars
    BY DEF Next, RunPart, vars, cacheVars
  <2> QED
    BY <2>1, CacheStepHolds
<1>3. CacheInv => StalenessBounded
  BY DEF CacheInv, ServedInTime, InTime, StalenessBounded
<1> QED
  BY <1>1, <1>2, <1>3, PTL DEF Spec

\* Every step keeps the types: no request finds a version beyond the bound, and
\* no time is after the clock's.
LEMMA CacheStepTyped ==
  ASSUME CacheInv, CacheTypeOK, [CacheNext]_cacheVars
  PROVE  CacheTypeOK'
<1> DEFINE answers == [url : Urls \cup {"-"}, version : 0..MaxWrites]
           times == 0..MaxTime
           entries == [answer : answers, until : Nat, present : BOOLEAN]
           readers == [step : {"free", "missed", "read"}, url : Urls \cup {"-"},
                       answer : answers, readAt : times]
<1>1. /\ MaxWrites \in Nat /\ MaxTime \in Nat /\ cacheClock \in times
      /\ \A u \in Urls : TtlOf[u] \in Nat /\ KeyOf[u] \in Keys
  BY CacheAssumption DEF CacheTypeOK, Keys
<1>2. /\ version \in [Urls -> 0..MaxWrites]
      /\ writtenAt \in [Urls -> [0..MaxWrites -> times]]
      /\ store \in [Keys -> entries] /\ reader \in [Readers -> readers]
      /\ served \in answers
  BY DEF CacheTypeOK
<1>3. /\ NothingServed \in answers /\ NoEntry \in entries /\ NoRequest \in readers
  BY <1>1 DEF NothingServed, NoEntry, NoRequest, Answer
<1>4. ASSUME NEW r \in Readers, NEW u \in Urls, Lookup(r, u) PROVE CacheTypeOK'
  <2>1. CASE Fresh(KeyOf[u])
    <3>1. served' = store[KeyOf[u]].answer /\ served' \in answers
          /\ UNCHANGED <<cacheClock, version, writtenAt, store, reader>>
      BY <1>1, <1>2, <1>4, <2>1 DEF Lookup
    <3> QED
      BY <1>1, <1>2, <3>1 DEF CacheTypeOK
  <2>2. CASE ~Fresh(KeyOf[u])
    <3>1. /\ reader' = [reader EXCEPT ![r].step = "missed", ![r].url = u]
          /\ served' = NothingServed
          /\ UNCHANGED <<cacheClock, version, writtenAt, store>>
      BY <1>4, <2>2 DEF Lookup
    <3>2. reader[r] \in readers
      BY <1>2
    <3>3. [reader[r] EXCEPT !.step = "missed", !.url = u] \in readers
      BY <3>2
    <3>4. reader' \in [Readers -> readers]
      BY <1>2, <3>1, <3>3
    <3> QED
      BY <1>1, <1>2, <1>3, <3>1, <3>4 DEF CacheTypeOK
  <2> QED
    BY <2>1, <2>2
<1>5. ASSUME NEW r \in Readers, HandlerReads(r) PROVE CacheTypeOK'
  <2> DEFINE url == reader[r].url
             seen == Answer(url, version[url])
  <2>1. /\ reader' = [reader EXCEPT ![r].step = "read", ![r].answer = seen,
                                    ![r].readAt = cacheClock]
        /\ served' = NothingServed
        /\ UNCHANGED <<cacheClock, version, writtenAt, store>>
    BY <1>5 DEF HandlerReads
  <2>2. url \in Urls /\ seen \in answers
    BY <1>2, <1>5 DEF HandlerReads, CacheInv, ReadersInTime, Answer
  <2> HIDE DEF seen
  <2>3. reader[r] \in readers
    BY <1>2
  <2>4. [reader[r] EXCEPT !.step = "read", !.answer = seen, !.readAt = cacheClock]
          \in readers
    BY <1>1, <2>2, <2>3
  <2>5. reader' \in [Readers -> readers]
    BY <1>2, <2>1, <2>4
  <2> QED
    BY <1>1, <1>2, <1>3, <2>1, <2>5 DEF CacheTypeOK
<1>6. ASSUME NEW r \in Readers, Store(r) PROVE CacheTypeOK'
  <2> DEFINE url == reader[r].url
             new == [answer |-> reader[r].answer, until |-> cacheClock + TtlOf[url],
                     present |-> TRUE]
  <2>1. /\ store' = [store EXCEPT ![KeyOf[url]] = new]
        /\ served' = reader[r].answer
        /\ reader' = [reader EXCEPT ![r] = NoRequest]
        /\ UNCHANGED <<cacheClock, version, writtenAt>>
    BY <1>6 DEF Store
  <2>2. url \in Urls /\ reader[r].answer \in answers
    BY <1>2, <1>6 DEF Store, CacheInv, ReadersInTime
  <2>3. cacheClock + TtlOf[url] \in Nat
    BY <1>1, <2>2
  <2>4. new \in entries
    BY <2>2, <2>3
  <2> HIDE DEF new
  <2>5. store' \in [Keys -> entries] /\ reader' \in [Readers -> readers]
    BY <1>2, <1>3, <2>1, <2>4
  <2> QED
    BY <1>1, <1>2, <2>1, <2>2, <2>5 DEF CacheTypeOK
<1>7. ASSUME NEW u \in Urls, Write(u) PROVE CacheTypeOK'
  <2>1. /\ version[u] < MaxWrites /\ version' = [version EXCEPT ![u] = @ + 1]
        /\ writtenAt' = [writtenAt EXCEPT ![u][version[u]] = cacheClock]
        /\ served' = NothingServed /\ UNCHANGED <<cacheClock, store, reader>>
    BY <1>7 DEF Write
  <2>2. version[u] \in 0..MaxWrites /\ version[u] + 1 \in 0..MaxWrites
    <3>1. version[u] \in 0..MaxWrites
      BY <1>2
    <3> QED
      BY <1>1, <2>1, <3>1
  <2>3. version' \in [Urls -> 0..MaxWrites]
    BY <1>2, <2>1, <2>2
  <2>4. writtenAt' \in [Urls -> [0..MaxWrites -> times]]
    BY <1>1, <1>2, <2>1, <2>2
  <2> QED
    BY <1>1, <1>2, <1>3, <2>1, <2>3, <2>4 DEF CacheTypeOK
<1>8. CASE RestartCache
  <2>1. /\ store' \in [Keys -> entries] /\ reader' \in [Readers -> readers]
        /\ served' = NothingServed /\ UNCHANGED <<cacheClock, version, writtenAt>>
    BY <1>3, <1>8 DEF RestartCache
  <2> QED
    BY <1>1, <1>2, <1>3, <2>1 DEF CacheTypeOK
<1>9. CASE CacheTick
  <2>1. /\ cacheClock' \in times /\ served' = NothingServed
        /\ UNCHANGED <<version, writtenAt, store, reader>>
    BY <1>1, <1>9 DEF CacheTick
  <2> QED
    BY <1>2, <1>3, <2>1 DEF CacheTypeOK
<1>10. CASE UNCHANGED cacheVars
  BY <1>10 DEF cacheVars, CacheTypeOK
<1> QED
  BY <1>4, <1>5, <1>6, <1>7, <1>8, <1>9, <1>10 DEF CacheNext

\* In every behaviour of the platform the cache keeps to its types.
LEMMA CacheTyped == Spec => []CacheTypeOK
<1>1. Init => CacheInv /\ CacheTypeOK
  BY CacheInitHolds, CacheAssumption
     DEF Init, CacheInit, CacheTypeOK, NoEntry, NoRequest, NothingServed, Answer
<1>2. CacheInv /\ CacheTypeOK /\ [Next]_vars => (CacheInv /\ CacheTypeOK)'
  <2> SUFFICES ASSUME CacheInv, CacheTypeOK, [Next]_vars
               PROVE  (CacheInv /\ CacheTypeOK)'
    OBVIOUS
  <2>1. [CacheNext]_cacheVars
    BY DEF Next, RunPart, vars, cacheVars
  <2> QED
    BY <2>1, CacheStepHolds, CacheStepTyped
<1> QED
  BY <1>1, <1>2, PTL DEF Spec

-----------------------------------------------------------------------------
(***************************************************************************)
(* The rate limit.  A counter is the length of the last series of          *)
(* successes with no gap longer than the time to live, and a series never  *)
(* gets longer than the limit.                                             *)
(***************************************************************************)
\* The clock has been where the successes of a client were, in their order.
TimesInOrder(c) ==
  LET mine == admitted[c] IN
  /\ mine \in Seq(Nat)
  /\ \A k \in 1..Len(mine) : mine[k] <= limitClock
  /\ \A j, k \in 1..Len(mine) : j <= k => mine[j] <= mine[k]

\* The counter tells of the last successes: as many as it counts, and kept for
\* the time to live of the last one.
CounterOfSeries(c) ==
  LET n == Len(admitted[c]) IN
  /\ counter[c] \in [count : Nat, until : Nat]
  /\ counter[c].count <= Limit
  /\ counter[c].count <= n
  /\ n > 0 => /\ counter[c].count > 0
              /\ counter[c].until = admitted[c][n] + Ttl

\* Before the series the counter counts, there is a gap.
GapBefore(c) ==
  LET first == Len(admitted[c]) - counter[c].count IN
  first > 0 => admitted[c][first] + Ttl < admitted[c][first + 1]

\* WindowLimit of one client, without its difference.
Windowed(c) ==
  \A k \in 1..Len(admitted[c]) :
    k + Limit <= Len(admitted[c]) =>
      admitted[c][k] + Ttl < admitted[c][k + Limit]

ClientInv(c) == TimesInOrder(c) /\ CounterOfSeries(c) /\ GapBefore(c) /\ Windowed(c)

LimitState ==
  /\ limitClock \in Nat
  /\ DOMAIN counter = Clients /\ counter = [c \in Clients |-> counter[c]]
  /\ DOMAIN admitted = Clients /\ admitted = [c \in Clients |-> admitted[c]]

LimitInv == LimitState /\ (\A c \in Clients : ClientInv(c))

\* What a refusal is answered for: RefusedWithinTtl, of a client there is.
RefusalHolds ==
  ~verdict.pass =>
    /\ verdict.client \in Clients
    /\ Len(admitted[verdict.client]) > 0
    /\ verdict.at <= admitted[verdict.client][Len(admitted[verdict.client])] + Ttl

\* The guard starts without counters.
LEMMA LimitInitHolds == LimitInit => LimitInv /\ RefusalHolds
<1> SUFFICES ASSUME LimitInit PROVE LimitInv /\ RefusalHolds
  OBVIOUS
<1>1. RefusalHolds
  BY DEF LimitInit, RefusalHolds
<1>2. LimitState
  BY DEF LimitInit, LimitState
<1>3. ASSUME NEW c \in Clients PROVE ClientInv(c)
  <2>1. admitted[c] = <<>> /\ Len(admitted[c]) = 0 /\ <<>> \in Seq(Nat)
    BY DEF LimitInit
  <2>2. counter[c] = [count |-> 0, until |-> 0]
    BY DEF LimitInit, NoCounter
  <2> QED
    BY <2>1, <2>2, RateLimitAssumption
       DEF ClientInv, TimesInOrder, CounterOfSeries, GapBefore, Windowed
<1> QED
  BY <1>1, <1>2, <1>3 DEF LimitInv

\* An admitted request extends the series of its client, or begins a new one
\* when the last was too long ago.
LEMMA AdmitHolds ==
  ASSUME LimitInv, NEW c \in Clients, ~Full(c), Admit(c)
  PROVE  LimitInv'
<1> DEFINE old == admitted[c]
           new == Append(old, limitClock)
           n == Len(old)
<1>1. limitClock' = limitClock /\ limitClock \in Nat /\ Limit \in Nat /\ Limit > 0
      /\ Ttl \in Nat
  BY RateLimitAssumption DEF Admit, LimitInv, LimitState
<1>2. /\ admitted[c] = old /\ Len(old) = n
      /\ admitted' = [admitted EXCEPT ![c] = new]
      /\ admitted'[c] = new
      /\ counter'[c] = [count |-> CurrentCount(c) + 1, until |-> limitClock + Ttl]
  BY DEF Admit, LimitInv, LimitState
<1>3. ClientInv(c)
  BY DEF LimitInv
<1>4. /\ old \in Seq(Nat) /\ n \in Nat
      /\ \A k \in 1..n : old[k] \in Nat /\ old[k] <= limitClock
      /\ \A j, k \in 1..n : j <= k => old[j] <= old[k]
  BY <1>3 DEF ClientInv, TimesInOrder
<1>5. /\ new \in Seq(Nat) /\ Len(new) = n + 1
      /\ new[n + 1] = limitClock
      /\ \A k \in 1..n : new[k] = old[k]
  BY <1>1, <1>4
<1>6. /\ CurrentCount(c) \in Nat /\ CurrentCount(c) < Limit /\ CurrentCount(c) <= n
      /\ \/ CurrentCount(c) = counter[c].count
         \/ CurrentCount(c) = 0 /\ (n > 0 => old[n] + Ttl < limitClock)
  <2>1. /\ counter[c].count \in Nat /\ counter[c].until \in Nat
        /\ counter[c].count <= n
        /\ n > 0 => counter[c].until = old[n] + Ttl
    BY <1>2, <1>3 DEF ClientInv, CounterOfSeries
  <2> QED
    BY <1>1, <1>4, <2>1, RateLimitAssumption DEF CurrentCount, Full
<1> HIDE DEF old, new, n
<1>7. TimesInOrder(c)'
  <2>1. \A k \in 1..(n + 1) : k \in 1..n \/ k = n + 1
    BY <1>4
  <2>2. ASSUME NEW k \in 1..(n + 1) PROVE new[k] <= limitClock
    <3>1. CASE k = n + 1
      BY <1>1, <1>5, <3>1
    <3>2. CASE k \in 1..n
      BY <1>4, <1>5, <3>2
    <3> QED
      BY <2>1, <3>1, <3>2
  <2>3. ASSUME NEW j \in 1..(n + 1), NEW k \in 1..(n + 1), j <= k
        PROVE  new[j] <= new[k]
    <3>1. CASE k = n + 1
      BY <1>5, <2>2, <3>1
    <3>2. CASE k \in 1..n
      <4>1. j \in 1..n
        BY <1>4, <2>3, <3>2
      <4> QED
        BY <1>4, <1>5, <2>3, <3>2, <4>1
    <3> QED
      BY <2>1, <3>1, <3>2
  <2> QED
    BY <1>1, <1>2, <1>5, <2>2, <2>3 DEF TimesInOrder
<1>8. CounterOfSeries(c)'
  BY <1>1, <1>2, <1>4, <1>5, <1>6 DEF CounterOfSeries
<1>9. GapBefore(c)'
  <2>1. Len(admitted'[c]) - counter'[c].count = n - CurrentCount(c)
    BY <1>2, <1>4, <1>5, <1>6
  <2>2. CASE CurrentCount(c) = counter[c].count /\ CurrentCount(c) > 0
    <3> DEFINE first == n - CurrentCount(c)
    <3>1. first > 0 => old[first] + Ttl < old[first + 1]
      BY <1>2, <1>3, <2>2 DEF ClientInv, GapBefore
    <3>2. first > 0 => first \in 1..n /\ first + 1 \in 1..n
      BY <1>4, <1>6, <2>2
    <3> QED
      BY <1>2, <1>5, <2>1, <3>1, <3>2 DEF GapBefore
  <2>3. CASE CurrentCount(c) = 0
    <3>1. n > 0 => old[n] + Ttl < limitClock
      BY <1>2, <1>3, <1>4, <1>6, <2>3 DEF ClientInv, CounterOfSeries
    <3> QED
      BY <1>2, <1>4, <1>5, <2>1, <2>3, <3>1 DEF GapBefore
  <2> QED
    BY <1>6, <2>2, <2>3
<1>10. Windowed(c)'
  <2> SUFFICES ASSUME NEW k \in 1..(n + 1), k + Limit <= n + 1
               PROVE  new[k] + Ttl < new[k + Limit]
    BY <1>2, <1>5 DEF Windowed
  <2>1. k \in 1..n /\ k + Limit \in Nat /\ n > 0
    BY <1>1, <1>4
  <2>2. CASE k + Limit <= n
    <3>1. old[k] + Ttl < old[k + Limit] /\ k + Limit \in 1..n
      BY <1>1, <1>2, <1>3, <2>1, <2>2 DEF ClientInv, Windowed
    <3> QED
      BY <1>5, <2>1, <3>1
  <2>3. CASE k + Limit = n + 1
    <3> DEFINE first == n - CurrentCount(c)
    <3>1. first \in 1..n /\ k <= first
      BY <1>1, <1>4, <1>6, <2>1, <2>3
    <3> HIDE DEF first
    <3>2. old[k] <= old[first] /\ old[k] \in Nat /\ old[first] \in Nat
      BY <1>4, <2>1, <3>1
    <3>5. new[k] = old[k] /\ new[k + Limit] = limitClock
      BY <1>5, <2>1, <2>3
    <3>3. CASE CurrentCount(c) = 0
      <4>1. old[n] + Ttl < limitClock
        BY <1>2, <1>3, <1>4, <1>6, <2>1, <3>3 DEF ClientInv, CounterOfSeries
      <4>2. first = n
        BY <1>4, <3>3 DEF first
      <4> QED
        BY <1>1, <3>2, <3>5, <4>1, <4>2
    <3>4. CASE CurrentCount(c) = counter[c].count /\ CurrentCount(c) > 0
      <4>a. first = Len(admitted[c]) - counter[c].count /\ first > 0
        BY <1>2, <3>1, <3>4 DEF first
      <4>b. GapBefore(c)
        BY <1>3 DEF ClientInv
      <4>c. first + 1 \in 1..n
        BY <1>4, <1>6, <3>1, <3>4 DEF first
      <4>1. old[first] + Ttl < old[first + 1] /\ first + 1 \in 1..n
        BY <1>2, <4>a, <4>b, <4>c DEF GapBefore
      <4>2. old[first + 1] <= limitClock /\ old[first + 1] \in Nat
        BY <1>4, <4>1
      <4> QED
        BY <1>1, <3>2, <3>5, <4>1, <4>2
    <3> QED
      BY <1>6, <3>3, <3>4
  <2> QED
    BY <1>1, <1>4, <2>1, <2>2, <2>3
<1>11. ASSUME NEW d \in Clients, d # c PROVE ClientInv(d)'
  <2>1. admitted'[d] = admitted[d] /\ counter'[d] = counter[d]
    BY <1>11 DEF Admit, LimitInv, LimitState
  <2>2. ClientInv(d)
    BY DEF LimitInv
  <2> QED
    BY <1>1, <2>1, <2>2
       DEF ClientInv, TimesInOrder, CounterOfSeries, GapBefore, Windowed
<1>12. LimitState'
  BY <1>1 DEF Admit, LimitInv, LimitState
<1> QED
  BY <1>7, <1>8, <1>9, <1>10, <1>11, <1>12 DEF LimitInv, ClientInv

\* Every step of the guard, a restart and the clock keep the invariant.
LEMMA LimitStepHolds ==
  ASSUME LimitInv, [LimitNext]_limitVars
  PROVE  LimitInv'
<1>1. ASSUME NEW c \in Clients, CanActivate(c) PROVE LimitInv'
  <2>1. CASE Full(c)
    BY <1>1, <2>1
       DEF CanActivate, Refuse, LimitInv, LimitState, ClientInv, TimesInOrder,
           CounterOfSeries, GapBefore, Windowed
  <2>2. CASE ~Full(c)
    BY <1>1, <2>2, AdmitHolds DEF CanActivate
  <2> QED
    BY <2>1, <2>2
<1>2. CASE RestartLimit
  <2>1. ASSUME NEW c \in Clients PROVE ClientInv(c)'
    <3>1. /\ admitted'[c] = <<>> /\ Len(admitted'[c]) = 0 /\ <<>> \in Seq(Nat)
          /\ counter'[c] = [count |-> 0, until |-> 0]
      BY <1>2 DEF RestartLimit, NoCounter
    <3> QED
      BY <3>1, RateLimitAssumption
         DEF ClientInv, TimesInOrder, CounterOfSeries, GapBefore, Windowed
  <2> QED
    BY <1>2, <2>1 DEF RestartLimit, LimitInv, LimitState
<1>3. CASE LimitTick
  <2>1. /\ limitClock' = limitClock + 1 /\ limitClock \in Nat
        /\ counter' = counter /\ admitted' = admitted
    BY <1>3 DEF LimitTick, LimitInv, LimitState
  <2>2. ASSUME NEW c \in Clients PROVE ClientInv(c)'
    <3>1. TimesInOrder(c)'
      <4>1. TimesInOrder(c)
        BY DEF LimitInv, ClientInv
      <4>2. \A k \in 1..Len(admitted[c]) : admitted[c][k] \in Nat
        BY <4>1 DEF TimesInOrder
      <4> QED
        BY <2>1, <4>1, <4>2 DEF TimesInOrder
    <3> QED
      BY <2>1, <3>1
         DEF LimitInv, ClientInv, CounterOfSeries, GapBefore, Windowed
  <2> QED
    BY <2>1, <2>2 DEF LimitInv, LimitState
<1>4. CASE UNCHANGED limitVars
  BY <1>4
     DEF limitVars, LimitInv, LimitState, ClientInv, TimesInOrder,
         CounterOfSeries, GapBefore, Windowed
<1> QED
  BY <1>1, <1>2, <1>3, <1>4 DEF LimitNext

\* A refusal is one within the time to live of the client's last success.
LEMMA RefusalStepHolds ==
  ASSUME LimitInv, RefusalHolds, [LimitNext]_limitVars
  PROVE  RefusalHolds'
<1>1. ASSUME NEW c \in Clients, CanActivate(c) PROVE RefusalHolds'
  <2>1. CASE Full(c)
    <3>1. Refuse(c)
      BY <1>1, <2>1 DEF CanActivate
    <3>2. /\ limitClock \in Nat
          /\ counter[c].count \in Nat /\ counter[c].until \in Nat
          /\ Len(admitted[c]) \in Nat
          /\ counter[c].count <= Len(admitted[c])
          /\ Len(admitted[c]) > 0 =>
               counter[c].until = admitted[c][Len(admitted[c])] + Ttl
      BY DEF LimitInv, LimitState, ClientInv, TimesInOrder, CounterOfSeries
    <3>3. limitClock <= counter[c].until /\ Len(admitted[c]) > 0
      BY <2>1, <3>2, RateLimitAssumption DEF Full, CurrentCount
    <3> QED
      BY <3>1, <3>2, <3>3 DEF Refuse, RefusalHolds
  <2>2. CASE ~Full(c)
    BY <1>1, <2>2 DEF CanActivate, Admit, RefusalHolds
  <2> QED
    BY <2>1, <2>2
<1>2. CASE RestartLimit
  BY <1>2 DEF RestartLimit, RefusalHolds
<1>3. CASE LimitTick \/ UNCHANGED limitVars
  BY <1>3 DEF LimitTick, limitVars, RefusalHolds
<1> QED
  BY <1>1, <1>2, <1>3 DEF LimitNext

\* In every behaviour of the platform the guard's own invariant holds.
LEMMA LimitAlways == Spec => [](LimitInv /\ RefusalHolds)
<1>1. Init => LimitInv /\ RefusalHolds
  BY LimitInitHolds DEF Init
<1>2. LimitInv /\ RefusalHolds /\ [Next]_vars => (LimitInv /\ RefusalHolds)'
  <2> SUFFICES ASSUME LimitInv, RefusalHolds, [Next]_vars
               PROVE  (LimitInv /\ RefusalHolds)'
    OBVIOUS
  <2>1. [LimitNext]_limitVars
    BY DEF Next, RunPart, vars, limitVars
  <2> QED
    BY <2>1, LimitStepHolds, RefusalStepHolds
<1> QED
  BY <1>1, <1>2, PTL DEF Spec

\* resend-otp's "3 per 2 minutes": no client gets more requests than the limit
\* through in a window as long as the time to live.
THEOREM WindowKept == Spec => []WindowLimit
<1>1. LimitInv => WindowLimit
  <2> SUFFICES ASSUME LimitInv, NEW c \in Clients, NEW k \in DOMAIN admitted[c],
                      k + Limit \in DOMAIN admitted[c]
               PROVE  admitted[c][k + Limit] - admitted[c][k] > Ttl
    BY DEF WindowLimit
  <2>1. admitted[c] \in Seq(Nat) /\ Windowed(c)
    BY DEF LimitInv, ClientInv, TimesInOrder
  <2>2. /\ k \in 1..Len(admitted[c]) /\ k + Limit \in 1..Len(admitted[c])
        /\ admitted[c][k] \in Nat /\ admitted[c][k + Limit] \in Nat
    BY <2>1
  <2>3. admitted[c][k] + Ttl < admitted[c][k + Limit]
    BY <2>1, <2>2 DEF Windowed
  <2> QED
    BY <2>2, <2>3, RateLimitAssumption
<1> QED
  BY <1>1, LimitAlways, PTL

\* The window that moves with the traffic locks no client out: a refused
\* request is within the time to live of the client's own last success.
THEOREM RefusalsEnd == Spec => []RefusedWithinTtl
<1>1. LimitInv /\ RefusalHolds => RefusedWithinTtl
  BY DEF RefusalHolds, RefusedWithinTtl
<1> QED
  BY <1>1, LimitAlways, PTL

\* The bounds of the types.
LimitBounds ==
  /\ limitClock \in 0..MaxLimitTime
  /\ \A c \in Clients : counter[c].until \in 0..(MaxLimitTime + Ttl)
  /\ verdict \in [client : Clients \cup {"-"}, pass : BOOLEAN, at : 0..MaxLimitTime]

\* The guard's invariant within these bounds is its type.
LEMMA LimitTypes == LimitInv /\ LimitBounds => LimitTypeOK
<1> SUFFICES ASSUME LimitInv, LimitBounds PROVE LimitTypeOK
  OBVIOUS
<1>1. Limit \in Nat /\ MaxLimitTime \in Nat /\ Ttl \in Nat
  BY RateLimitAssumption
<1>2. ASSUME NEW c \in Clients
      PROVE  /\ counter[c] \in [count : 0..Limit, until : 0..(MaxLimitTime + Ttl)]
             /\ \A k \in DOMAIN admitted[c] : admitted[c][k] \in 0..MaxLimitTime
  <2>1. /\ counter[c] \in [count : Nat, until : Nat] /\ counter[c].count <= Limit
        /\ counter[c].until \in 0..(MaxLimitTime + Ttl)
    BY DEF LimitInv, ClientInv, CounterOfSeries, LimitBounds
  <2>2. /\ admitted[c] \in Seq(Nat) /\ limitClock \in 0..MaxLimitTime
        /\ \A k \in 1..Len(admitted[c]) : admitted[c][k] <= limitClock
    BY DEF LimitInv, ClientInv, TimesInOrder, LimitBounds
  <2>3. \A k \in DOMAIN admitted[c] :
          admitted[c][k] \in Nat /\ admitted[c][k] <= limitClock
    BY <2>2
  <2> QED
    BY <1>1, <2>1, <2>2, <2>3
<1>3. counter \in [Clients -> [count : 0..Limit, until : 0..(MaxLimitTime + Ttl)]]
  BY <1>2 DEF LimitInv, LimitState
<1> QED
  BY <1>2, <1>3 DEF LimitTypeOK, LimitBounds

\* Every step of the guard keeps the bounds.
LEMMA LimitStepTyped ==
  ASSUME LimitInv, LimitBounds, [LimitNext]_limitVars
  PROVE  LimitBounds'
<1>1. /\ MaxLimitTime \in Nat /\ Ttl \in Nat /\ limitClock \in 0..MaxLimitTime
      /\ DOMAIN counter = Clients
  BY RateLimitAssumption DEF LimitBounds, LimitInv, LimitState
<1>2. ASSUME NEW c \in Clients, CanActivate(c) PROVE LimitBounds'
  <2>1. CASE Full(c)
    <3>1. /\ verdict' = [client |-> c, pass |-> FALSE, at |-> limitClock]
          /\ UNCHANGED <<limitClock, counter, admitted>>
      BY <1>2, <2>1 DEF CanActivate, Refuse
    <3>2. verdict' \in [client : Clients \cup {"-"}, pass : BOOLEAN,
                        at : 0..MaxLimitTime]
      BY <1>1, <3>1
    <3> QED
      BY <1>1, <3>1, <3>2 DEF LimitBounds
  <2>2. CASE ~Full(c)
    <3>1. /\ counter' = [counter EXCEPT ![c] = [count |-> CurrentCount(c) + 1,
                                                until |-> limitClock + Ttl]]
          /\ verdict' = [client |-> c, pass |-> TRUE, at |-> limitClock]
          /\ UNCHANGED limitClock
      BY <1>2, <2>2 DEF CanActivate, Admit
    <3>2. limitClock + Ttl \in 0..(MaxLimitTime + Ttl)
      BY <1>1
    <3>3. \A d \in Clients : counter'[d].until \in 0..(MaxLimitTime + Ttl)
      BY <1>1, <3>1, <3>2 DEF LimitBounds
    <3> QED
      BY <1>1, <3>1, <3>3 DEF LimitBounds
  <2> QED
    BY <2>1, <2>2
<1>3. CASE RestartLimit
  <2>1. 0 \in 0..(MaxLimitTime + Ttl) /\ 0 \in 0..MaxLimitTime
    BY <1>1
  <2> QED
    BY <1>1, <1>3, <2>1 DEF RestartLimit, LimitBounds, NoCounter
<1>4. CASE LimitTick
  <2>1. limitClock' \in 0..MaxLimitTime /\ UNCHANGED <<counter, admitted, verdict>>
    BY <1>1, <1>4 DEF LimitTick
  <2> QED
    BY <2>1 DEF LimitBounds
<1>5. CASE UNCHANGED limitVars
  BY <1>5 DEF limitVars, LimitBounds
<1> QED
  BY <1>2, <1>3, <1>4, <1>5 DEF LimitNext

\* In every behaviour of the platform the guard keeps to its types.
LEMMA LimitTyped == Spec => []LimitTypeOK
<1>1. Init => LimitInv /\ LimitBounds
  <2> SUFFICES ASSUME LimitInit PROVE LimitInv /\ LimitBounds
    BY DEF Init
  <2>1. LimitInv /\ 0 \in 0..MaxLimitTime /\ 0 \in 0..(MaxLimitTime + Ttl)
    BY LimitInitHolds, RateLimitAssumption
  <2> QED
    BY <2>1 DEF LimitInit, LimitBounds, NoCounter
<1>2. LimitInv /\ LimitBounds /\ [Next]_vars => (LimitInv /\ LimitBounds)'
  <2> SUFFICES ASSUME LimitInv, LimitBounds, [Next]_vars
               PROVE  (LimitInv /\ LimitBounds)'
    OBVIOUS
  <2>1. [LimitNext]_limitVars
    BY DEF Next, RunPart, vars, limitVars
  <2> QED
    BY <2>1, LimitStepHolds, LimitStepTyped
<1> QED
  BY <1>1, <1>2, LimitTypes, PTL DEF Spec

(***************************************************************************)
(* The route tables.  An entry that stands before another of the same verb *)
(* and length has a literal segment the other's path does not have, with   *)
(* three exceptions, each taken by the GET or DELETE of ":id" before it.   *)
(***************************************************************************)
Verb(c, k) == Table[c][k].verb
Size(c, k) == Len(Table[c][k].path)
Segment(c, k, i) == Table[c][k].path[i]

\* The path of entry k is a sequence.
IsPath(c, k) == DOMAIN Table[c][k].path = 1..Size(c, k)

Path0(c, k, verb) ==
  IsPath(c, k) /\ Verb(c, k) = verb /\ Size(c, k) = 0

Path1(c, k, verb, s1) ==
  /\ IsPath(c, k) /\ Verb(c, k) = verb /\ Size(c, k) = 1
  /\ Segment(c, k, 1) = s1

Path2(c, k, verb, s1, s2) ==
  /\ IsPath(c, k) /\ Verb(c, k) = verb /\ Size(c, k) = 2
  /\ Segment(c, k, 1) = s1 /\ Segment(c, k, 2) = s2

Path3(c, k, verb, s1, s2, s3) ==
  /\ IsPath(c, k) /\ Verb(c, k) = verb /\ Size(c, k) = 3
  /\ Segment(c, k, 1) = s1 /\ Segment(c, k, 2) = s2 /\ Segment(c, k, 3) = s3

\* Segment i of entry j is a literal that is not in the path of entry k.
Differ(c, j, k, i) ==
  /\ i <= Size(c, k)
  /\ Segment(c, j, i) \notin {":id", ":key", "<uuid>", "<key>", Segment(c, k, i)}

Apart(c, j, k) ==
  \/ Verb(c, j) # Verb(c, k)
  \/ Size(c, j) # Size(c, k)
  \/ Differ(c, j, k, 1) \/ Differ(c, j, k, 2) \/ Differ(c, j, k, 3)

\* The entry that takes the requests meant for entry k.
Taker(c, k) ==
  IF <<c, k>> \in {<<"notifications", 7>>, <<"payments", 10>>, <<"payments", 12>>}
    THEN 6 ELSE k

\* Entry j is one segment ":id", and entry k one literal.
Shadows(c, j, k) ==
  /\ Verb(c, j) = Verb(c, k) /\ Size(c, j) = 1 /\ Size(c, k) = 1
  /\ Segment(c, j, 1) = ":id" /\ Segment(c, k, 1) \notin {":id", ":key", "<uuid>"}

InOrder(c) ==
  /\ DOMAIN Table[c] = 1..Len(Table[c]) /\ Len(Table[c]) \in Nat
  /\ \A k \in DOMAIN Table[c] :
       /\ IsPath(c, k) /\ Size(c, k) \in 0..3
       /\ Taker(c, k) \in DOMAIN Table[c]
       /\ Taker(c, k) # k => Shadows(c, Taker(c, k), k)
       /\ \A j \in 1..(Taker(c, k) - 1) : Apart(c, j, k)

\* The table of the administrators.
LEMMA AdminInOrder == InOrder("admin") /\ Len(Table["admin"]) = 18
<1>1. /\ DOMAIN Table["admin"] = 1..18 /\ Len(Table["admin"]) = 18
      /\ Path1("admin", 1, "GET", "dashboard")
      /\ Path1("admin", 2, "GET", "statistics")
      /\ Path1("admin", 3, "GET", "revenue")
      /\ Path2("admin", 4, "GET", "providers", "pending")
      /\ Path3("admin", 5, "POST", "providers", ":id", "approve")
      /\ Path3("admin", 6, "POST", "providers", ":id", "reject")
      /\ Path2("admin", 7, "GET", "documents", "pending")
      /\ Path3("admin", 8, "POST", "documents", ":id", "verify")
      /\ Path3("admin", 9, "POST", "documents", ":id", "reject")
      /\ Path1("admin", 10, "GET", "settings")
      /\ Path2("admin", 11, "PATCH", "settings", ":key")
      /\ Path1("admin", 12, "GET", "audit-logs")
      /\ Path2("admin", 13, "GET", "reports", "bookings")
      /\ Path2("admin", 14, "GET", "reports", "revenue")
      /\ Path2("admin", 15, "GET", "reports", "providers")
      /\ Path3("admin", 16, "POST", "users", ":id", "ban")
      /\ Path3("admin", 17, "POST", "users", ":id", "unban")
      /\ Path2("admin", 18, "GET", "analytics", "trends")
  BY SMTT(30)
     DEF Table, Path1, Path2, Path3, IsPath, Verb, Size, Segment, Get, Post,
         Patch, Delete, Route, AdminRoutes1, AdminRoutes2
<1>2. \A k \in 1..18 : \A j \in 1..(k - 1) : Apart("admin", j, k)
  BY <1>1 DEF Apart, Differ, Path1, Path2, Path3
<1>3. \A k \in 1..18 : IsPath("admin", k) /\ Size("admin", k) \in 0..3
  BY <1>1 DEF Path1, Path2, Path3
<1> QED
  BY <1>1, <1>2, <1>3 DEF InOrder, Taker

\* The table of the analytics.
LEMMA AnalyticsInOrder == InOrder("analytics") /\ Len(Table["analytics"]) = 5
<1>1. /\ DOMAIN Table["analytics"] = 1..5 /\ Len(Table["analytics"]) = 5
      /\ Path2("analytics", 1, "GET", "provider", "dashboard")
      /\ Path2("analytics", 2, "GET", "provider", "performance")
      /\ Path2("analytics", 3, "GET", "provider", "earnings")
      /\ Path2("analytics", 4, "GET", "customer", "summary")
      /\ Path2("analytics", 5, "GET", "customer", "spending")
  BY DEF Table, Path2, IsPath, Verb, Size, Segment, Get, Post, Patch, Delete,
         Route, AnalyticsRoutes
<1>2. \A k \in 1..5 : \A j \in 1..(k - 1) : Apart("analytics", j, k)
  BY <1>1 DEF Apart, Differ, Path2
<1>3. \A k \in 1..5 : IsPath("analytics", k) /\ Size("analytics", k) \in 0..3
  BY <1>1 DEF Path2
<1> QED
  BY <1>1, <1>2, <1>3 DEF InOrder, Taker

\* The table of authentication.
LEMMA AuthInOrder == InOrder("auth") /\ Len(Table["auth"]) = 12
<1>1. /\ DOMAIN Table["auth"] = 1..12 /\ Len(Table["auth"]) = 12
      /\ Path1("auth", 1, "POST", "register")
      /\ Path1("auth", 2, "POST", "verify-otp")
      /\ Path1("auth", 3, "POST", "resend-otp")
      /\ Path1("auth", 4, "POST", "login")
      /\ Path1("auth", 5, "POST", "forgot-password")
      /\ Path1("auth", 6, "POST", "reset-password")
      /\ Path1("auth", 7, "POST", "refresh-token")
      /\ Path1("auth", 8, "POST", "logout")
      /\ Path1("auth", 9, "PATCH", "change-password")
      /\ Path1("auth", 10, "GET", "me")
      /\ Path1("auth", 11, "POST", "update-fcm-token")
      /\ Path1("auth", 12, "POST", "remove-fcm-token")
  BY DEF Table, Path1, IsPath, Verb, Size, Segment, Get, Post, Patch, Delete,
         Route, AuthRoutes
<1>2. \A k \in 1..12 : \A j \in 1..(k - 1) : Apart("auth", j, k)
  BY <1>1 DEF Apart, Differ, Path1
<1>3. \A k \in 1..12 : IsPath("auth", k) /\ Size("auth", k) \in 0..3
  BY <1>1 DEF Path1
<1> QED
  BY <1>1, <1>2, <1>3 DEF InOrder, Taker

\* The table of the bookings.
LEMMA BookingsInOrder == InOrder("bookings") /\ Len(Table["bookings"]) = 18
<1>1. /\ DOMAIN Table["bookings"] = 1..18 /\ Len(Table["bookings"]) = 18
      /\ Path0("bookings", 1, "POST")
      /\ Path0("bookings", 2, "GET")
      /\ Path1("bookings", 3, "GET", "upcoming")
      /\ Path1("bookings", 4, "GET", "history")
      /\ Path1("bookings", 5, "GET", "active")
      /\ Path1("bookings", 6, "GET", "statistics")
      /\ Path1("bookings", 7, "GET", ":id")
      /\ Path2("bookings", 8, "GET", ":id", "timeline")
      /\ Path1("bookings", 9, "PATCH", ":id")
      /\ Path2("bookings", 10, "POST", ":id", "cancel")
      /\ Path2("bookings", 11, "POST", ":id", "accept")
      /\ Path2("bookings", 12, "POST", ":id", "reject")
      /\ Path2("bookings", 13, "POST", ":id", "start")
      /\ Path2("bookings", 14, "POST", ":id", "complete")
      /\ Path2("bookings", 15, "POST", ":id", "en-route")
      /\ Path2("bookings", 16, "POST", ":id", "arrived")
      /\ Path2("bookings", 17, "GET", ":id", "tracking")
      /\ Path2("bookings", 18, "GET", "admin", "all")
  BY DEF Table, Path0, Path1, Path2, IsPath, Verb, Size, Segment, Get, Post,
         Patch, Delete, Route, BookingsRoutes1, BookingsRoutes2
<1>2. \A k \in 1..18 : \A j \in 1..(k - 1) : Apart("bookings", j, k)
  BY <1>1 DEF Apart, Differ, Path0, Path1, Path2
<1>3. \A k \in 1..18 : IsPath("bookings", k) /\ Size("bookings", k) \in 0..3
  BY <1>1 DEF Path0, Path1, Path2
<1> QED
  BY <1>1, <1>2, <1>3 DEF InOrder, Taker

\* The table of the chat.
LEMMA ChatInOrder == InOrder("chat") /\ Len(Table["chat"]) = 6
<1>1. /\ DOMAIN Table["chat"] = 1..6 /\ Len(Table["chat"]) = 6
      /\ Path1("chat", 1, "GET", "conversations")
      /\ Path2("chat", 2, "GET", "conversations", ":id")
      /\ Path3("chat", 3, "GET", "conversations", ":id", "messages")
      /\ Path3("chat", 4, "POST", "conversations", ":id", "messages")
      /\ Path3("chat", 5, "PATCH", "messages", ":id", "read")
      /\ Path3("chat", 6, "POST", "conversations", ":id", "typing")
  BY DEF Table, Path1, Path2, Path3, IsPath, Verb, Size, Segment, Get, Post,
         Patch, Delete, Route, ChatRoutes
<1>2. \A k \in 1..6 : \A j \in 1..(k - 1) : Apart("chat", j, k)
  BY <1>1 DEF Apart, Differ, Path1, Path2, Path3
<1>3. \A k \in 1..6 : IsPath("chat", k) /\ Size("chat", k) \in 0..3
  BY <1>1 DEF Path1, Path2, Path3
<1> QED
  BY <1>1, <1>2, <1>3 DEF InOrder, Taker

\* The table of the disputes.
LEMMA DisputesInOrder == InOrder("disputes") /\ Len(Table["disputes"]) = 15
<1>1. /\ DOMAIN Table["disputes"] = 1..15 /\ Len(Table["disputes"]) = 15
      /\ Path1("disputes", 1, "POST", "upload")
      /\ Path0("disputes", 2, "POST")
      /\ Path0("disputes", 3, "GET")
      /\ Path1("disputes", 4, "GET", ":id")
      /\ Path1("disputes", 5, "PATCH", ":id")
      /\ Path2("disputes", 6, "POST", ":id", "evidence")
      /\ Path2("disputes", 7, "GET", ":id", "evidence")
      /\ Path2("disputes", 8, "POST", ":id", "messages")
      /\ Path2("disputes", 9, "GET", ":id", "messages")
      /\ Path2("disputes", 10, "POST", ":id", "escalate")
      /\ Path2("disputes", 11, "POST", ":id", "withdraw")
      /\ Path2("disputes", 12, "GET", "admin", "all")
      /\ Path2("disputes", 13, "POST", ":id", "resolve")
      /\ Path2("disputes", 14, "PATCH", ":id", "assign")
      /\ Path2("disputes", 15, "GET", "admin", "statistics")
  BY DEF Table, Path0, Path1, Path2, IsPath, Verb, Size, Segment, Get, Post,
         Patch, Delete, Route, DisputesRoutes1, DisputesRoutes2
<1>2. \A k \in 1..15 : \A j \in 1..(k - 1) : Apart("disputes", j, k)
  BY <1>1 DEF Apart, Differ, Path0, Path1, Path2
<1>3. \A k \in 1..15 : IsPath("disputes", k) /\ Size("disputes", k) \in 0..3
  BY <1>1 DEF Path0, Path1, Path2
<1> QED
  BY <1>1, <1>2, <1>3 DEF InOrder, Taker

\* The table of the health check.
LEMMA HealthInOrder == InOrder("health") /\ Len(Table["health"]) = 1
<1>1. /\ DOMAIN Table["health"] = 1..1 /\ Len(Table["health"]) = 1
      /\ Path1("health", 1, "GET", "health")
  BY DEF Table, Path1, IsPath, Verb, Size, Segment, Get, Post, Patch, Delete,
         Route, HealthRoutes
<1>2. \A k \in 1..1 : \A j \in 1..(k - 1) : Apart("health", j, k)
  BY <1>1 DEF Apart, Differ, Path1
<1>3. \A k \in 1..1 : IsPath("health", k) /\ Size("health", k) \in 0..3
  BY <1>1 DEF Path1
<1> QED
  BY <1>1, <1>2, <1>3 DEF InOrder, Taker

\* The table of the locations.
LEMMA LocationsInOrder == InOrder("locations") /\ Len(Table["locations"]) = 13
<1>1. /\ DOMAIN Table["locations"] = 1..13 /\ Len(Table["locations"]) = 13
      /\ Path1("locations", 1, "POST", "addresses")
      /\ Path1("locations", 2, "GET", "addresses")
      /\ Path2("locations", 3, "GET", "addresses", ":id")
      /\ Path2("locations", 4, "PATCH", "addresses", ":id")
      /\ Path3("locations", 5, "PATCH", "addresses", ":id", "set-default")
      /\ Path2("locations", 6, "DELETE", "addresses", ":id")
      /\ Path2("locations", 7, "GET", "nearby", "providers")
      /\ Path2("locations", 8, "GET", "nearby", "services")
      /\ Path2("locations", 9, "POST", "provider", "location")
      /\ Path3("locations", 10, "GET", "provider", "location", "history")
      /\ Path1("locations", 11, "GET", "geocode")
      /\ Path1("locations", 12, "GET", "reverse-geocode")
      /\ Path1("locations", 13, "GET", "coverage-areas")
  BY DEF Table, Path1, Path2, Path3, IsPath, Verb, Size, Segment, Get, Post,
         Patch, Delete, Route, LocationsRoutes1, LocationsRoutes2
<1>2. \A k \in 1..13 : \A j \in 1..(k - 1) : Apart("locations", j, k)
  BY <1>1 DEF Apart, Differ, Path1, Path2, Path3
<1>3. \A k \in 1..13 : IsPath("locations", k) /\ Size("locations", k) \in 0..3
  BY <1>1 DEF Path1, Path2, Path3
<1> QED
  BY <1>1, <1>2, <1>3 DEF InOrder, Taker

\* The table of the notifications, with the first exception.
LEMMA NotificationsInOrder == InOrder("notifications") /\ Len(Table["notifications"]) = 7
<1>1. /\ DOMAIN Table["notifications"] = 1..7 /\ Len(Table["notifications"]) = 7
      /\ Path0("notifications", 1, "GET")
      /\ Path2("notifications", 2, "GET", "unread", "count")
      /\ Path1("notifications", 3, "GET", ":id")
      /\ Path2("notifications", 4, "PATCH", ":id", "read")
      /\ Path1("notifications", 5, "POST", "read-all")
      /\ Path1("notifications", 6, "DELETE", ":id")
      /\ Path1("notifications", 7, "DELETE", "clear-all")
  BY DEF Table, Path0, Path1, Path2, IsPath, Verb, Size, Segment, Get, Post,
         Patch, Delete, Route, NotificationsRoutes
<1>2. \A k \in (1..7) \ {7} : \A j \in 1..(k - 1) : Apart("notifications", j, k)
  BY <1>1 DEF Apart, Differ, Path0, Path1, Path2
<1>3. \A k \in 1..7 : IsPath("notifications", k) /\ Size("notifications", k) \in 0..3
  BY <1>1 DEF Path0, Path1, Path2
<1>4. \A k \in {7} :
        /\ Shadows("notifications", 6, k)
        /\ \A j \in 1..5 : Apart("notifications", j, k)
  BY <1>1 DEF Shadows, Apart, Differ, Path0, Path1, Path2
<1> QED
  BY <1>1, <1>2, <1>3, <1>4 DEF InOrder, Taker

\* The table of the payments, with the other two.
LEMMA PaymentsInOrder == InOrder("payments") /\ Len(Table["payments"]) = 17
<1>1. /\ DOMAIN Table["payments"] = 1..17 /\ Len(Table["payments"]) = 17
      /\ Path0("payments", 1, "POST")
      /\ Path0("payments", 2, "GET")
      /\ Path1("payments", 3, "GET", "wallet")
      /\ Path2("payments", 4, "POST", "wallet", "topup")
      /\ Path1("payments", 5, "GET", "transactions")
      /\ Path1("payments", 6, "GET", ":id")
      /\ Path2("payments", 7, "POST", ":id", "verify")
      /\ Path2("payments", 8, "POST", "webhooks", "moyasar")
      /\ Path2("payments", 9, "POST", "callbacks", "stcpay")
      /\ Path1("payments", 10, "GET", "callback")
      /\ Path1("payments", 11, "POST", "refunds")
      /\ Path1("payments", 12, "GET", "refunds")
      /\ Path2("payments", 13, "GET", "refunds", ":id")
      /\ Path2("payments", 14, "GET", "admin", "all")
      /\ Path3("payments", 15, "POST", "refunds", ":id", "approve")
      /\ Path3("payments", 16, "POST", "refunds", ":id", "reject")
      /\ Path2("payments", 17, "GET", "admin", "statistics")
  BY DEF Table, Path0, Path1, Path2, Path3, IsPath, Verb, Size, Segment, Get,
         Post, Patch, Delete, Route, PaymentsRoutes1, PaymentsRoutes2
<1>2. \A k \in (1..17) \ {10, 12} : \A j \in 1..(k - 1) : Apart("payments", j, k)
  BY <1>1 DEF Apart, Differ, Path0, Path1, Path2, Path3
<1>3. \A k \in 1..17 : IsPath("payments", k) /\ Size("payments", k) \in 0..3
  BY <1>1 DEF Path0, Path1, Path2, Path3
<1>4. \A k \in {10, 12} :
        /\ Shadows("payments", 6, k)
        /\ \A j \in 1..5 : Apart("payments", j, k)
  BY <1>1 DEF Shadows, Apart, Differ, Path0, Path1, Path2, Path3
<1> QED
  BY <1>1, <1>2, <1>3, <1>4 DEF InOrder, Taker

\* The table of the promo codes.
LEMMA PromoCodesInOrder == InOrder("promoCodes") /\ Len(Table["promoCodes"]) = 11
<1>1. /\ DOMAIN Table["promoCodes"] = 1..11 /\ Len(Table["promoCodes"]) = 11
      /\ Path0("promoCodes", 1, "POST")
      /\ Path0("promoCodes", 2, "GET")
      /\ Path1("promoCodes", 3, "GET", "public")
      /\ Path1("promoCodes", 4, "POST", "validate")
      /\ Path1("promoCodes", 5, "POST", "apply")
      /\ Path2("promoCodes", 6, "GET", "me", "usages")
      /\ Path1("promoCodes", 7, "GET", ":id")
      /\ Path1("promoCodes", 8, "PATCH", ":id")
      /\ Path2("promoCodes", 9, "PATCH", ":id", "deactivate")
      /\ Path1("promoCodes", 10, "DELETE", ":id")
      /\ Path2("promoCodes", 11, "GET", ":id", "statistics")
  BY DEF Table, Path0, Path1, Path2, IsPath, Verb, Size, Segment, Get, Post,
         Patch, Delete, Route, PromoCodesRoutes1, PromoCodesRoutes2
<1>2. \A k \in 1..11 : \A j \in 1..(k - 1) : Apart("promoCodes", j, k)
  BY <1>1 DEF Apart, Differ, Path0, Path1, Path2
<1>3. \A k \in 1..11 : IsPath("promoCodes", k) /\ Size("promoCodes", k) \in 0..3
  BY <1>1 DEF Path0, Path1, Path2
<1> QED
  BY <1>1, <1>2, <1>3 DEF InOrder, Taker

\* The table of the providers.
LEMMA ProvidersInOrder == InOrder("providers") /\ Len(Table["providers"]) = 20
<1>1. /\ DOMAIN Table["providers"] = 1..20 /\ Len(Table["providers"]) = 20
      /\ Path1("providers", 1, "POST", "register")
      /\ Path0("providers", 2, "GET")
      /\ Path1("providers", 3, "GET", "nearby")
      /\ Path1("providers", 4, "GET", "top-rated")
      /\ Path1("providers", 5, "GET", "search")
      /\ Path1("providers", 6, "GET", "me")
      /\ Path1("providers", 7, "PATCH", "me")
      /\ Path2("providers", 8, "PATCH", "me", "availability")
      /\ Path2("providers", 9, "POST", "me", "location")
      /\ Path2("providers", 10, "GET", "me", "statistics")
      /\ Path2("providers", 11, "GET", "me", "earnings")
      /\ Path2("providers", 12, "POST", "me", "documents")
      /\ Path2("providers", 13, "GET", "me", "documents")
      /\ Path3("providers", 14, "DELETE", "me", "documents", ":id")
      /\ Path1("providers", 15, "GET", ":id")
      /\ Path2("providers", 16, "GET", ":id", "reviews")
      /\ Path2("providers", 17, "GET", ":id", "services")
      /\ Path2("providers", 18, "PATCH", ":id", "approve")
      /\ Path2("providers", 19, "PATCH", ":id", "reject")
      /\ Path2("providers", 20, "PATCH", ":id", "suspend")
  BY SMTT(30)
     DEF Table, Path0, Path1, Path2, Path3, IsPath, Verb, Size, Segment, Get,
         Post, Patch, Delete, Route, ProvidersRoutes1, ProvidersRoutes2
<1>2. \A k \in 1..20 : \A j \in 1..(k - 1) : Apart("providers", j, k)
  BY <1>1 DEF Apart, Differ, Path0, Path1, Path2, Path3
<1>3. \A k \in 1..20 : IsPath("providers", k) /\ Size("providers", k) \in 0..3
  BY <1>1 DEF Path0, Path1, Path2, Path3
<1> QED
  BY <1>1, <1>2, <1>3 DEF InOrder, Taker

\* The table of the reviews.
LEMMA ReviewsInOrder == InOrder("reviews") /\ Len(Table["reviews"]) = 11
<1>1. /\ DOMAIN Table["reviews"] = 1..11 /\ Len(Table["reviews"]) = 11
      /\ Path0("reviews", 1, "POST")
      /\ Path0("reviews", 2, "GET")
      /\ Path1("reviews", 3, "GET", "me")
      /\ Path2("reviews", 4, "GET", "provider", ":id")
      /\ Path1("reviews", 5, "GET", ":id")
      /\ Path1("reviews", 6, "PATCH", ":id")
      /\ Path2("reviews", 7, "POST", ":id", "respond")
      /\ Path2("reviews", 8, "POST", ":id", "helpful")
      /\ Path1("reviews", 9, "DELETE", ":id")
      /\ Path2("reviews", 10, "PATCH", ":id", "approve")
      /\ Path2("reviews", 11, "PATCH", ":id", "reject")
  BY DEF Table, Path0, Path1, Path2, IsPath, Verb, Size, Segment, Get, Post,
         Patch, Delete, Route, ReviewsRoutes1, ReviewsRoutes2
<1>2. \A k \in 1..11 : \A j \in 1..(k - 1) : Apart("reviews", j, k)
  BY <1>1 DEF Apart, Differ, Path0, Path1, Path2
<1>3. \A k \in 1..11 : IsPath("reviews", k) /\ Size("reviews", k) \in 0..3
  BY <1>1 DEF Path0, Path1, Path2
<1> QED
  BY <1>1, <1>2, <1>3 DEF InOrder, Taker

\* The table of the services.
LEMMA ServicesInOrder == InOrder("services") /\ Len(Table["services"]) = 14
<1>1. /\ DOMAIN Table["services"] = 1..14 /\ Len(Table["services"]) = 14
      /\ Path0("services", 1, "POST")
      /\ Path0("services", 2, "GET")
      /\ Path1("services", 3, "GET", "categories")
      /\ Path3("services", 4, "GET", "categories", ":id", "services")
      /\ Path1("services", 5, "GET", "popular")
      /\ Path1("services", 6, "GET", "featured")
      /\ Path1("services", 7, "GET", "search")
      /\ Path1("services", 8, "GET", "me")
      /\ Path1("services", 9, "GET", ":id")
      /\ Path1("services", 10, "PATCH", ":id")
      /\ Path2("services", 11, "PATCH", ":id", "toggle-active")
      /\ Path1("services", 12, "DELETE", ":id")
      /\ Path2("services", 13, "GET", ":id", "reviews")
      /\ Path2("services", 14, "GET", ":id", "statistics")
  BY DEF Table, Path0, Path1, Path2, Path3, IsPath, Verb, Size, Segment, Get,
         Post, Patch, Delete, Route, ServicesRoutes1, ServicesRoutes2
<1>2. \A k \in 1..14 : \A j \in 1..(k - 1) : Apart("services", j, k)
  BY <1>1 DEF Apart, Differ, Path0, Path1, Path2, Path3
<1>3. \A k \in 1..14 : IsPath("services", k) /\ Size("services", k) \in 0..3
  BY <1>1 DEF Path0, Path1, Path2, Path3
<1> QED
  BY <1>1, <1>2, <1>3 DEF InOrder, Taker

\* The table of the users.
LEMMA UsersInOrder == InOrder("users") /\ Len(Table["users"]) = 11
<1>1. /\ DOMAIN Table["users"] = 1..11 /\ Len(Table["users"]) = 11
      /\ Path0("users", 1, "POST")
      /\ Path0("users", 2, "GET")
      /\ Path1("users", 3, "GET", "search")
      /\ Path1("users", 4, "GET", "profile")
      /\ Path1("users", 5, "PATCH", "profile")
      /\ Path1("users", 6, "GET", "statistics")
      /\ Path1("users", 7, "GET", ":id")
      /\ Path1("users", 8, "PATCH", ":id")
      /\ Path2("users", 9, "PATCH", ":id", "suspend")
      /\ Path2("users", 10, "PATCH", ":id", "activate")
      /\ Path1("users", 11, "DELETE", ":id")
  BY DEF Table, Path0, Path1, Path2, IsPath, Verb, Size, Segment, Get, Post,
         Patch, Delete, Route, UsersRoutes
<1>2. \A k \in 1..11 : \A j \in 1..(k - 1) : Apart("users", j, k)
  BY <1>1 DEF Apart, Differ, Path0, Path1, Path2
<1>3. \A k \in 1..11 : IsPath("users", k) /\ Size("users", k) \in 0..3
  BY <1>1 DEF Path0, Path1, Path2
<1> QED
  BY <1>1, <1>2, <1>3 DEF InOrder, Taker

\* The names of the controllers.
LEMMA ControllerNames ==
  Controllers = {"admin", "analytics", "auth", "bookings", "chat", "disputes",
                 "health", "locations", "notifications", "payments", "promoCodes",
                 "providers", "reviews", "services", "users"}
  BY DEF Controllers, Table

\* Every table is in order.
LEMMA AllInOrder == \A c \in Controllers : InOrder(c)
  BY ControllerNames, AdminInOrder, AnalyticsInOrder, AuthInOrder,
     BookingsInOrder, ChatInOrder, DisputesInOrder, HealthInOrder,
     LocationsInOrder, NotificationsInOrder, PaymentsInOrder, PromoCodesInOrder,
     ProvidersInOrder, ReviewsInOrder, ServicesInOrder, UsersInOrder

\* The decorators of entry k of the table of c say whom it lets through.
Declared(c) ==
  \A k \in DOMAIN Table[c] :
    Table[c][k].who \in {"-", "public", "user"} \cup Roles

\* Only POST of the services has the guard of the approved providers.
LEMMA WhoDeclared ==
  /\ \A c \in Controllers \ {"services"} : Declared(c)
  /\ \A k \in DOMAIN Table["services"] :
       IF k = 1 THEN Table["services"][k].who = "APPROVED"
                ELSE Table["services"][k].who \in {"-", "public", "user"} \cup Roles
<1> USE DEF Declared, Roles, Table, Get, Post, Patch, Delete, Route
<1>1. Declared("admin")
  <2>1. \A k \in 1..18 : Table["admin"][k].who \in {"-", "public", "user"} \cup Roles
    BY DEF AdminRoutes1, AdminRoutes2
  <2> QED
    BY <2>1, AdminInOrder DEF InOrder
<1>2. Declared("analytics") /\ Declared("chat") /\ Declared("health")
  BY DEF AnalyticsRoutes, ChatRoutes, HealthRoutes
<1>3. Declared("auth")
  BY SMTT(30) DEF AuthRoutes
<1>4. Declared("bookings")
  <2>1. \A k \in 1..18 :
          Table["bookings"][k].who \in {"-", "public", "user"} \cup Roles
    BY DEF BookingsRoutes1, BookingsRoutes2
  <2> QED
    BY <2>1, BookingsInOrder DEF InOrder
<1>5. Declared("disputes")
  <2>1. \A k \in 1..15 :
          Table["disputes"][k].who \in {"-", "public", "user"} \cup Roles
    BY DEF DisputesRoutes1, DisputesRoutes2
  <2> QED
    BY <2>1, DisputesInOrder DEF InOrder
<1>6. Declared("locations")
  <2>1. \A k \in 1..13 :
          Table["locations"][k].who \in {"-", "public", "user"} \cup Roles
    BY DEF LocationsRoutes1, LocationsRoutes2
  <2> QED
    BY <2>1, LocationsInOrder DEF InOrder
<1>7. Declared("notifications")
  BY DEF NotificationsRoutes
<1>8. Declared("payments")
  <2>1. \A k \in 1..17 :
          Table["payments"][k].who \in {"-", "public", "user"} \cup Roles
    BY DEF PaymentsRoutes1, PaymentsRoutes2
  <2> QED
    BY <2>1, PaymentsInOrder DEF InOrder
<1>9. Declared("promoCodes")
  <2>1. \A k \in 1..11 :
          Table["promoCodes"][k].who \in {"-", "public", "user"} \cup Roles
    BY DEF PromoCodesRoutes1, PromoCodesRoutes2
  <2> QED
    BY <2>1, PromoCodesInOrder DEF InOrder
<1>10. Declared("providers")
  <2>1. \A k \in 1..20 :
          Table["providers"][k].who \in {"-", "public", "user"} \cup Roles
    BY DEF ProvidersRoutes1, ProvidersRoutes2
  <2> QED
    BY <2>1, ProvidersInOrder DEF InOrder
<1>11. Declared("reviews")
  <2>1. \A k \in 1..11 :
          Table["reviews"][k].who \in {"-", "public", "user"} \cup Roles
    BY DEF ReviewsRoutes1, ReviewsRoutes2
  <2> QED
    BY <2>1, ReviewsInOrder DEF InOrder
<1>12. Declared("users")
  BY DEF UsersRoutes
<1>13. \A k \in DOMAIN Table["services"] :
         IF k = 1 THEN Table["services"][k].who = "APPROVED"
                  ELSE Table["services"][k].who \in {"-", "public", "user"} \cup Roles
  BY DEF ServicesRoutes1, ServicesRoutes2
<1> HIDE DEF Declared, Roles, Table, Get, Post, Patch, Delete, Route
<1> QED
  BY <1>1, <1>2, <1>3, <1>4, <1>5, <1>6, <1>7, <1>8, <1>9, <1>10, <1>11, <1>12,
     <1>13, ControllerNames

\* Whom the guards let through to an entry.
LEMMA WhoKnown ==
  ASSUME NEW c \in Controllers, NEW k \in DOMAIN Table[c]
  PROVE  /\ Who(c, k) \in {"public", "user", "APPROVED"} \cup Roles
         /\ Who(c, k) = "APPROVED" <=> c = "services" /\ k = 1
<1>1. ClassWho[c] \in {"ADMIN", "user", "public"}
  BY DEF ClassWho, Controllers
<1>2. CASE c = "services"
  BY <1>1, <1>2, WhoDeclared DEF Who, Roles
<1>3. CASE c # "services"
  BY <1>1, <1>3, WhoDeclared DEF Who, Roles, Declared
<1> QED
  BY <1>2, <1>3

\* The entries of the handlers that Unreachable names.
LEMMA UnreachableNames ==
  /\ \A k \in 1..14 : Table["services"][k].handler = "create" <=> k = 1
  /\ \A k \in 1..17 :
       Table["payments"][k].handler \in {"paymentCallback", "getRefunds"} <=>
         k \in {10, 12}
  /\ \A k \in 1..7 : Table["notifications"][k].handler = "clearAll" <=> k = 7
<1>1. \A k \in 1..14 : Table["services"][k].handler = "create" <=> k = 1
  BY DEF Table, Get, Post, Patch, Delete, Route, ServicesRoutes1, ServicesRoutes2
<1>2. \A k \in 1..17 :
        Table["payments"][k].handler \in {"paymentCallback", "getRefunds"} <=>
          k \in {10, 12}
  BY DEF Table, Get, Post, Patch, Delete, Route, PaymentsRoutes1, PaymentsRoutes2
<1>3. \A k \in 1..7 : Table["notifications"][k].handler = "clearAll" <=> k = 7
  BY DEF Table, Get, Post, Patch, Delete, Route, NotificationsRoutes
<1> QED
  BY <1>1, <1>2, <1>3

\* The unreachable handlers are those of the three entries that another takes
\* the requests of, and the one behind the guard of the approved providers.
LEMMA UnreachableEntries ==
  ASSUME NEW c \in Controllers, NEW k \in DOMAIN Table[c]
  PROVE  <<c, Table[c][k].handler>> \in Unreachable <=>
           Taker(c, k) # k \/ (c = "services" /\ k = 1)
<1>1. CASE c = "services"
  BY <1>1, UnreachableNames, ServicesInOrder DEF InOrder, Unreachable, Taker
<1>2. CASE c = "payments"
  BY <1>2, UnreachableNames, PaymentsInOrder DEF InOrder, Unreachable, Taker
<1>3. CASE c = "notifications"
  BY <1>3, UnreachableNames, NotificationsInOrder DEF InOrder, Unreachable, Taker
<1>4. CASE c \notin {"services", "payments", "notifications"}
  BY <1>4 DEF Unreachable, Taker
<1> QED
  BY <1>1, <1>2, <1>3, <1>4

\* The segments a client fills in.
LEMMA FilledSegments ==
  ASSUME NEW c \in Controllers, NEW k \in DOMAIN Table[c],
         NEW i \in 1..Size(c, k)
  PROVE  Filled(Table[c][k].path)[i] =
           CASE Segment(c, k, i) = ":id" -> "<uuid>"
             [] Segment(c, k, i) = ":key" -> "<key>"
             [] OTHER -> Segment(c, k, i)
<1>1. IsPath(c, k)
  BY AllInOrder DEF InOrder
<1> QED
  BY <1>1 DEF IsPath, Filled, Segment

\* They are as many as the entry has.
LEMMA FilledLength ==
  ASSUME NEW c \in Controllers, NEW k \in DOMAIN Table[c]
  PROVE  /\ DOMAIN Filled(Table[c][k].path) = 1..Size(c, k)
         /\ Len(Filled(Table[c][k].path)) = Size(c, k)
<1> DEFINE f == Filled(Table[c][k].path)
           S == {f[i] : i \in 1..Size(c, k)}
<1>1. IsPath(c, k) /\ Size(c, k) \in Nat
  BY AllInOrder DEF InOrder
<1>2. DOMAIN f = 1..Size(c, k) /\ f \in [1..Size(c, k) -> S]
  BY <1>1 DEF IsPath, Filled
<1> HIDE DEF f
<1>3. f \in Seq(S)
  BY <1>1, <1>2, IsASeq
<1>4. Len(f) \in Nat /\ 1..Len(f) = 1..Size(c, k)
  BY <1>2, <1>3, LenProperties
<1>5. Len(f) = Size(c, k)
  BY <1>1, <1>4
<1> QED
  BY <1>2, <1>5 DEF f

\* The entry matches a request meant for it, and so does an entry that is one
\* parameter.
LEMMA TakerMatches ==
  ASSUME NEW c \in Controllers, NEW k \in DOMAIN Table[c]
  PROVE  /\ Verb(c, Taker(c, k)) = Verb(c, k)
         /\ Matches(Table[c][Taker(c, k)].path, Filled(Table[c][k].path))
<1>1. /\ DOMAIN Filled(Table[c][k].path) = 1..Size(c, k)
      /\ Len(Filled(Table[c][k].path)) = Size(c, k)
  BY FilledLength
<1>2. CASE Taker(c, k) = k
  <2>1. \A i \in 1..Size(c, k) :
          Table[c][k].path[i] \in {":id", ":key", Filled(Table[c][k].path)[i]}
    BY FilledSegments DEF Segment
  <2> QED
    BY <1>1, <1>2, <2>1 DEF Matches, Size
<1>3. CASE Taker(c, k) # k
  <2>1. Shadows(c, Taker(c, k), k)
    BY <1>3, AllInOrder DEF InOrder
  <2> QED
    BY <1>1, <2>1 DEF Matches, Shadows, Size, Segment
<1> QED
  BY <1>2, <1>3

\* An entry that is apart from it does not.
LEMMA ApartMatchesNot ==
  ASSUME NEW c \in Controllers, NEW k \in DOMAIN Table[c],
         NEW j \in DOMAIN Table[c], Apart(c, j, k), Verb(c, j) = Verb(c, k)
  PROVE  ~Matches(Table[c][j].path, Filled(Table[c][k].path))
<1> SUFFICES ASSUME Matches(Table[c][j].path, Filled(Table[c][k].path))
             PROVE  FALSE
  OBVIOUS
<1>1. /\ DOMAIN Filled(Table[c][k].path) = 1..Size(c, k)
      /\ Len(Filled(Table[c][k].path)) = Size(c, k)
      /\ Size(c, k) \in Nat
  BY FilledLength, AllInOrder DEF InOrder
<1>2. Size(c, j) = Size(c, k)
  BY <1>1 DEF Matches, Size
<1>3. PICK i \in {1, 2, 3} : Differ(c, j, k, i)
  BY <1>2 DEF Apart
<1>4. i \in 1..Size(c, k)
  BY <1>1, <1>3 DEF Differ
<1>5. Segment(c, j, i) \in {":id", ":key", Filled(Table[c][k].path)[i]}
  BY <1>1, <1>4 DEF Matches, Segment
<1>6. Filled(Table[c][k].path)[i] \in {"<uuid>", "<key>", Segment(c, k, i)}
  BY <1>4, FilledSegments
<1> QED
  BY <1>3, <1>5, <1>6 DEF Differ

\* The first entry that matches a request meant for entry k is its taker.
LEMMA FirstMatch ==
  ASSUME NEW c \in Controllers, NEW k \in DOMAIN Table[c]
  PROVE  LET matching == {j \in DOMAIN Table[c] :
                            /\ Table[c][j].verb = Table[c][k].verb
                            /\ Matches(Table[c][j].path, Filled(Table[c][k].path))}
         IN Taker(c, k) = CHOOSE j \in matching : \A i \in matching : j <= i
<1> DEFINE matching == {j \in DOMAIN Table[c] :
                          /\ Table[c][j].verb = Table[c][k].verb
                          /\ Matches(Table[c][j].path, Filled(Table[c][k].path))}
<1>1. /\ DOMAIN Table[c] = 1..Len(Table[c]) /\ Len(Table[c]) \in Nat
      /\ Taker(c, k) \in DOMAIN Table[c]
      /\ \A j \in 1..(Taker(c, k) - 1) : Apart(c, j, k)
  BY AllInOrder DEF InOrder
<1>2. Taker(c, k) \in matching
  BY <1>1, TakerMatches DEF Verb
<1>3. ASSUME NEW j \in matching PROVE Taker(c, k) <= j
  <2>1. j \in DOMAIN Table[c] /\ ~Apart(c, j, k)
    BY ApartMatchesNot DEF Verb
  <2> QED
    BY <1>1, <2>1
<1>4. matching \subseteq Int /\ Taker(c, k) \in Int
  BY <1>1
<1> HIDE DEF matching
<1>5. ASSUME NEW j \in matching, \A i \in matching : j <= i PROVE j = Taker(c, k)
  BY <1>2, <1>3, <1>4, <1>5
<1>6. Taker(c, k) = CHOOSE j \in matching : \A i \in matching : j <= i
  BY <1>2, <1>3, <1>5
<1> QED
  BY <1>6 DEF matching

\* The callers an entry is declared for are those that both guards let through.
LEMMA DeclaredCallers ==
  ASSUME NEW c \in Controllers, NEW k \in DOMAIN Table[c], NEW caller \in RouteCallers
  PROVE  caller \in DeclaredFor(c, k) <=>
           /\ Who(c, k) = "public" \/ caller # "anonymous"
           /\ Who(c, k) \in Roles => caller = Who(c, k)
           /\ Who(c, k) = "APPROVED" => caller = "PROVIDER"
<1>1. Who(c, k) \in {"public", "user", "APPROVED"} \cup Roles
  BY WhoKnown
<1>2. CASE Who(c, k) = "public"
  BY <1>2 DEF DeclaredFor, Roles
<1>3. CASE Who(c, k) = "user"
  BY <1>3 DEF DeclaredFor, RouteCallers, Roles
<1>4. CASE Who(c, k) = "APPROVED"
  BY <1>4 DEF DeclaredFor, RouteCallers, Roles
<1>5. CASE Who(c, k) \in Roles
  BY <1>5 DEF DeclaredFor, RouteCallers, Roles
<1> QED
  BY <1>1, <1>2, <1>3, <1>4, <1>5

RequestRecords ==
  [step : {"none", "sent", "matched", "known", "permitted", "checked", "done"},
   controller : Controllers, aim : Nat, matched : Nat, caller : RouteCallers,
   answer : {"-", "handled", "badRequest", "unauthorized", "forbidden"}]

RequestState ==
  /\ request \in RequestRecords
  /\ request.aim \in DOMAIN Table[request.controller]
  /\ request.matched \in 0..Len(Table[request.controller])

\* The role that CheckRoles asks for.
RoleOf(who) == IF who = "APPROVED" THEN "PROVIDER" ELSE who

\* What a request has passed when it reaches a step.
PassedSoFar ==
  /\ request.step \in {"matched", "known", "permitted", "checked"} =>
       request.matched = Taker(request.controller, request.aim)
  /\ request.step \in {"known", "permitted", "checked"} =>
       Wanted = "public" \/ request.caller # "anonymous"
  /\ request.step \in {"permitted", "checked"} =>
       (RoleOf(Wanted) \in Roles => request.caller = RoleOf(Wanted))
  /\ request.step = "checked" => Wanted # "APPROVED"

RoutesInv == RequestState /\ PassedSoFar /\ ShadowedOnly

\* A request that ends before its handler was meant for a handler that does
\* not let its caller through, or for one that nobody reaches.
LEMMA EndsRightly ==
  ASSUME RequestState, NEW refusal \in {"badRequest", "unauthorized", "forbidden"},
         request.matched = Taker(request.controller, request.aim),
         \/ request.matched # request.aim
         \/ request.caller \notin DeclaredFor(request.controller, request.matched)
         \/ Wanted = "APPROVED",
         Ends(refusal)
  PROVE  RoutesInv'
<1> DEFINE c == request.controller
           k == request.aim
<1>1. c \in Controllers /\ k \in DOMAIN Table[c]
  BY DEF RequestState, RequestRecords
<1>2. /\ request'.controller = c /\ request'.aim = k /\ request'.step = "done"
      /\ request'.answer = refusal /\ request'.matched = request.matched
      /\ request'.caller = request.caller
  BY DEF Ends, RequestState, RequestRecords
<1>3. RequestState'
  BY <1>2 DEF Ends, RequestState, RequestRecords
<1>4. \/ request.caller \notin DeclaredFor(c, k)
      \/ <<c, Table[c][k].handler>> \in Unreachable
  BY <1>1, WhoKnown, UnreachableEntries DEF Wanted
<1>5. PassedSoFar' /\ ShadowedOnly'
  BY <1>2, <1>4 DEF PassedSoFar, ShadowedOnly, Aimed
<1> QED
  BY <1>3, <1>5 DEF RoutesInv

\* A request that goes on keeps what it has, and its new step.
LEMMA GoesOn ==
  ASSUME RequestState, NEW step \in {"known", "permitted", "checked"}, Goes(step)
  PROVE  /\ RequestState' /\ ShadowedOnly' /\ request'.step = step
         /\ request'.controller = request.controller /\ request'.aim = request.aim
         /\ request'.matched = request.matched /\ request'.caller = request.caller
         /\ Wanted' = Wanted
<1>1. /\ request'.step = step
      /\ request'.controller = request.controller /\ request'.aim = request.aim
      /\ request'.matched = request.matched /\ request'.caller = request.caller
  BY DEF Goes, RequestState, RequestRecords
<1>2. RequestState'
  BY <1>1 DEF Goes, RequestState, RequestRecords
<1> QED
  BY <1>1, <1>2 DEF ShadowedOnly, Wanted

\* The first entry that matches is the taker.
LEMMA DispatchHolds ==
  ASSUME RoutesInv, Dispatch
  PROVE  RoutesInv'
<1> DEFINE c == request.controller
           k == request.aim
<1>1. /\ c \in Controllers /\ k \in DOMAIN Table[c] /\ RequestState
      /\ DOMAIN Table[c] = 1..Len(Table[c]) /\ Len(Table[c]) \in Nat
      /\ Taker(c, k) \in DOMAIN Table[c]
  BY AllInOrder DEF RoutesInv, RequestState, RequestRecords, InOrder
<1>2. request' = [request EXCEPT !.step = "matched", !.matched = Taker(c, k)]
  BY <1>1, FirstMatch DEF Dispatch, Aimed
<1>3. /\ request'.controller = c /\ request'.aim = k /\ request'.step = "matched"
      /\ request'.matched = Taker(c, k)
  BY <1>1, <1>2 DEF RequestState, RequestRecords
<1>4. RequestState'
  <2>1. Taker(c, k) \in Nat /\ Taker(c, k) \in 0..Len(Table[c])
    BY <1>1
  <2> QED
    BY <1>1, <1>2, <1>3, <2>1 DEF RequestState, RequestRecords
<1> QED
  BY <1>3, <1>4 DEF RoutesInv, PassedSoFar, ShadowedOnly

\* The matched entry is one of the table.
LEMMA MatchedEntry ==
  ASSUME RoutesInv, request.step \in {"matched", "known", "permitted", "checked"}
  PROVE  /\ RequestState /\ request.controller \in Controllers
         /\ request.aim \in DOMAIN Table[request.controller]
         /\ request.matched = Taker(request.controller, request.aim)
         /\ request.matched \in DOMAIN Table[request.controller]
         /\ request.caller \in RouteCallers
  BY AllInOrder DEF RoutesInv, RequestState, RequestRecords, PassedSoFar, InOrder

\* A caller without a token gets only to the public handlers.
LEMMA JwtAuthHolds ==
  ASSUME RoutesInv, JwtAuth
  PROVE  RoutesInv'
<1>1. request.step = "matched"
  BY DEF JwtAuth
<1>2. CASE Wanted # "public" /\ request.caller = "anonymous"
  <2>1. request.caller \notin DeclaredFor(request.controller, request.matched)
    BY <1>1, <1>2, MatchedEntry, DeclaredCallers DEF Wanted
  <2> QED
    BY <1>1, <1>2, <2>1, MatchedEntry, EndsRightly DEF JwtAuth
<1>3. CASE ~(Wanted # "public" /\ request.caller = "anonymous")
  <2>1. Goes("known")
    BY <1>3 DEF JwtAuth
  <2> QED
    BY <1>1, <1>3, <2>1, GoesOn, MatchedEntry DEF RoutesInv, PassedSoFar
<1> QED
  BY <1>2, <1>3

\* A caller of another role gets to no handler of a role.
LEMMA CheckRolesHolds ==
  ASSUME RoutesInv, CheckRoles
  PROVE  RoutesInv'
<1>1. request.step = "known"
  BY DEF CheckRoles
<1>2. CASE RoleOf(Wanted) \in Roles /\ request.caller # RoleOf(Wanted)
  <2>1. \/ request.caller \notin DeclaredFor(request.controller, request.matched)
        \/ Wanted = "APPROVED"
    BY <1>1, <1>2, MatchedEntry, DeclaredCallers DEF Wanted, RoleOf
  <2>2. Ends("forbidden")
    BY <1>2 DEF CheckRoles, RoleOf
  <2> QED
    BY <1>1, <2>1, <2>2, MatchedEntry, EndsRightly
<1>3. CASE ~(RoleOf(Wanted) \in Roles /\ request.caller # RoleOf(Wanted))
  <2>1. Goes("permitted")
    BY <1>3 DEF CheckRoles, RoleOf
  <2>2. Wanted = "public" \/ request.caller # "anonymous"
    BY <1>1 DEF RoutesInv, PassedSoFar
  <2> QED
    BY <1>1, <1>3, <2>1, <2>2, GoesOn, MatchedEntry DEF RoutesInv, PassedSoFar
<1> QED
  BY <1>2, <1>3

\* Nobody passes the guard of the approved providers.
LEMMA CheckProviderStatusHolds ==
  ASSUME RoutesInv, CheckProviderStatus
  PROVE  RoutesInv'
<1>1. request.step = "permitted"
  BY DEF CheckProviderStatus
<1>2. CASE Wanted = "APPROVED"
  BY <1>1, <1>2, MatchedEntry, EndsRightly DEF CheckProviderStatus
<1>3. CASE Wanted # "APPROVED"
  <2>1. Goes("checked")
    BY <1>3 DEF CheckProviderStatus
  <2>2. /\ Wanted = "public" \/ request.caller # "anonymous"
        /\ RoleOf(Wanted) \in Roles => request.caller = RoleOf(Wanted)
    BY <1>1 DEF RoutesInv, PassedSoFar
  <2> QED
    BY <1>1, <1>3, <2>1, <2>2, GoesOn, MatchedEntry DEF RoutesInv, PassedSoFar
<1> QED
  BY <1>2, <1>3

\* ParseUUIDPipe lets through what was meant for the entry, and refuses what
\* was meant for another.
LEMMA HandleHolds ==
  ASSUME RoutesInv, Handle
  PROVE  RoutesInv'
<1> DEFINE c == request.controller
           k == request.aim
           path == Filled(Table[c][k].path)
           refused == \E i \in DOMAIN path :
                        Matched.path[i] = ":id" /\ path[i] # "<uuid>"
<1>1. /\ request.step = "checked" /\ RequestState
      /\ c \in Controllers /\ k \in DOMAIN Table[c]
      /\ request.matched = Taker(c, k)
      /\ request.matched \in DOMAIN Table[c] /\ request.caller \in RouteCallers
  BY MatchedEntry DEF Handle
<1>2. DOMAIN path = 1..Size(c, k)
  BY <1>1, FilledLength
<1>3. refused <=> request.matched # k
  <2>1. CASE request.matched = k
    BY <1>1, <1>2, <2>1, FilledSegments DEF Matched, Segment
  <2>2. CASE request.matched # k
    <3>1. Shadows(c, request.matched, k)
      BY <1>1, <2>2, AllInOrder DEF InOrder
    <3>2. 1 \in 1..Size(c, k)
      BY <3>1 DEF Shadows
    <3>3. Matched.path[1] = ":id" /\ path[1] # "<uuid>"
      BY <1>1, <3>1, <3>2, FilledSegments DEF Shadows, Matched, Segment
    <3> QED
      BY <1>2, <2>2, <3>2, <3>3
  <2> QED
    BY <2>1, <2>2
<1>4. IF refused THEN Ends("badRequest") ELSE Ends("handled")
  BY DEF Handle, Aimed
<1>5. CASE refused
  BY <1>1, <1>3, <1>4, <1>5, EndsRightly
<1>6. CASE ~refused
  <2>1. request.matched = k /\ Ends("handled")
    BY <1>3, <1>4, <1>6
  <2>2. /\ request'.controller = c /\ request'.aim = k /\ request'.step = "done"
        /\ request'.answer = "handled" /\ request'.matched = k
        /\ request'.caller = request.caller
    BY <1>1, <2>1 DEF Ends, RequestState, RequestRecords
  <2>3. RequestState'
    BY <1>1, <2>1, <2>2 DEF Ends, RequestState, RequestRecords
  <2>4. /\ Who(c, k) # "APPROVED"
        /\ Who(c, k) = "public" \/ request.caller # "anonymous"
        /\ Who(c, k) \in Roles => request.caller = Who(c, k)
    BY <1>1, <2>1 DEF RoutesInv, PassedSoFar, Wanted, RoleOf
  <2>5. request.caller \in DeclaredFor(c, k)
    BY <1>1, <2>4, DeclaredCallers
  <2>6. <<c, Table[c][k].handler>> \notin Unreachable
    BY <1>1, <2>1, <2>4, UnreachableEntries, WhoKnown
  <2>7. PassedSoFar' /\ ShadowedOnly'
    BY <2>2, <2>5, <2>6 DEF PassedSoFar, ShadowedOnly, Aimed
  <2> QED
    BY <2>3, <2>7 DEF RoutesInv
<1> QED
  BY <1>5, <1>6

\* Before the first request.
LEMMA RoutesInitHolds == RoutesInit => RoutesInv
<1> SUFFICES ASSUME RoutesInit PROVE RoutesInv
  OBVIOUS
<1>1. "health" \in Controllers /\ 1 \in DOMAIN Table["health"]
      /\ 0 \in 0..Len(Table["health"])
  BY ControllerNames, HealthInOrder DEF InOrder
<1>2. request \in RequestRecords
  BY <1>1 DEF RoutesInit, RequestRecords, RouteCallers
<1> QED
  BY <1>1, <1>2 DEF RoutesInit, RoutesInv, RequestState, PassedSoFar, ShadowedOnly

\* Every step of a request keeps the invariant.
LEMMA RoutesStepHolds ==
  ASSUME RoutesInv, [RoutesNext]_request
  PROVE  RoutesInv'
<1>1. ASSUME NEW c \in Controllers, NEW k \in DOMAIN Table[c],
             NEW caller \in RouteCallers, Send(c, k, caller)
      PROVE  RoutesInv'
  <2>1. /\ request' = [step |-> "sent", controller |-> c, aim |-> k, matched |-> 0,
                       caller |-> caller, answer |-> "-"]
        /\ DOMAIN Table[c] = 1..Len(Table[c]) /\ Len(Table[c]) \in Nat
    BY <1>1, AllInOrder DEF Send, InOrder
  <2>2. k \in Nat /\ 0 \in 0..Len(Table[c])
    BY <2>1
  <2>3. request' \in RequestRecords
    BY <2>1, <2>2 DEF RequestRecords
  <2> QED
    BY <2>1, <2>2, <2>3 DEF RoutesInv, RequestState, PassedSoFar, ShadowedOnly
<1>2. CASE UNCHANGED request
  BY <1>2 DEF RoutesInv, RequestState, PassedSoFar, ShadowedOnly, Wanted, Aimed
<1> QED
  BY <1>1, <1>2, DispatchHolds, JwtAuthHolds, CheckRolesHolds,
     CheckProviderStatusHolds, HandleHolds DEF RoutesNext

\* In every behaviour of the platform the invariant of the routes holds.
LEMMA RoutesAlways == Spec => []RoutesInv
<1>1. Init => RoutesInv
  BY RoutesInitHolds DEF Init
<1>2. RoutesInv /\ [Next]_vars => RoutesInv'
  <2> SUFFICES ASSUME RoutesInv, [Next]_vars PROVE RoutesInv'
    OBVIOUS
  <2>1. [RoutesNext]_request
    BY DEF Next, RunPart, vars
  <2> QED
    BY <2>1, RoutesStepHolds
<1> QED
  BY <1>1, <1>2, PTL DEF Spec

\* Of all the routes of the fifteen controllers, four are out of reach: every
\* other handler gets the requests meant for it from all whom its decorators
\* name and from nobody else, and none gets a request meant for another.
THEOREM RoutesShadowed == Spec => []ShadowedOnly
<1>1. RoutesInv => ShadowedOnly
  BY DEF RoutesInv
<1> QED
  BY <1>1, RoutesAlways, PTL

\* In every behaviour of the platform the request is of its type.
LEMMA RoutesTyped == Spec => []RoutesTypeOK
<1>1. RoutesInv => RoutesTypeOK
  BY DEF RoutesInv, RequestState, RequestRecords, RoutesTypeOK
<1> QED
  BY <1>1, RoutesAlways, PTL

\* The platform: whichever part runs, its state is of its type.
THEOREM PlatformTyped == Spec => []PlatformTypeOK
<1>1. Init => part \in Parts
  BY DEF Init
<1>2. part \in Parts /\ [Next]_vars => (part \in Parts)'
  BY DEF Next, RunPart, vars
<1>3. part \in Parts /\ SeedTypeOK /\ InsertsTypeOK /\ MarketplaceTypeOK
        /\ RoutesTypeOK /\ CacheTypeOK /\ LimitTypeOK => PlatformTypeOK
  BY DEF Parts, PlatformTypeOK
<1> QED
  BY <1>1, <1>2, <1>3, SeedsTyped, InsertsTyped, RowsTyped, RoutesTyped,
     CacheTyped, LimitTyped, PTL DEF Spec
=============================================================================
