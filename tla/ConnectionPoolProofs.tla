------------------------- MODULE ConnectionPoolProofs -------------------------
(***************************************************************************)
(* With two connections or more, no task of a backfill process ever waits  *)
(* for itself, for every chunk, every set of listed markets, every bound   *)
(* on the attempts, and wherever calls time out or fail.                   *)
(***************************************************************************)
EXTENDS ConnectionPool, TLAPS

MainStates == {"idle", "begin", "rows", "lookup", "select", "refresh", "upsert",
               "upserted", "execute"}
Waiting == {"begin", "lookup", "upsert"}

(* The connections the main task has, by what it does. *)
MainHolds == IF main \in {"idle", "begin"} THEN 0
             ELSE IF main \in {"select", "upserted"} THEN 2 ELSE 1
FetcherHolds == IF fetcher = "count" THEN 1 ELSE 0

Queues == {<<>>, <<"main">>, <<"fetcher">>, <<"main", "fetcher">>,
           <<"fetcher", "main">>}

Queued(t, q) ==
  IF t = "main" THEN q \in {<<"main">>, <<"main", "fetcher">>, <<"fetcher", "main">>}
  ELSE q \in {<<"fetcher">>, <<"main", "fetcher">>, <<"fetcher", "main">>}

(* What each task has and waits for follows from where it is: a task waits    *)
(* with at most the connection of its transaction.                            *)
PoolInv ==
  /\ main \in MainStates /\ fetcher \in {"page", "ask", "count"}
  /\ queue \in Queues /\ dropped \in Nat
  /\ held = [t \in Tasks |-> IF t = "main" THEN MainHolds ELSE FetcherHolds]
  /\ Queued("main", queue) <=> main \in Waiting
  /\ Queued("fetcher", queue) <=> fetcher = "ask"
  /\ MainHolds + FetcherHolds + dropped <= MaxConnections

-----------------------------------------------------------------------------
(* The queue. *)

(* A task is in the queue exactly when Waits says so. *)
LEMMA WaitsQueued ==
  ASSUME queue \in Queues, NEW t \in Tasks
  PROVE  Waits(t) <=> Queued(t, queue)
<1>1. CASE queue = <<>>  BY <1>1 DEF Waits, Queued, Tasks
<1>2. CASE queue = <<"main">>  BY <1>2 DEF Waits, Queued, Tasks
<1>3. CASE queue = <<"fetcher">>  BY <1>3 DEF Waits, Queued, Tasks
<1>4. CASE queue = <<"main", "fetcher">>  BY <1>4 DEF Waits, Queued, Tasks
<1>5. CASE queue = <<"fetcher", "main">>  BY <1>5 DEF Waits, Queued, Tasks
<1>6. QED  BY <1>1, <1>2, <1>3, <1>4, <1>5 DEF Queues

(* A task that is not in the queue and asks is then in it, and no other. *)
LEMMA QueueGrows ==
  ASSUME NEW q \in Queues, NEW t \in Tasks, ~Queued(t, q)
  PROVE  /\ Joined(q, t) \in Queues /\ Queued(t, Joined(q, t))
         /\ \A u \in Tasks \ {t} : Queued(u, Joined(q, t)) <=> Queued(u, q)
<1>1. CASE q = <<>>  BY <1>1 DEF Joined, Queues, Queued, Tasks
<1>2. CASE q = <<"main">>  BY <1>2 DEF Joined, Queues, Queued, Tasks
<1>3. CASE q = <<"fetcher">>  BY <1>3 DEF Joined, Queues, Queued, Tasks
<1>4. QED  BY <1>1, <1>2, <1>3 DEF Queues, Queued, Tasks

(* The first in the queue leaves it, and no other. *)
LEMMA QueueServes ==
  ASSUME NEW q \in Queues, q # <<>>, NEW t \in Tasks, Head(q) = t
  PROVE  /\ Queued(t, q) /\ Tail(q) \in Queues /\ ~Queued(t, Tail(q))
         /\ \A u \in Tasks \ {t} : Queued(u, Tail(q)) <=> Queued(u, q)
<1>1. CASE q = <<"main">>  BY <1>1 DEF Queues, Queued, Tasks
<1>2. CASE q = <<"fetcher">>  BY <1>2 DEF Queues, Queued, Tasks
<1>3. CASE q = <<"main", "fetcher">>  BY <1>3 DEF Queues, Queued, Tasks
<1>4. CASE q = <<"fetcher", "main">>  BY <1>4 DEF Queues, Queued, Tasks
<1>5. QED  BY <1>1, <1>2, <1>3, <1>4 DEF Queues

(* A task that gives up waiting leaves the queue, and no other. *)
LEMMA QueueShrinks ==
  ASSUME queue \in Queues, NEW t \in Tasks
  PROVE  /\ Without(t) \in Queues /\ ~Queued(t, Without(t))
         /\ \A u \in Tasks \ {t} : Queued(u, Without(t)) <=> Queued(u, queue)
<1>0. Without(t) = IF ~Queued(t, queue) THEN queue
                   ELSE IF Head(queue) = t THEN Tail(queue) ELSE <<Head(queue)>>
  BY WaitsQueued DEF Without
<1>1. CASE queue = <<>>  BY <1>0, <1>1 DEF Queues, Queued, Tasks
<1>2. CASE queue = <<"main">>  BY <1>0, <1>2 DEF Queues, Queued, Tasks
<1>3. CASE queue = <<"fetcher">>  BY <1>0, <1>3 DEF Queues, Queued, Tasks
<1>4. CASE queue = <<"main", "fetcher">>  BY <1>0, <1>4 DEF Queues, Queued, Tasks
<1>5. CASE queue = <<"fetcher", "main">>  BY <1>0, <1>5 DEF Queues, Queued, Tasks
<1>6. QED  BY <1>1, <1>2, <1>3, <1>4, <1>5 DEF Queues

-----------------------------------------------------------------------------
(* What an action of the pool does to what each task holds. *)
LEMMA InitPool == Init => PoolInv
  BY PoolAssumption DEF Init, PoolInv, MainStates, Queues, Queued, Waiting, MainHolds,
     FetcherHolds, Tasks

USE DEF MainStates, Waiting

LEMMA MainAsks ==
  ASSUME PoolInv, main \notin Waiting, main' \in Waiting, MainHolds' = MainHolds,
         Asks("main"), UNCHANGED fetcher
  PROVE  PoolInv'
<1>1. ~Queued("main", queue)  BY DEF PoolInv
<1>2. /\ queue' \in Queues /\ Queued("main", queue')
      /\ Queued("fetcher", queue') <=> Queued("fetcher", queue)
  BY <1>1, QueueGrows DEF PoolInv, Asks, Tasks
<1>3. QED  BY <1>2, SMTT(30) DEF PoolInv, Asks, FetcherHolds

LEMMA MainAcquires ==
  ASSUME PoolInv, main \in Waiting, main' \in MainStates \ Waiting,
         MainHolds' = MainHolds + 1, Acquires("main"), UNCHANGED fetcher
  PROVE  PoolInv'
<1>1. queue \in Queues /\ queue # <<>> /\ Head(queue) = "main" /\ queue' = Tail(queue)
  BY DEF PoolInv, Acquires, CanServe
<1>2. /\ queue' \in Queues /\ ~Queued("main", queue')
      /\ Queued("fetcher", queue') <=> Queued("fetcher", queue)
  BY <1>1, QueueServes DEF Tasks
<1>3. held' = [t \in Tasks |-> IF t = "main" THEN MainHolds' ELSE FetcherHolds']
  BY DEF PoolInv, Acquires, FetcherHolds, Tasks
<1>4. MainHolds' + FetcherHolds' + dropped' <= MaxConnections
  BY PoolAssumption DEF PoolInv, Acquires, CanServe, Free, FetcherHolds, MainHolds, Tasks
<1>5. QED  BY <1>2, <1>3, <1>4 DEF PoolInv, Acquires

LEMMA MainReleases ==
  ASSUME PoolInv, main \notin Waiting, main' \in MainStates \ Waiting,
         MainHolds' = MainHolds - 1, Releases("main"), UNCHANGED fetcher
  PROVE  PoolInv'
<1>1. held' = [t \in Tasks |-> IF t = "main" THEN MainHolds' ELSE FetcherHolds']
  BY DEF PoolInv, Releases, FetcherHolds, Tasks
<1>2. MainHolds' + FetcherHolds' + dropped' <= MaxConnections
  BY PoolAssumption DEF PoolInv, Releases, FetcherHolds, MainHolds
<1>3. QED  BY <1>1, <1>2 DEF PoolInv, Releases

LEMMA MainKeeps ==
  ASSUME PoolInv, main \notin Waiting, main' \in MainStates \ Waiting,
         MainHolds' = MainHolds, UNCHANGED <<pool, fetcher>>
  PROVE  PoolInv'
  BY DEF PoolInv, pool, FetcherHolds

(* An error takes the main task to a new transaction or out of the call: its  *)
(* connections are dropped, and its place in the queue is the last, or none.  *)
LEMMA MainDrops ==
  ASSUME PoolInv, Drops, AfterError, UNCHANGED fetcher
  PROVE  PoolInv'
<1>1. /\ Without("main") \in Queues /\ ~Queued("main", Without("main"))
      /\ Queued("fetcher", Without("main")) <=> Queued("fetcher", queue)
  BY QueueShrinks DEF PoolInv, Tasks
<1>2. \/ main' = "begin" /\ queue' = Joined(Without("main"), "main")
      \/ main' = "idle" /\ queue' = Without("main")
  BY DEF AfterError, BeginsAgain
<1>3. /\ queue' \in Queues
      /\ Queued("main", queue') <=> main' \in Waiting
      /\ Queued("fetcher", queue') <=> Queued("fetcher", queue)
  <2>1. CASE main' = "begin" /\ queue' = Joined(Without("main"), "main")
    BY <1>1, <2>1, QueueGrows DEF Tasks
  <2>2. CASE main' = "idle" /\ queue' = Without("main")
    BY <1>1, <2>2
  <2>3. QED  BY <1>2, <2>1, <2>2
<1>4. MainHolds' = 0 /\ main' \in MainStates
  BY <1>2 DEF MainHolds
<1>5. held["main"] = MainHolds
  BY DEF PoolInv, Tasks
<1>6. MainHolds \in Nat /\ FetcherHolds' = FetcherHolds /\ FetcherHolds \in Nat
  BY DEF MainHolds, FetcherHolds
<1>7. dropped' \in Nat /\ MainHolds' + FetcherHolds' + dropped' <= MaxConnections
  BY <1>4, <1>5, <1>6, PoolAssumption DEF PoolInv, Drops
<1>8. held' = [t \in Tasks |-> IF t = "main" THEN MainHolds' ELSE FetcherHolds']
  <2>1. held = [t \in Tasks |-> IF t = "main" THEN MainHolds ELSE FetcherHolds]
    BY DEF PoolInv
  <2>2. held' = [held EXCEPT !["main"] = 0]  BY DEF Drops
  <2>3. held' = [t \in Tasks |-> IF t = "main" THEN 0 ELSE FetcherHolds]
    BY <2>1, <2>2 DEF Tasks
  <2>4. \A t \in Tasks : (IF t = "main" THEN 0 ELSE FetcherHolds)
                          = (IF t = "main" THEN MainHolds' ELSE FetcherHolds')
    BY <1>4, <1>6
  <2>5. QED  BY <2>3, <2>4
<1>9. QED  BY <1>3, <1>4, <1>7, <1>8 DEF PoolInv

-----------------------------------------------------------------------------
(* The fetcher, which waits only when it has nothing. *)
LEMMA FetcherStepKeepsPool ==
  ASSUME PoolInv, FetcherStep \/ CountTimesOut
  PROVE  PoolInv'
<1>1. ASSUME UNCHANGED main
      PROVE  MainHolds' = MainHolds
  BY <1>1 DEF MainHolds
<1>2. CASE AsksCount
  <2>1. ~Queued("fetcher", queue)  BY <1>2 DEF PoolInv, AsksCount
  <2>2. /\ queue' \in Queues /\ Queued("fetcher", queue')
        /\ Queued("main", queue') <=> Queued("main", queue)
    BY <1>2, <2>1, QueueGrows DEF PoolInv, AsksCount, Asks, Tasks
  <2>3. QED  BY <1>1, <1>2, <2>2 DEF PoolInv, AsksCount, Asks, FetcherHolds
<1>3. CASE Counts
  <2>1. queue \in Queues /\ queue # <<>> /\ Head(queue) = "fetcher" /\ queue' = Tail(queue)
    BY <1>3 DEF PoolInv, Counts, Acquires, CanServe
  <2>2. /\ queue' \in Queues /\ ~Queued("fetcher", queue')
        /\ Queued("main", queue') <=> Queued("main", queue)
    BY <2>1, QueueServes DEF Tasks
  <2>3. FetcherHolds = 0 /\ FetcherHolds' = 1 /\ MainHolds' = MainHolds
    BY <1>1, <1>3 DEF Counts, FetcherHolds
  <2>4. held' = [t \in Tasks |-> IF t = "main" THEN MainHolds' ELSE FetcherHolds']
    <3>1. held = [t \in Tasks |-> IF t = "main" THEN MainHolds ELSE 0]
      BY <2>3 DEF PoolInv
    <3>2. held["fetcher"] = 0  BY <3>1 DEF Tasks
    <3>3. held' = [held EXCEPT !["fetcher"] = 1]
      BY <1>3, <3>2 DEF Counts, Acquires
    <3>4. held' = [t \in Tasks |-> IF t = "main" THEN MainHolds ELSE 1]
      BY <3>1, <3>3 DEF Tasks
    <3>5. QED  BY <2>3, <3>4
  <2>5. MainHolds' + FetcherHolds' + dropped' <= MaxConnections
    BY <1>3, <2>3, PoolAssumption
       DEF PoolInv, Counts, Acquires, CanServe, Free, MainHolds, Tasks
  <2>6. QED  BY <1>3, <2>2, <2>4, <2>5 DEF PoolInv, Counts, Acquires
<1>4. CASE Counted
  <2>1. FetcherHolds = 1 /\ FetcherHolds' = 0 /\ MainHolds' = MainHolds
    BY <1>1, <1>4 DEF Counted, FetcherHolds
  <2>2. held' = [t \in Tasks |-> IF t = "main" THEN MainHolds' ELSE FetcherHolds']
    <3>1. held = [t \in Tasks |-> IF t = "main" THEN MainHolds ELSE 1]
      BY <2>1 DEF PoolInv
    <3>2. held["fetcher"] = 1  BY <3>1 DEF Tasks
    <3>3. held' = [held EXCEPT !["fetcher"] = 0]
      BY <1>4, <3>2 DEF Counted, Releases
    <3>4. held' = [t \in Tasks |-> IF t = "main" THEN MainHolds ELSE 0]
      BY <3>1, <3>3 DEF Tasks
    <3>5. QED  BY <2>1, <3>4
  <2>3. MainHolds' + FetcherHolds' + dropped' <= MaxConnections
    BY <1>4, <2>1, PoolAssumption DEF PoolInv, Counted, Releases, MainHolds
  <2>4. QED  BY <1>4, <2>2, <2>3 DEF PoolInv, Counted, Releases
<1>5. CASE CountTimesOut
  <2>1. /\ queue' \in Queues /\ ~Queued("fetcher", queue')
        /\ Queued("main", queue') <=> Queued("main", queue)
    BY <1>5, QueueShrinks DEF PoolInv, CountTimesOut, Leaves, Tasks
  <2>2. QED  BY <1>1, <1>5, <2>1 DEF PoolInv, CountTimesOut, FetcherHolds
<1>6. QED  BY <1>2, <1>3, <1>4, <1>5 DEF FetcherStep

(* The main task. *)
LEMMA MainStepKeepsPool ==
  ASSUME PoolInv,
         Begin \/ MainStep \/ AcquireTimesOut \/ UpsertTimesOut \/ DatabaseError
  PROVE  PoolInv'
<1>1. CASE Begin
  BY <1>1, MainAsks DEF Begin, MainHolds
<1>2. CASE Opened
  BY <1>2, MainAcquires DEF Opened, MainHolds
<1>3. CASE CacheHit
  BY <1>3, MainKeeps DEF CacheHit, NextRow, MainHolds
<1>4. CASE CacheMiss
  BY <1>4, MainAsks DEF CacheMiss, MainHolds
<1>5. CASE Select
  BY <1>5, MainAcquires DEF Select, MainHolds
<1>6. CASE Selected
  BY <1>6, MainReleases DEF Selected, MainHolds
<1>7. CASE Refresh
  <2>1. CASE main' = "upsert" /\ Asks("main")
    BY <1>7, <2>1, MainAsks DEF Refresh, MainHolds
  <2>2. CASE NextRow /\ UNCHANGED pool
    BY <1>7, <2>2, MainKeeps DEF Refresh, NextRow, MainHolds
  <2>3. QED  BY <1>7, <2>1, <2>2 DEF Refresh
<1>8. CASE Upsert
  BY <1>8, MainAcquires DEF Upsert, MainHolds
<1>9. CASE Upserted
  <2>1. main' \in {"refresh", "rows", "execute"}
    BY <1>9 DEF Upserted, NextRow
  <2>2. QED  BY <1>9, <2>1, MainReleases DEF Upserted, MainHolds
<1>10. CASE Commit
  BY <1>10, MainReleases DEF Commit, MainHolds
<1>11. CASE AcquireTimesOut
  BY <1>11, MainDrops DEF AcquireTimesOut
<1>12. CASE UpsertTimesOut
  <2>1. /\ queue' \in Queues /\ ~Queued("main", queue')
        /\ Queued("fetcher", queue') <=> Queued("fetcher", queue)
    BY <1>12, QueueShrinks DEF PoolInv, UpsertTimesOut, Leaves, Tasks
  <2>2. main' \in {"rows", "execute"} /\ MainHolds' = MainHolds
    BY <1>12 DEF UpsertTimesOut, NextRow, MainHolds
  <2>3. QED  BY <1>12, <2>1, <2>2 DEF PoolInv, UpsertTimesOut, FetcherHolds
<1>13. CASE DatabaseError
  BY <1>13, MainDrops DEF DatabaseError
<1>14. QED
  BY <1>1, <1>2, <1>3, <1>4, <1>5, <1>6, <1>7, <1>8, <1>9, <1>10, <1>11, <1>12, <1>13
     DEF MainStep

LEMMA NextKeepsPool == PoolInv /\ [Next]_vars => PoolInv'
<1>1. ASSUME PoolInv, Returned PROVE PoolInv'
  <2>1. MainHolds' = MainHolds /\ FetcherHolds' = FetcherHolds
    BY <1>1 DEF Returned, MainHolds, FetcherHolds
  <2>2. dropped' \in Nat /\ MainHolds + FetcherHolds + dropped' <= MaxConnections
    BY <1>1, PoolAssumption DEF PoolInv, Returned, MainHolds, FetcherHolds
  <2>3. QED  BY <1>1, <2>1, <2>2 DEF PoolInv, Returned
<1>2. ASSUME PoolInv, UNCHANGED vars PROVE PoolInv'
  BY <1>2 DEF PoolInv, vars, pool, call, MainHolds, FetcherHolds
<1>3. QED
  BY <1>1, <1>2, MainStepKeepsPool, FetcherStepKeepsPool DEF Next, Timeout

-----------------------------------------------------------------------------
(* Each task has the connections its place in the code says, never more than  *)
(* the pool has, and waits with at most that of its transaction.              *)
THEOREM PoolAccounted == Spec => []PoolInv
  BY InitPool, NextKeepsPool, PTL DEF Spec

(* Two connections are enough: no task ever waits only for what it has itself,*)
(* whatever the chunk, and wherever acquires time out and queries fail        *)
(* (store.rs:79-112, market.rs:252-266, pipeline.rs:583-594).                 *)
THEOREM TwoAreEnough == MaxConnections >= 2 => (Spec => []SomeoneCanMove)
<1>1. ASSUME PoolInv, MaxConnections >= 2
      PROVE  SomeoneCanMove
  <2>1. SUFFICES ASSUME queue # <<>>, Free = 0, ~(dropped > 0)
                 PROVE  \E t \in Tasks : held[t] > 0 /\ ~Waits(t)
    BY DEF SomeoneCanMove
  <2>2. held["main"] = MainHolds /\ held["fetcher"] = FetcherHolds /\ dropped = 0
    BY <1>1, <2>1 DEF PoolInv, Tasks
  <2>3. MainHolds + FetcherHolds >= 2
    BY <1>1, <2>1, <2>2, PoolAssumption DEF Free, MainHolds, FetcherHolds
  <2>4. CASE fetcher = "count"
    <3>1. held["fetcher"] > 0  BY <2>2, <2>4 DEF FetcherHolds
    <3>2. ~Waits("fetcher")  BY <1>1, <2>4, WaitsQueued DEF PoolInv, Tasks
    <3>3. QED  BY <3>1, <3>2 DEF Tasks
  <2>5. CASE fetcher # "count"
    <3>1. main \in {"select", "upserted"}
      BY <2>3, <2>5 DEF MainHolds, FetcherHolds
    <3>2. held["main"] > 0  BY <2>2, <3>1 DEF MainHolds
    <3>3. ~Waits("main")  BY <1>1, <3>1, WaitsQueued DEF PoolInv, Tasks
    <3>4. QED  BY <3>2, <3>3 DEF Tasks
  <2>6. QED  BY <2>4, <2>5
<1>2. SUFFICES ASSUME MaxConnections >= 2
               PROVE  Spec => []SomeoneCanMove
  OBVIOUS
<1>3. PoolInv => SomeoneCanMove  BY <1>1, <1>2
<1>4. QED  BY <1>3, PoolAccounted, PTL

(* An error path gives back all it had: between two calls the main task has   *)
(* no connection, for every pool size.                                        *)
THEOREM NothingIsKept == Spec => []NothingKept
<1>1. PoolInv => NothingKept
  BY DEF PoolInv, NothingKept, MainHolds, Tasks
<1>2. QED  BY <1>1, PoolAccounted, PTL

-----------------------------------------------------------------------------
(* The rest of the state: the call in progress, and what the main task knows. *)
CallTypes ==
  /\ path \in {"copy", "values"} /\ row \in 1..Len(Chunk) /\ attempts \in Nat
  /\ cached \subseteq Listed /\ result \in {None, "ok", "failed"}

LEMMA ChunkIsSeq == Len(Chunk) \in Nat \ {0} /\ DOMAIN Chunk = 1..Len(Chunk)
<1>1. PICK S : Chunk \in Seq(S) /\ Chunk # <<>>
  BY PoolAssumption
<1>2. QED  BY <1>1

LEMMA InitCall == Init => CallTypes
  BY ChunkIsSeq DEF Init, CallTypes

(* The next row is one of the chunk. *)
LEMMA NextRowTyped == ASSUME CallTypes, NextRow PROVE row' \in 1..Len(Chunk)
  BY ChunkIsSeq DEF CallTypes, NextRow

LEMMA AfterErrorTyped ==
  ASSUME CallTypes, AfterError
  PROVE  /\ path' \in {"copy", "values"} /\ row' \in 1..Len(Chunk)
         /\ attempts' \in Nat /\ result' \in {None, "ok", "failed"}
<1>1. 1 \in 1..Len(Chunk)
  BY ChunkIsSeq
<1>2. QED  BY <1>1 DEF CallTypes, AfterError, BeginsAgain

LEMMA NextKeepsCall == CallTypes /\ [Next]_vars => CallTypes'
<1> SUFFICES ASSUME CallTypes, [Next]_vars PROVE CallTypes'
  OBVIOUS
<1>1. CASE Begin
  BY <1>1, ChunkIsSeq DEF Begin, CallTypes
<1>2. CASE UNCHANGED call
  BY <1>2 DEF call, CallTypes
<1>3. CASE CacheHit
  BY <1>3, NextRowTyped DEF CacheHit, CallTypes
<1>4. CASE Refresh
  BY <1>4, NextRowTyped DEF Refresh, CallTypes
<1>5. CASE Upserted
  BY <1>5, NextRowTyped DEF Upserted, CallTypes
<1>6. CASE Commit
  BY <1>6 DEF Commit, CallTypes
<1>7. CASE AcquireTimesOut
  BY <1>7, AfterErrorTyped DEF AcquireTimesOut, CallTypes
<1>8. CASE DatabaseError
  BY <1>8, AfterErrorTyped DEF DatabaseError, CallTypes
<1>9. CASE UpsertTimesOut
  BY <1>9, NextRowTyped DEF UpsertTimesOut, CallTypes
<1>10. QED
  BY <1>1, <1>2, <1>3, <1>4, <1>5, <1>6, <1>7, <1>8, <1>9
     DEF Next, MainStep, FetcherStep, Timeout, Opened, CacheMiss, Select, Selected,
         Upsert, AsksCount, Counts, Counted, CountTimesOut, Returned, vars, call

(* The pool is never overdrawn and every variable keeps its type: whatever is *)
(* written, waits, times out or fails (store.rs:79-112, market.rs:252-266).   *)
THEOREM PoolTypes == Spec => []TypeOK
<1>1. PoolInv => /\ held \in [Tasks -> Nat] /\ dropped \in Nat /\ Free >= 0
                 /\ main \in MainStates /\ fetcher \in {"page", "ask", "count"}
  <2>1. MainHolds \in Nat /\ FetcherHolds \in Nat
    BY DEF MainHolds, FetcherHolds
  <2>2. QED  BY <2>1, PoolAssumption DEF PoolInv, Free, Tasks
<1>2. PoolInv => queue \in Seq(Tasks)
  <2>1. "main" \in Tasks /\ "fetcher" \in Tasks
    BY DEF Tasks
  <2>2. \A s, t \in Tasks : <<>> \in Seq(Tasks) /\ <<s>> \in Seq(Tasks) /\ <<s, t>> \in Seq(Tasks)
    OBVIOUS
  <2>3. Queues \subseteq Seq(Tasks)
    BY <2>1, <2>2 DEF Queues
  <2>4. QED  BY <2>3 DEF PoolInv
<1>3. PoolInv /\ CallTypes => TypeOK
  BY <1>1, <1>2, ChunkIsSeq DEF TypeOK, CallTypes
<1>4. QED
  BY <1>3, InitCall, NextKeepsCall, PoolAccounted, PTL DEF Spec
=============================================================================
