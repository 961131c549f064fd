---------------------------- MODULE ConnectionPool ----------------------------
(***************************************************************************)
(* The connections of one backfill process (main.rs): its main task inserts *)
(* chunks and its fetcher task queries the table, through one pool.  A     *)
(* chunk is written with a transaction open (indexer/src/store.rs), and    *)
(* for each of its fills the market registry (indexer/src/market.rs) may   *)
(* ask the same pool for a second connection.                              *)
(***************************************************************************)
EXTENDS Integers, Sequences, FiniteSets

CONSTANTS MaxConnections,  \* database.max_connections
          MaxRetries,      \* ingest.max_retries
          Chunk,           \* the markets of the fills of a chunk, a sequence
          Listed,          \* those the exchange's metadata names
          None

(* Config::validate accepts one connection too, with which no chunk that      *)
(* needs a lookup can be written: see TwoAreEnough.                           *)
ASSUME PoolAssumption == /\ MaxConnections \in Nat \ {0} /\ MaxRetries \in Nat
                         /\ Chunk \in Seq({Chunk[i] : i \in DOMAIN Chunk}) /\ Chunk # <<>>
                         /\ None \notin {"ok", "failed"}

Tasks == {"main", "fetcher"}

VARIABLES
  held,        \* task |-> the connections it has
  queue,       \* the tasks that wait for one, served in order
  dropped,     \* connections given up by an error, not yet back in the pool
  main,        \* what the main task does: "idle", "begin", "rows", "lookup",
               \* "select", "refresh", "upsert", "upserted", "execute"
  path, row, attempts,     \* of the insert_fills call in progress
  cached,      \* the markets in the registry's cache
  fetcher,     \* "page", "ask", "count"
  result       \* of the last call: None, "ok", "failed"

pool == <<held, queue, dropped>>
call == <<path, row, attempts, cached, result>>
vars == <<pool, main, call, fetcher>>

Init ==
  /\ held = [t \in Tasks |-> 0] /\ queue = <<>> /\ dropped = 0
  /\ main = "idle" /\ path = "copy" /\ row = 1 /\ attempts = 1 /\ cached = {}
  /\ fetcher = "page" /\ result = None

-----------------------------------------------------------------------------
(* The pool. *)
Free == MaxConnections - (held["main"] + held["fetcher"] + dropped)
Waits(t) == \E i \in DOMAIN queue : queue[i] = t

(* The queue has at most two entries. *)
Without(t) == IF ~Waits(t) THEN queue
              ELSE IF Head(queue) = t THEN Tail(queue) ELSE <<Head(queue)>>

Joined(q, t) == IF q = <<>> THEN <<t>> ELSE <<Head(q), t>>

Asks(t) == queue' = Joined(queue, t) /\ UNCHANGED <<held, dropped>>

OverLimit == queue # <<>>                                           \* mutant
CanServe == queue # <<>> /\ Free > 0

Acquires(t) ==
  /\ CanServe /\ Head(queue) = t
  /\ queue' = Tail(queue) /\ held' = [held EXCEPT ![t] = @ + 1]
  /\ UNCHANGED dropped

Releases(t) ==
  /\ held' = [held EXCEPT ![t] = @ - 1] /\ UNCHANGED <<queue, dropped>>

(* acquire_timeout: only when no connection is free. *)
Leaves(t) == Waits(t) /\ Free = 0 /\ queue' = Without(t)

(* A connection dropped with its transaction open is rolled back and returned *)
(* by a task of the pool.                                                     *)
NeverReturned == FALSE /\ UNCHANGED vars                            \* mutant
Returned ==
  /\ dropped > 0 /\ dropped' = dropped - 1
  /\ UNCHANGED <<held, queue, main, call, fetcher>>

-----------------------------------------------------------------------------
(* The main task: insert_fills with one chunk, called again and again. *)
Begin ==
  /\ main = "idle" /\ main' = "begin" /\ Asks("main")
  /\ path' = "copy" /\ row' = 1 /\ attempts' = 1 /\ result' = None
  /\ UNCHANGED <<cached, fetcher>>

Opened ==
  /\ main = "begin" /\ main' = "rows" /\ Acquires("main")
  /\ UNCHANGED <<call, fetcher>>

(* get_or_create_market, for each fill: from the cache, or by a query on a    *)
(* second connection, and then a refresh that upserts with one more each time *)
(* and whose errors are only logged.                                          *)
NextRow == IF row < Len(Chunk) THEN main' = "rows" /\ row' = row + 1
                               ELSE main' = "execute" /\ row' = row

CacheHit ==
  /\ main = "rows" /\ Chunk[row] \in cached /\ NextRow
  /\ UNCHANGED <<pool, path, attempts, cached, result, fetcher>>

CacheMiss ==
  /\ main = "rows" /\ Chunk[row] \notin cached
  /\ main' = "lookup" /\ Asks("main")
  /\ UNCHANGED <<call, fetcher>>

Select ==
  /\ main = "lookup" /\ main' = "select" /\ Acquires("main")
  /\ UNCHANGED <<call, fetcher>>

Selected ==
  /\ main = "select" /\ Releases("main") /\ main' = "refresh"
  /\ UNCHANGED <<call, fetcher>>

(* The API answers, and a market it lists is upserted; or it does not. *)
Refresh ==
  /\ main = "refresh"
  /\ \/ main' = "upsert" /\ Asks("main") /\ UNCHANGED row
     \/ NextRow /\ UNCHANGED pool
  /\ UNCHANGED <<path, attempts, cached, result, fetcher>>

Upsert ==
  /\ main = "upsert" /\ Acquires("main") /\ main' = "upserted"
  /\ UNCHANGED <<call, fetcher>>

(* One more market in the cache; or it was the last, or failed to be written. *)
Upserted ==
  /\ main = "upserted" /\ Releases("main")
  /\ \/ /\ \E m \in Listed \ cached : cached' = cached \cup {m}
        /\ main' = "refresh" /\ UNCHANGED row
     \/ NextRow /\ UNCHANGED cached
  /\ UNCHANGED <<path, attempts, result, fetcher>>

Commit ==
  /\ main = "execute" /\ main' = "idle" /\ Releases("main") /\ result' = "ok"
  /\ UNCHANGED <<path, row, attempts, cached, fetcher>>

(* An error drops the transaction; COPY falls back to VALUES, VALUES to       *)
(* another attempt of the call, or to its failure.                            *)
BeginsAgain(how) == /\ path' = how /\ row' = 1 /\ main' = "begin" /\ UNCHANGED result
                    /\ queue' = Joined(Without("main"), "main")
AfterError ==
  \/ path = "copy" /\ BeginsAgain("values") /\ UNCHANGED attempts
  \/ /\ path = "values" /\ attempts < MaxRetries
     /\ attempts' = attempts + 1 /\ BeginsAgain("copy")
  \/ /\ path = "values" /\ main' = "idle" /\ result' = "failed"
     /\ queue' = Without("main") /\ UNCHANGED <<path, row, attempts>>

KeepsOnError == UNCHANGED <<held, dropped>>                        \* mutant
Drops == /\ held' = [held EXCEPT !["main"] = 0]
         /\ dropped' = dropped + held["main"]

AcquireTimesOut ==
  /\ main \in {"begin", "lookup"} /\ Waits("main") /\ Free = 0
  /\ Drops /\ AfterError
  /\ UNCHANGED <<cached, fetcher>>

DatabaseError ==
  /\ main \in {"select", "execute"} /\ Drops /\ AfterError
  /\ UNCHANGED <<cached, fetcher>>

UpsertTimesOut ==
  /\ main = "upsert" /\ Leaves("main") /\ NextRow
  /\ UNCHANGED <<held, dropped, path, attempts, cached, result, fetcher>>

-----------------------------------------------------------------------------
(* The fetcher asks the table whether an hour is there, and goes on with a    *)
(* page, whatever the answer, or an error, says.                              *)
AsksCount == /\ fetcher = "page" /\ fetcher' = "ask" /\ Asks("fetcher")
             /\ UNCHANGED <<main, call>>
Counts == /\ fetcher = "ask" /\ fetcher' = "count" /\ Acquires("fetcher")
          /\ UNCHANGED <<main, call>>
KeepsConnection == /\ fetcher = "count" /\ fetcher' = "page"          \* mutant
                   /\ UNCHANGED <<pool, main, call>>
Counted == /\ fetcher = "count" /\ fetcher' = "page" /\ Releases("fetcher")
           /\ UNCHANGED <<main, call>>
CountTimesOut == /\ fetcher = "ask" /\ fetcher' = "page" /\ Leaves("fetcher")
                 /\ UNCHANGED <<held, dropped, main, call>>

MainStep == Opened \/ CacheHit \/ CacheMiss \/ Select \/ Selected \/ Refresh
            \/ Upsert \/ Upserted \/ Commit
FetcherStep == AsksCount \/ Counts \/ Counted
Timeout == AcquireTimesOut \/ UpsertTimesOut \/ CountTimesOut

Next == Begin \/ MainStep \/ FetcherStep \/ Timeout \/ DatabaseError \/ Returned
Spec == Init /\ [][Next]_vars

(* The tasks and the pool go on; a timeout need not come to anyone's help.    *)
FairSpec == /\ Spec /\ WF_vars(MainStep) /\ WF_vars(Returned)
            /\ WF_vars(Counts \/ Counted)
-----------------------------------------------------------------------------
TypeOK ==
  /\ held \in [Tasks -> Nat] /\ dropped \in Nat /\ Free >= 0
  /\ queue \in Seq(Tasks)
  /\ main \in {"idle", "begin", "rows", "lookup", "select", "refresh", "upsert",
               "upserted", "execute"}
  /\ path \in {"copy", "values"} /\ row \in DOMAIN Chunk /\ attempts \in Nat
  /\ cached \subseteq Listed /\ fetcher \in {"page", "ask", "count"}
  /\ result \in {None, "ok", "failed"}

(* Waiting is never for oneself: when a task waits and no connection is free, *)
(* one is on its way back or another task has one and does not wait.  The     *)
(* main task waits with its transaction open; the fetcher must not.           *)
SomeoneCanMove ==
  queue # <<>> /\ Free = 0 =>
    dropped > 0 \/ \E t \in Tasks : held[t] > 0 /\ ~Waits(t)

(* Between two calls the main task has no connection and those its errors     *)
(* dropped come back, so that a fallback or a retry finds what it needs.      *)
NothingKept == main = "idle" => held["main"] = 0

(* Every call returns although the fetcher competes for the connections, and  *)
(* even if no acquire ever times out.                                         *)
CallReturns == main # "idle" ~> main = "idle"
=============================================================================
