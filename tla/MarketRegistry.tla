--------------------------- MODULE MarketRegistry ---------------------------
(***************************************************************************)
(* The market registry (indexer/src/market.rs) and the SQL function        *)
(* get_or_create_market: the market id of a fill, from a cache of the      *)
(* process, from the table markets, or from a new row.  The metadata of    *)
(* all markets comes from the exchange's API when a process starts and     *)
(* whenever the cache does not have a market.                              *)
(*                                                                         *)
(* Several processes share the table.  In a process only the task that     *)
(* inserts asks for markets, one at a time.                                *)
(***************************************************************************)
EXTENDS Integers, FiniteSets

CONSTANTS Procs, Markets, None,
          Perps,         \* the markets the API lists under "meta", if at all
          MaxId,         \* the last id of the SERIAL column, 2^31 - 1
          MaxVersion,    \* bound on the changes of a market's metadata
          Tables,        \* the [market -> Row or None] a table can hold at first
          Listings,      \* what the API can list at first
          MaxFaults      \* bound on errors and crashes

(* A row of markets.  symbol stands for the columns that come with it: 0 is   *)
(* the placeholder of get_or_create_market, v > 0 version v of the metadata.  *)
Row == [id : 1..MaxId, symbol : 0..MaxVersion]

ASSUME RegistryAssumption ==
  /\ None \notin Row \cup Markets \cup 1..MaxId
  /\ MaxId \in Nat \ {0} /\ MaxVersion \in Nat /\ MaxFaults \in Nat
  /\ Perps \subseteq Markets /\ IsFiniteSet(Markets)
  /\ Tables \subseteq [Markets -> Row \cup {None}]
  /\ Listings \subseteq [Markets -> 0..MaxVersion]
  /\ \A t \in Tables : \A m, n \in Markets :
       m # n /\ t[m] # None /\ t[n] # None => t[m].id # t[n].id

VARIABLES
  listing,    \* what the API answers: a version, 0 when it has no such market
  table,      \* the table markets, by its unique key
  nextId,     \* the sequence of the SERIAL column
  cache,      \* MarketRegistry.markets of each process
  pc,         \* what each process does, below
  asked,      \* the market of the get_or_create_market in progress
  got,        \* the id the SQL function returned to it
  todo,       \* the answer of the API still to be upserted
  answers,    \* history: the <<market, id>> each process was given
  fetched,    \* history: the last answers of the API to each process
  faults

(* "off"; "load": reads the table; "idle"; "select" and "insert": inside the  *)
(* SQL function; "meta", "perps", "spotMeta", "spots": refresh_metadata.      *)

proc == <<cache, pc, asked, got, todo>>
vars == <<listing, table, nextId, proc, answers, fetched, faults>>

Fault == faults < MaxFaults /\ faults' = faults + 1

Nothing == [m \in Markets |-> None]
Known(rows) == {m \in Markets : rows[m] # None}

Init ==
  /\ listing \in Listings /\ table \in Tables
  /\ nextId = 1 + Cardinality(Known(table))
  /\ \A m \in Known(table) : table[m].id < nextId
  /\ cache = [p \in Procs |-> Nothing] /\ pc = [p \in Procs |-> "off"]
  /\ asked = [p \in Procs |-> None] /\ got = [p \in Procs |-> None]
  /\ todo = [p \in Procs |-> {}]
  /\ answers = [p \in Procs |-> {}] /\ fetched = [p \in Procs |-> {}]
  /\ faults = 0

(* The exchange lists a market, or changes what it says of one. *)
Relist(m) ==
  /\ listing[m] < MaxVersion
  /\ listing' = [listing EXCEPT ![m] = @ + 1]
  /\ UNCHANGED <<table, nextId, proc, answers, fetched, faults>>

-----------------------------------------------------------------------------
Goes(p, where) == pc' = [pc EXCEPT ![p] = where]

(* The call in progress is over: it has its id, or new() has its registry. *)
Answers(p) ==
  /\ Goes(p, "idle") /\ asked' = [asked EXCEPT ![p] = None]
  /\ got' = [got EXCEPT ![p] = None] /\ todo' = [todo EXCEPT ![p] = {}]
  /\ answers' = IF asked[p] = None THEN answers
                ELSE [answers EXCEPT ![p] = @ \cup {<<asked[p], got[p]>>}]

(* An error leaves the call: insert_fills fails and the caller tries again. *)
CallFails(p) ==
  /\ Goes(p, "idle") /\ asked' = [asked EXCEPT ![p] = None]
  /\ got' = [got EXCEPT ![p] = None] /\ todo' = [todo EXCEPT ![p] = {}]
  /\ UNCHANGED answers

Exits(p) ==
  /\ Goes(p, "off") /\ cache' = [cache EXCEPT ![p] = Nothing]
  /\ asked' = [asked EXCEPT ![p] = None] /\ got' = [got EXCEPT ![p] = None]
  /\ todo' = [todo EXCEPT ![p] = {}] /\ fetched' = [fetched EXCEPT ![p] = {}]
  /\ answers' = [answers EXCEPT ![p] = {}]

Crash(p) ==
  /\ pc[p] # "off" /\ Fault /\ Exits(p)
  /\ UNCHANGED <<listing, table, nextId>>

(* MarketRegistry::new: the rows of the table, then the metadata. *)
Start(p) ==
  /\ pc[p] = "off" /\ Goes(p, "load")
  /\ UNCHANGED <<listing, table, nextId, cache, asked, got, todo, answers,
                 fetched, faults>>

LoadMarketsFromDb(p) ==
  /\ pc[p] = "load" /\ Goes(p, "meta")
  /\ cache' = [cache EXCEPT ![p] = table]
  /\ UNCHANGED <<listing, table, nextId, asked, got, todo, answers, fetched,
                 faults>>

-----------------------------------------------------------------------------
(* get_or_create_market. *)
CacheHit(p, m) ==
  /\ pc[p] = "idle" /\ cache[p][m] # None
  /\ answers' = [answers EXCEPT ![p] = @ \cup {<<m, cache[p][m].id>>}]
  /\ UNCHANGED <<listing, table, nextId, proc, fetched, faults>>

CacheMiss(p, m) ==
  /\ pc[p] = "idle" /\ cache[p][m] = None
  /\ Goes(p, "select") /\ asked' = [asked EXCEPT ![p] = m]
  /\ UNCHANGED <<listing, table, nextId, cache, got, todo, answers, fetched,
                 faults>>

(* A row that is there is returned without a refresh. *)
FoundIsEnough(p) ==                                                 \* mutant
  /\ pc[p] = "select"
  /\ Goes(p, IF table[asked[p]] # None THEN "spots" ELSE "insert")
  /\ got' = [got EXCEPT ![p] = IF table[asked[p]] # None THEN table[asked[p]].id
                               ELSE None]
  /\ UNCHANGED <<listing, table, nextId, cache, asked, todo, answers, fetched,
                 faults>>

(* The SQL function, one transaction of two statements: the row may appear    *)
(* between them.                                                              *)
SqlSelect(p) ==
  /\ pc[p] = "select"
  /\ IF table[asked[p]] # None
     THEN Goes(p, "meta") /\ got' = [got EXCEPT ![p] = table[asked[p]].id]
     ELSE Goes(p, "insert") /\ UNCHANGED got
  /\ UNCHANGED <<listing, table, nextId, cache, asked, todo, answers, fetched,
                 faults>>

(* An INSERT takes an id from the sequence before it looks for a conflict. *)
TakesAnyId == nextId' = nextId + 1                                  \* mutant
TakesId == nextId <= MaxId /\ nextId' = nextId + 1

IgnoresConflict(m) == [id |-> nextId, symbol |-> 0]                 \* mutant
OverwritesOnConflict(m) ==                                          \* mutant
  [id |-> IF table[m] = None THEN nextId ELSE table[m].id, symbol |-> 0]
(* ON CONFLICT only touches updated_at. *)
Placeholder(m) == IF table[m] = None THEN [id |-> nextId, symbol |-> 0]
                  ELSE table[m]

SqlInsert(p) ==
  LET m == asked[p] IN
  /\ pc[p] = "insert" /\ TakesId
  /\ table' = [table EXCEPT ![m] = Placeholder(m)]
  /\ got' = [got EXCEPT ![p] = table'[m].id] /\ Goes(p, "meta")
  /\ UNCHANGED <<listing, cache, asked, todo, answers, fetched, faults>>

(* An error of the query, or of the sequence at its end. *)
SqlError(p) ==
  /\ pc[p] \in {"select", "insert"}
  /\ IF pc[p] = "insert" /\ nextId > MaxId THEN UNCHANGED faults ELSE Fault
  /\ CallFails(p)
  /\ UNCHANGED <<listing, table, nextId, cache, fetched>>

-----------------------------------------------------------------------------
(* refresh_metadata: perpetual markets, then spot markets. *)
Listed(group) == {<<m, listing[m]>> : m \in {n \in group : listing[n] > 0}}

ApiMeta(p) ==
  /\ pc[p] = "meta" /\ Goes(p, "perps")
  /\ todo' = [todo EXCEPT ![p] = Listed(Perps)]
  /\ fetched' = [fetched EXCEPT ![p] = Listed(Perps)]
  /\ UNCHANGED <<listing, table, nextId, cache, asked, got, answers, faults>>

(* The second call follows when the first answer is upserted. *)
PerpsDone(p) ==
  /\ pc[p] = "perps" /\ todo[p] = {} /\ Goes(p, "spotMeta")
  /\ UNCHANGED <<listing, table, nextId, cache, asked, got, todo, answers,
                 fetched, faults>>

ApiSpotMeta(p) ==
  /\ pc[p] = "spotMeta" /\ Goes(p, "spots")
  /\ todo' = [todo EXCEPT ![p] = Listed(Markets \ Perps)]
  /\ fetched' = [fetched EXCEPT ![p] = @ \cup Listed(Markets \ Perps)]
  /\ UNCHANGED <<listing, table, nextId, cache, asked, got, answers, faults>>

Upserted(m, version) ==
  [id |-> IF table[m] = None THEN nextId ELSE table[m].id, symbol |-> version]

KeepsCached(p, m) == IF cache[p][m] = None THEN table'[m] ELSE cache[p][m]   \* mutant
CachedAs(p, m) == table'[m]

(* The order of the API's answer is its own. *)
UpsertMarket(p) ==
  /\ pc[p] \in {"perps", "spots"} /\ TakesId
  /\ \E entry \in todo[p] :
       LET m == entry[1] IN
       /\ table' = [table EXCEPT ![m] = Upserted(m, entry[2])]
       /\ cache' = [cache EXCEPT ![p][m] = CachedAs(p, m)]
       /\ todo' = [todo EXCEPT ![p] = @ \ {entry}]
  /\ UNCHANGED <<listing, pc, asked, got, answers, fetched, faults>>

RefreshDone(p) ==
  /\ pc[p] = "spots" /\ todo[p] = {} /\ Answers(p)
  /\ UNCHANGED <<listing, table, nextId, cache, fetched, faults>>

(* An error ends the refresh where it is and is only logged: of the API, of   *)
(* an upsert, that may have taken effect, or of the sequence at its end.      *)
UpsertLost(p) ==
  \E entry \in todo[p] :
    /\ TakesId
    /\ table' = [table EXCEPT ![entry[1]] = Upserted(entry[1], entry[2])]

RefreshError(p) ==
  /\ pc[p] \in {"meta", "perps", "spotMeta", "spots"}
  /\ \/ Fault /\ UNCHANGED <<table, nextId>>
     \/ Fault /\ UpsertLost(p)
     \/ /\ todo[p] # {} /\ nextId > MaxId
        /\ UNCHANGED <<table, nextId, faults>>
  /\ Answers(p) /\ fetched' = [fetched EXCEPT ![p] = {}]
  /\ UNCHANGED <<listing, cache>>

-----------------------------------------------------------------------------
Run(p) == Start(p) \/ LoadMarketsFromDb(p) \/ SqlSelect(p) \/ SqlInsert(p)
          \/ ApiMeta(p) \/ PerpsDone(p) \/ ApiSpotMeta(p) \/ UpsertMarket(p)
          \/ RefreshDone(p)
Errors(p) == SqlError(p) \/ RefreshError(p) \/ Crash(p)
Lookup(p, m) == CacheHit(p, m) \/ CacheMiss(p, m)

Next == \/ \E m \in Markets : Relist(m)
        \/ \E p \in Procs : Run(p) \/ Errors(p) \/ \E m \in Markets : Lookup(p, m)
Spec == Init /\ [][Next]_vars

(* Calls in progress go on; fills of every market keep coming. *)
FairSpec ==
  /\ Spec
  /\ \A p \in Procs : WF_vars(Run(p))
  /\ \A p \in Procs, m \in Markets : SF_vars(Lookup(p, m))
-----------------------------------------------------------------------------
TypeOK ==
  /\ listing \in [Markets -> 0..MaxVersion]
  /\ table \in [Markets -> Row \cup {None}] /\ nextId \in 1..(MaxId + 1)
  /\ cache \in [Procs -> [Markets -> Row \cup {None}]]
  /\ pc \in [Procs -> {"off", "load", "idle", "select", "insert", "meta", "perps",
                       "spotMeta", "spots"}]
  /\ asked \in [Procs -> Markets \cup {None}] /\ got \in [Procs -> 1..MaxId \cup {None}]
  /\ todo \in [Procs -> SUBSET (Markets \X (1..MaxVersion))]
  /\ answers \in [Procs -> SUBSET (Markets \X (1..MaxId))]
  /\ fetched \in [Procs -> SUBSET (Markets \X (1..MaxVersion))] /\ faults \in Nat
  /\ \A p \in Procs : /\ pc[p] \in {"select", "insert"} => asked[p] # None
                      /\ asked[p] # None /\ pc[p] \notin {"select", "insert"} => got[p] # None

(* A market has one id for every process, now and for as long as the process  *)
(* runs: what a call returned, what a cache holds and what the table holds    *)
(* are the same, and no other market has it; whichever process found the      *)
(* market first, between whichever statements of the others (lines 243-267).  *)
OneIdPerMarket ==
  /\ \A p \in Procs : \A m \in Markets :
       /\ cache[p][m] # None => table[m] # None /\ cache[p][m].id = table[m].id
       /\ \A id \in 1..MaxId : <<m, id>> \in answers[p] =>
             table[m] # None /\ id = table[m].id
  /\ \A m, n \in Known(table) : table[m].id = table[n].id => m = n

(* The id of a row never changes, and metadata the API gave is never replaced *)
(* by the placeholder of a get_or_create_market that began before it came.    *)
MetadataStays ==
  [][\A m \in Known(table) :
       /\ table'[m] # None /\ table'[m].id = table[m].id
       /\ table[m].symbol > 0 => table'[m].symbol > 0]_vars

(* A refresh that ended well leaves every market it was told of in the cache, *)
(* with that metadata, and the table with no placeholder of it, whatever the  *)
(* other processes wrote meanwhile (lines 134-196).                           *)
RefreshTakesEffect ==
  \A p \in Procs : pc[p] = "idle" =>
    \A entry \in fetched[p] :
      /\ cache[p][entry[1]] # None /\ cache[p][entry[1]].symbol = entry[2]
      /\ table[entry[1]].symbol > 0

(* A placeholder of a market the API lists is replaced in the end, unless a   *)
(* process has it in its cache, from where no refresh follows, or refreshes   *)
(* have used up the sequence.                                                 *)
IsPlaceholder(m) == table[m] # None /\ table[m].symbol = 0
HeldStale(m) == \E p \in Procs : cache[p][m] # None /\ cache[p][m].symbol = 0

PlaceholderReplaced ==
  \A m \in Markets :
    IsPlaceholder(m) /\ listing[m] > 0
      ~> ~IsPlaceholder(m) \/ HeldStale(m) \/ nextId > MaxId
=============================================================================
