------------------------- MODULE MarketRegistryProofs -------------------------
(***************************************************************************)
(* A market has one id: for every set of processes and markets, every      *)
(* length of the id sequence, whatever the API lists and whatever fails.   *)
(***************************************************************************)
EXTENDS MarketRegistry, FiniteSetTheorems, TLAPS

States == {"off", "load", "idle", "select", "insert", "meta", "perps", "spotMeta",
           "spots"}
Rows == [Markets -> Row \cup {None}]
Ids == 1..MaxId

(* The ids of the table are distinct and taken from the sequence. *)
TableOK ==
  /\ table \in Rows /\ nextId \in Nat \ {0}
  /\ \A m \in Markets : table[m] # None => table[m].id < nextId
  /\ \A m, n \in Markets :
       table[m] # None /\ table[n] # None /\ table[m].id = table[n].id => m = n

LocalTypes ==
  /\ listing \in [Markets -> 0..MaxVersion]
  /\ cache \in [Procs -> Rows] /\ pc \in [Procs -> States]
  /\ asked \in [Procs -> Markets \cup {None}] /\ got \in [Procs -> Ids \cup {None}]
  /\ todo \in [Procs -> SUBSET (Markets \X (1..MaxVersion))]
  /\ answers \in [Procs -> SUBSET (Markets \X Ids)]

IsIdOf(id, m) == table[m] # None /\ id = table[m].id

(* All that a process knows of ids is what the table says: its cache, what it *)
(* answered, and the id that it is about to answer when its refresh ends.     *)
CacheOK(p) == \A m \in Markets : cache[p][m] # None => IsIdOf(cache[p][m].id, m)
AnswersOK(p) == \A a \in answers[p] : IsIdOf(a[2], a[1])
CallOK(p) == IF pc[p] \in {"select", "insert"} THEN asked[p] # None
             ELSE asked[p] # None => got[p] # None /\ IsIdOf(got[p], asked[p])
ProcOK(p) == CacheOK(p) /\ AnswersOK(p) /\ CallOK(p)

RegistryInv == TableOK /\ LocalTypes /\ \A p \in Procs : ProcOK(p)

-----------------------------------------------------------------------------
(* The table only gains rows, and a row keeps its id. *)
KeepsIds == \A m \in Markets : table[m] # None => table'[m] # None /\ table'[m].id = table[m].id

(* A new row, or a change of one, leaves the ids distinct: a new id is the    *)
(* next of the sequence, which no row has.                                    *)
LEMMA RowWritten ==
  ASSUME TableOK, NEW m \in Markets, NEW r \in Row, nextId' = nextId + 1,
         r.id = IF table[m] = None THEN nextId ELSE table[m].id,
         table' = [table EXCEPT ![m] = r]
  PROVE  TableOK' /\ KeepsIds /\ table'[m] = r /\ r # None
<1>1. r # None /\ None \notin Row
  BY RegistryAssumption
<1>2. table' \in Rows /\ table'[m] = r /\ \A n \in Markets \ {m} : table'[n] = table[n]
  BY DEF TableOK, Rows
<1>3. nextId' \in Nat \ {0} /\ nextId < nextId'
  BY DEF TableOK
<1>4. r.id \in Nat
  BY RegistryAssumption DEF Row
<1>5. \A n \in Markets : table[n] # None => table[n].id \in Nat
  BY RegistryAssumption DEF TableOK, Rows, Row
<1>6. ASSUME NEW n \in Markets, table'[n] # None
      PROVE  table'[n].id < nextId'
  <2>1. CASE n = m
    BY <1>2, <1>3, <1>4, <1>5, <2>1 DEF TableOK
  <2>2. CASE n # m
    BY <1>2, <1>3, <1>5, <1>6, <2>2 DEF TableOK
  <2>3. QED  BY <2>1, <2>2
<1>7. ASSUME NEW n \in Markets \ {m}, table'[n] # None
      PROVE  table'[n].id # r.id
  <2>1. table[n] # None /\ table'[n].id = table[n].id /\ table[n].id < nextId
    BY <1>2, <1>7 DEF TableOK
  <2>2. CASE table[m] = None
    BY <1>4, <1>5, <2>1, <2>2 DEF TableOK
  <2>3. CASE table[m] # None
    BY <2>1, <2>3 DEF TableOK
  <2>4. QED  BY <2>2, <2>3
<1>8. \A i, j \in Markets :
        table'[i] # None /\ table'[j] # None /\ table'[i].id = table'[j].id => i = j
  BY <1>2, <1>7 DEF TableOK
<1>9. KeepsIds
  BY <1>1, <1>2 DEF KeepsIds
<1>10. QED  BY <1>1, <1>2, <1>3, <1>6, <1>8, <1>9 DEF TableOK

(* What a process knew of the ids stays true. *)
LEMMA KnowledgeStays ==
  ASSUME LocalTypes, KeepsIds, NEW p \in Procs, ProcOK(p)
  PROVE  /\ cache'[p] = cache[p] => CacheOK(p)'
         /\ answers'[p] = answers[p] => AnswersOK(p)'
         /\ asked'[p] = asked[p] /\ got'[p] = got[p] /\ pc'[p] = pc[p] => CallOK(p)'
<1>1. \A id, m : m \in Markets /\ IsIdOf(id, m) => IsIdOf(id, m)'
  BY DEF IsIdOf, KeepsIds
<1>2. cache'[p] = cache[p] => CacheOK(p)'
  BY <1>1 DEF ProcOK, CacheOK
<1>3. answers'[p] = answers[p] => AnswersOK(p)'
  <2>1. \A a \in answers[p] : a[1] \in Markets
    BY DEF LocalTypes
  <2>2. QED  BY <1>1, <2>1 DEF ProcOK, AnswersOK
<1>4. ASSUME asked'[p] = asked[p], got'[p] = got[p], pc'[p] = pc[p]
      PROVE  CallOK(p)'
  <2>1. asked[p] # None => asked[p] \in Markets
    BY DEF LocalTypes
  <2>2. QED  BY <1>1, <1>4, <2>1 DEF ProcOK, CallOK
<1>5. QED  BY <1>2, <1>3, <1>4

(* A step of process p that keeps the ids: what is left to show is its own    *)
(* state.                                                                     *)
Only(p) == \A q \in Procs \ {p} : /\ cache'[q] = cache[q] /\ answers'[q] = answers[q]
                                 /\ asked'[q] = asked[q] /\ got'[q] = got[q]
                                 /\ pc'[q] = pc[q]

LEMMA OneProcSteps ==
  ASSUME RegistryInv, TableOK', LocalTypes', KeepsIds, NEW p \in Procs, Only(p),
         ProcOK(p)'
  PROVE  RegistryInv'
<1>1. ASSUME NEW q \in Procs \ {p} PROVE ProcOK(q)'
  BY <1>1, KnowledgeStays DEF RegistryInv, Only, ProcOK
<1>2. QED  BY <1>1 DEF RegistryInv

-----------------------------------------------------------------------------
LEMMA RegistryInit == Init => RegistryInv
<1>1. SUFFICES ASSUME Init PROVE RegistryInv
  OBVIOUS
<1>2. PICK known : known = Known(table)  OBVIOUS
<1>3. Cardinality(known) \in Nat
  <2>1. known \subseteq Markets /\ IsFiniteSet(Markets)
    BY <1>2, RegistryAssumption DEF Known
  <2>2. QED  BY <2>1, FS_Subset, FS_CardinalityType
<1>4. nextId \in Nat \ {0}
  BY <1>1, <1>2, <1>3 DEF Init
<1>5. table \in Tables
  BY <1>1 DEF Init
<1>6. TableOK
  BY <1>1, <1>4, <1>5, RegistryAssumption DEF Init, TableOK, Rows, Known
<1>7. LocalTypes
  BY <1>1, RegistryAssumption DEF Init, LocalTypes, Rows, Nothing, States
<1>8. ASSUME NEW p \in Procs PROVE ProcOK(p)
  BY <1>1 DEF Init, ProcOK, CacheOK, AnswersOK, CallOK, Nothing
<1>9. QED  BY <1>6, <1>7, <1>8 DEF RegistryInv

(* A step that leaves the table alone. *)
LEMMA SameTable ==
  ASSUME RegistryInv, UNCHANGED <<table, nextId>>
  PROVE  TableOK' /\ KeepsIds /\ \A id, m : IsIdOf(id, m) => IsIdOf(id, m)'
  BY DEF RegistryInv, TableOK, KeepsIds, IsIdOf

(* The ends of a call, and of a process. *)
LEMMA AnswersKeeps ==
  ASSUME RegistryInv, KeepsIds, NEW p \in Procs, Answers(p),
         pc[p] \notin {"select", "insert"}, UNCHANGED cache
  PROVE  /\ Only(p)
         /\ AnswersOK(p)' /\ CallOK(p)'
         /\ pc' \in [Procs -> States] /\ asked' \in [Procs -> Markets \cup {None}]
         /\ got' \in [Procs -> Ids \cup {None}]
         /\ todo' \in [Procs -> SUBSET (Markets \X (1..MaxVersion))]
         /\ answers' \in [Procs -> SUBSET (Markets \X Ids)]
<1>1. LocalTypes /\ ProcOK(p)
  BY DEF RegistryInv
<1>2. /\ pc' = [pc EXCEPT ![p] = "idle"] /\ asked' = [asked EXCEPT ![p] = None]
      /\ got' = [got EXCEPT ![p] = None] /\ todo' = [todo EXCEPT ![p] = {}]
  BY DEF Answers, Goes
<1>3. \/ asked[p] = None /\ answers' = answers
      \/ /\ asked[p] # None
         /\ answers' = [answers EXCEPT ![p] = @ \cup {<<asked[p], got[p]>>}]
  BY DEF Answers
<1>4. asked[p] # None => /\ asked[p] \in Markets /\ got[p] \in Ids
                         /\ IsIdOf(got[p], asked[p])
  BY <1>1 DEF LocalTypes, ProcOK, CallOK
<1>5. answers' \in [Procs -> SUBSET (Markets \X Ids)]
  <2>1. CASE asked[p] = None
    BY <1>1, <1>3, <2>1 DEF LocalTypes
  <2>2. CASE asked[p] # None
    <3>1. <<asked[p], got[p]>> \in Markets \X Ids  BY <1>4, <2>2
    <3>2. answers[p] \cup {<<asked[p], got[p]>>} \in SUBSET (Markets \X Ids)
      BY <1>1, <3>1 DEF LocalTypes
    <3>3. answers' = [answers EXCEPT ![p] = answers[p] \cup {<<asked[p], got[p]>>}]
      BY <1>3, <2>2
    <3>4. answers \in [Procs -> SUBSET (Markets \X Ids)]  BY <1>1 DEF LocalTypes
    <3>5. QED  BY <3>2, <3>3, <3>4
  <2>3. QED  BY <2>1, <2>2
<1>6. \A id, m : m \in Markets /\ IsIdOf(id, m) => IsIdOf(id, m)'
  BY DEF IsIdOf, KeepsIds
<1>7. AnswersOK(p)'
  <2>1. \A a \in answers[p] : a[1] \in Markets /\ IsIdOf(a[2], a[1])
    BY <1>1 DEF LocalTypes, ProcOK, AnswersOK
  <2>2. \A a \in answers'[p] :
          a \in answers[p] \/ (asked[p] # None /\ a = <<asked[p], got[p]>>)
    BY <1>1, <1>3 DEF LocalTypes
  <2>3. QED  BY <1>4, <1>6, <2>1, <2>2 DEF AnswersOK
<1>8. CallOK(p)'
  BY <1>1, <1>2 DEF LocalTypes, CallOK
<1>9. Only(p)
  BY <1>1, <1>2, <1>3 DEF Only, LocalTypes
<1>10. QED
  BY <1>1, <1>2, <1>5, <1>7, <1>8, <1>9 DEF LocalTypes, States

(* A call that fails, and a process that exits, know nothing of ids but what  *)
(* they answered, or nothing at all.                                          *)
LEMMA CallFailsKeeps ==
  ASSUME RegistryInv, NEW p \in Procs, CallFails(p),
         UNCHANGED <<listing, table, nextId, cache>>
  PROVE  RegistryInv'
<1>1. LocalTypes /\ ProcOK(p) /\ TableOK' /\ KeepsIds
  BY SameTable DEF RegistryInv
<1>2. /\ pc' = [pc EXCEPT ![p] = "idle"] /\ asked' = [asked EXCEPT ![p] = None]
      /\ got' = [got EXCEPT ![p] = None] /\ todo' = [todo EXCEPT ![p] = {}]
      /\ answers' = answers
  BY DEF CallFails, Goes
<1>3. LocalTypes'
  BY <1>1, <1>2 DEF LocalTypes, States
<1>4. Only(p)
  BY <1>1, <1>2 DEF Only, LocalTypes
<1>5. CacheOK(p)' /\ AnswersOK(p)'
  BY <1>1, <1>2, KnowledgeStays
<1>6. CallOK(p)'
  BY <1>1, <1>2 DEF LocalTypes, CallOK
<1>7. QED  BY <1>1, <1>3, <1>4, <1>5, <1>6, OneProcSteps DEF ProcOK

LEMMA ExitsKeeps ==
  ASSUME RegistryInv, NEW p \in Procs, Exits(p), UNCHANGED <<listing, table, nextId>>
  PROVE  RegistryInv'
<1>1. LocalTypes /\ TableOK' /\ KeepsIds
  BY SameTable DEF RegistryInv
<1>2. /\ pc' = [pc EXCEPT ![p] = "off"] /\ asked' = [asked EXCEPT ![p] = None]
      /\ got' = [got EXCEPT ![p] = None] /\ todo' = [todo EXCEPT ![p] = {}]
      /\ answers' = [answers EXCEPT ![p] = {}] /\ cache' = [cache EXCEPT ![p] = Nothing]
  BY DEF Exits, Goes
<1>3. Nothing \in Rows
  BY DEF Nothing, Rows
<1>4. LocalTypes'
  BY <1>1, <1>2, <1>3 DEF LocalTypes, States
<1>5. Only(p)
  BY <1>1, <1>2 DEF Only, LocalTypes
<1>6. CacheOK(p)' /\ AnswersOK(p)' /\ CallOK(p)'
  BY <1>1, <1>2 DEF LocalTypes, CacheOK, AnswersOK, CallOK, Nothing
<1>7. QED  BY <1>1, <1>4, <1>5, <1>6, OneProcSteps DEF ProcOK

-----------------------------------------------------------------------------
(* Steps that only move a process on. *)
LEMMA MovesOn ==
  ASSUME RegistryInv, NEW p \in Procs, UNCHANGED <<table, nextId, cache, answers, asked>>,
         listing' \in [Markets -> 0..MaxVersion],
         NEW where \in States, pc' = [pc EXCEPT ![p] = where],
         todo' \in [Procs -> SUBSET (Markets \X (1..MaxVersion))],
         got' \in [Procs -> Ids \cup {None}], \A q \in Procs \ {p} : got'[q] = got[q],
         IF where \in {"select", "insert"} THEN asked[p] # None
         ELSE asked[p] # None => got'[p] # None /\ IsIdOf(got'[p], asked[p])
  PROVE  RegistryInv'
<1>1. LocalTypes /\ ProcOK(p) /\ TableOK' /\ KeepsIds
  BY SameTable DEF RegistryInv
<1>2. LocalTypes'
  BY <1>1 DEF LocalTypes
<1>3. Only(p)
  BY <1>1 DEF Only, LocalTypes
<1>4. CacheOK(p)' /\ AnswersOK(p)'
  BY <1>1, KnowledgeStays
<1>5. pc'[p] = where
  BY <1>1 DEF LocalTypes
<1>6. CallOK(p)'
  BY <1>5 DEF CallOK, IsIdOf
<1>7. QED  BY <1>1, <1>2, <1>3, <1>4, <1>6, OneProcSteps DEF ProcOK

LEMMA StartKeeps == ASSUME RegistryInv, NEW p \in Procs, Start(p) PROVE RegistryInv'
<1>1. LocalTypes /\ CallOK(p) /\ pc[p] = "off" /\ pc' = [pc EXCEPT ![p] = "load"]
  BY DEF RegistryInv, ProcOK, Start, Goes
<1>2. UNCHANGED <<listing, table, nextId, cache, answers, asked, got, todo>>
  BY DEF Start
<1>3. asked[p] # None => got'[p] # None /\ IsIdOf(got'[p], asked[p])
  BY <1>1, <1>2 DEF CallOK
<1>4. "load" \in States /\ "load" \notin {"select", "insert"}
  BY DEF States
<1>5. /\ listing' \in [Markets -> 0..MaxVersion]
      /\ todo' \in [Procs -> SUBSET (Markets \X (1..MaxVersion))]
      /\ got' \in [Procs -> Ids \cup {None}] /\ \A q \in Procs \ {p} : got'[q] = got[q]
  BY <1>1, <1>2 DEF LocalTypes
<1>6. QED  BY <1>1, <1>2, <1>3, <1>4, <1>5, MovesOn

LEMMA CacheMissKeeps ==
  ASSUME RegistryInv, NEW p \in Procs, NEW m \in Markets, CacheMiss(p, m)
  PROVE  RegistryInv'
<1>1. LocalTypes /\ ProcOK(p) /\ TableOK' /\ KeepsIds
  <2>1. UNCHANGED <<table, nextId>>  BY DEF CacheMiss
  <2>2. QED  BY <2>1, SameTable DEF RegistryInv
<1>2. /\ pc' = [pc EXCEPT ![p] = "select"] /\ asked' = [asked EXCEPT ![p] = m]
      /\ UNCHANGED <<listing, table, nextId, cache, got, todo, answers>>
  BY DEF CacheMiss, Goes
<1>3. LocalTypes'
  BY <1>1, <1>2 DEF LocalTypes, States
<1>4. Only(p)
  BY <1>1, <1>2 DEF Only, LocalTypes
<1>5. CacheOK(p)' /\ AnswersOK(p)'
  BY <1>1, <1>2, KnowledgeStays
<1>6. CallOK(p)'
  BY <1>1, <1>2, RegistryAssumption DEF LocalTypes, CallOK
<1>7. QED  BY <1>1, <1>3, <1>4, <1>5, <1>6, OneProcSteps DEF ProcOK

(* Steps of a refresh without a write: the call stays as it is. *)
LEMMA RefreshMoves ==
  ASSUME RegistryInv, NEW p \in Procs, pc[p] \notin {"select", "insert"},
         NEW where \in States \ {"select", "insert"}, pc' = [pc EXCEPT ![p] = where],
         UNCHANGED <<listing, table, nextId, cache, answers, asked, got>>,
         NEW entries \in SUBSET (Markets \X (1..MaxVersion)),
         todo' = [todo EXCEPT ![p] = entries]
  PROVE  RegistryInv'
<1>1. LocalTypes /\ CallOK(p)
  BY DEF RegistryInv, ProcOK
<1>2. asked[p] # None => got'[p] # None /\ IsIdOf(got'[p], asked[p])
  BY <1>1 DEF CallOK
<1>3. /\ listing' \in [Markets -> 0..MaxVersion]
      /\ todo' \in [Procs -> SUBSET (Markets \X (1..MaxVersion))]
      /\ got' \in [Procs -> Ids \cup {None}] /\ \A q \in Procs \ {p} : got'[q] = got[q]
  BY <1>1 DEF LocalTypes
<1>4. QED  BY <1>2, <1>3, MovesOn

LEMMA ListedIsTyped ==
  ASSUME LocalTypes, NEW group \in SUBSET Markets
  PROVE  Listed(group) \in SUBSET (Markets \X (1..MaxVersion))
<1>1. ASSUME NEW n \in group, listing[n] > 0
      PROVE  <<n, listing[n]>> \in Markets \X (1..MaxVersion)
  <2>1. listing[n] \in 0..MaxVersion  BY DEF LocalTypes
  <2>2. listing[n] \in 1..MaxVersion  BY <1>1, <2>1, RegistryAssumption
  <2>3. QED  BY <2>2
<1>2. QED  BY <1>1 DEF Listed

LEMMA ApiKeeps ==
  ASSUME RegistryInv, NEW p \in Procs, ApiMeta(p) \/ PerpsDone(p) \/ ApiSpotMeta(p)
  PROVE  RegistryInv'
<1>1. LocalTypes /\ Perps \subseteq Markets
  BY RegistryAssumption DEF RegistryInv
<1>2. CASE ApiMeta(p)
  <2>1. Listed(Perps) \in SUBSET (Markets \X (1..MaxVersion))
    BY <1>1, ListedIsTyped
  <2>2. "perps" \in States \ {"select", "insert"}
    BY DEF States
  <2>3. QED  BY <1>2, <2>1, <2>2, RefreshMoves DEF ApiMeta, Goes
<1>3. CASE PerpsDone(p)
  <2>1. todo' = [todo EXCEPT ![p] = todo[p]]
    BY <1>1, <1>3 DEF PerpsDone, LocalTypes
  <2>2. todo[p] \in SUBSET (Markets \X (1..MaxVersion))
    BY <1>1 DEF LocalTypes
  <2>3. "spotMeta" \in States \ {"select", "insert"}
    BY DEF States
  <2>4. QED  BY <1>3, <2>1, <2>2, <2>3, RefreshMoves DEF PerpsDone, Goes
<1>4. CASE ApiSpotMeta(p)
  <2>1. Listed(Markets \ Perps) \in SUBSET (Markets \X (1..MaxVersion))
    BY <1>1, ListedIsTyped
  <2>2. "spots" \in States \ {"select", "insert"}
    BY DEF States
  <2>3. QED  BY <1>4, <2>1, <2>2, RefreshMoves DEF ApiSpotMeta, Goes
<1>5. QED  BY <1>2, <1>3, <1>4

(* The cache of a process that starts is the table. *)
LEMMA LoadKeeps == ASSUME RegistryInv, NEW p \in Procs, LoadMarketsFromDb(p) PROVE RegistryInv'
<1>1. LocalTypes /\ ProcOK(p) /\ TableOK /\ TableOK' /\ KeepsIds
  <2>1. UNCHANGED <<table, nextId>>  BY DEF LoadMarketsFromDb
  <2>2. QED  BY <2>1, SameTable DEF RegistryInv
<1>2. /\ pc[p] = "load" /\ pc' = [pc EXCEPT ![p] = "meta"]
      /\ cache' = [cache EXCEPT ![p] = table]
      /\ UNCHANGED <<listing, table, nextId, asked, got, todo, answers>>
  BY DEF LoadMarketsFromDb, Goes
<1>3. table \in Rows
  BY <1>1 DEF TableOK
<1>4. LocalTypes'
  BY <1>1, <1>2, <1>3 DEF LocalTypes, States
<1>5. Only(p)
  BY <1>1, <1>2 DEF Only, LocalTypes
<1>6. AnswersOK(p)'
  BY <1>1, <1>2, KnowledgeStays
<1>7. CacheOK(p)' /\ CallOK(p)'
  BY <1>1, <1>2 DEF LocalTypes, ProcOK, CacheOK, CallOK, IsIdOf
<1>8. QED  BY <1>1, <1>4, <1>5, <1>6, <1>7, OneProcSteps DEF ProcOK

LEMMA CacheHitKeeps ==
  ASSUME RegistryInv, NEW p \in Procs, NEW m \in Markets, CacheHit(p, m)
  PROVE  RegistryInv'
<1>1. LocalTypes /\ ProcOK(p) /\ TableOK' /\ KeepsIds
  <2>1. UNCHANGED <<table, nextId>>  BY DEF CacheHit
  <2>2. QED  BY <2>1, SameTable DEF RegistryInv
<1>2. PICK id : id = cache[p][m].id
  OBVIOUS
<1>3. /\ answers' = [answers EXCEPT ![p] = answers[p] \cup {<<m, id>>}]
      /\ UNCHANGED <<listing, table, nextId, cache, pc, asked, got, todo>>
  BY <1>2 DEF CacheHit, proc
<1>4. IsIdOf(id, m) /\ id \in Ids
  <2>1. cache[p][m] \in Row
    BY <1>1 DEF CacheHit, LocalTypes, Rows
  <2>2. id \in Ids
    BY <1>2, <2>1 DEF Row, Ids
  <2>3. QED  BY <1>1, <1>2, <2>2 DEF CacheHit, ProcOK, CacheOK
<1>5. answers' \in [Procs -> SUBSET (Markets \X Ids)]
  <2>1. answers[p] \cup {<<m, id>>} \in SUBSET (Markets \X Ids)
    BY <1>1, <1>4 DEF LocalTypes
  <2>2. answers \in [Procs -> SUBSET (Markets \X Ids)]
    BY <1>1 DEF LocalTypes
  <2>3. QED  BY <1>3, <2>1, <2>2
<1>6. LocalTypes'
  BY <1>1, <1>3, <1>5 DEF LocalTypes
<1>7. Only(p)
  BY <1>1, <1>3 DEF Only, LocalTypes
<1>8. CacheOK(p)' /\ CallOK(p)'
  BY <1>1, <1>3, KnowledgeStays
<1>9. AnswersOK(p)'
  <2>1. \A a \in answers'[p] : a \in answers[p] \/ a = <<m, id>>
    BY <1>1, <1>3 DEF LocalTypes
  <2>2. \A a \in answers[p] : IsIdOf(a[2], a[1])
    BY <1>1 DEF ProcOK, AnswersOK
  <2>3. QED  BY <1>3, <1>4, <2>1, <2>2 DEF AnswersOK, IsIdOf
<1>10. QED  BY <1>1, <1>6, <1>7, <1>8, <1>9, OneProcSteps DEF ProcOK

LEMMA SqlSelectKeeps == ASSUME RegistryInv, NEW p \in Procs, SqlSelect(p) PROVE RegistryInv'
<1>1. LocalTypes /\ TableOK /\ asked[p] \in Markets
  BY DEF RegistryInv, ProcOK, CallOK, SqlSelect, LocalTypes
<1>2. UNCHANGED <<listing, table, nextId, cache, answers, asked, todo>>
  BY DEF SqlSelect
<1>3. CASE table[asked[p]] # None
  <2>1. PICK id : id = table[asked[p]].id
    OBVIOUS
  <2>2. pc' = [pc EXCEPT ![p] = "meta"] /\ got' = [got EXCEPT ![p] = id]
    BY <1>3, <2>1 DEF SqlSelect, Goes
  <2>3. id \in Ids /\ id # None /\ IsIdOf(id, asked[p])
    <3>1. table[asked[p]] \in Row
      BY <1>1, <1>3 DEF TableOK, Rows
    <3>2. id \in Ids /\ id # None  BY <2>1, <3>1, RegistryAssumption DEF Row, Ids
    <3>3. QED  BY <1>3, <2>1, <3>2 DEF IsIdOf
  <2>4. got' \in [Procs -> Ids \cup {None}] /\ got'[p] = id
    BY <1>1, <2>2, <2>3 DEF LocalTypes
  <2>5. \A q \in Procs \ {p} : got'[q] = got[q]
    BY <1>1, <2>2 DEF LocalTypes
  <2>6. "meta" \in States \ {"select", "insert"}
    BY DEF States
  <2>7. QED  BY <1>1, <1>2, <2>2, <2>3, <2>4, <2>5, <2>6, MovesOn DEF LocalTypes
<1>4. CASE table[asked[p]] = None
  <2>1. pc' = [pc EXCEPT ![p] = "insert"] /\ got' = got
    BY <1>4 DEF SqlSelect, Goes
  <2>2. asked[p] # None
    BY <1>1, RegistryAssumption
  <2>3. "insert" \in States
    BY DEF States
  <2>4. QED  BY <1>1, <1>2, <2>1, <2>2, <2>3, MovesOn DEF LocalTypes
<1>5. QED  BY <1>3, <1>4

-----------------------------------------------------------------------------
(* The steps that write the table. *)
LEMMA SqlInsertKeeps == ASSUME RegistryInv, NEW p \in Procs, SqlInsert(p) PROVE RegistryInv'
<1> DEFINE m == asked[p]
           r == Placeholder(m)
<1>1. LocalTypes /\ TableOK /\ ProcOK(p) /\ m \in Markets
  BY DEF RegistryInv, ProcOK, CallOK, SqlInsert, LocalTypes
<1>2. nextId \in 1..MaxId /\ nextId' = nextId + 1
  BY <1>1, RegistryAssumption DEF SqlInsert, TakesId, TableOK
<1>3. r \in Row /\ r.id = IF table[m] = None THEN nextId ELSE table[m].id
  <2>1. CASE table[m] = None
    BY <1>2, <2>1, RegistryAssumption DEF Placeholder, Row
  <2>2. CASE table[m] # None
    BY <1>1, <2>2 DEF Placeholder, TableOK, Rows
  <2>3. QED  BY <2>1, <2>2
<1>4. table' = [table EXCEPT ![m] = r]
  BY DEF SqlInsert
<1>5. TableOK' /\ KeepsIds /\ table'[m] = r /\ r # None
  BY <1>1, <1>2, <1>3, <1>4, RowWritten
<1>6. PICK id : id = r.id
  OBVIOUS
<1>7. /\ got' = [got EXCEPT ![p] = id] /\ pc' = [pc EXCEPT ![p] = "meta"]
      /\ UNCHANGED <<listing, cache, asked, todo, answers>>
  BY <1>5, <1>6 DEF SqlInsert, Goes
<1>8. id \in Ids /\ id # None /\ IsIdOf(id, m)'
  BY <1>3, <1>5, <1>6, <1>7, RegistryAssumption DEF Row, Ids, IsIdOf
<1>9. LocalTypes'
  BY <1>1, <1>7, <1>8 DEF LocalTypes, States
<1>10. Only(p)
  BY <1>1, <1>7 DEF Only, LocalTypes
<1>11. CacheOK(p)' /\ AnswersOK(p)'
  BY <1>1, <1>5, <1>7, KnowledgeStays
<1>12. CallOK(p)'
  BY <1>1, <1>7, <1>8 DEF LocalTypes, CallOK, IsIdOf
<1>13. QED  BY <1>5, <1>9, <1>10, <1>11, <1>12, OneProcSteps DEF ProcOK

(* What an upsert writes is a row with the id its market has. *)
LEMMA UpsertedRow ==
  ASSUME RegistryInv, NEW m \in Markets, NEW v \in 1..MaxVersion, TakesId,
         table' = [table EXCEPT ![m] = Upserted(m, v)]
  PROVE  /\ TableOK' /\ KeepsIds
         /\ table'[m] \in Row /\ IsIdOf(table[m].id, m)'
<1> DEFINE r == Upserted(m, v)
<1>1. TableOK
  BY DEF RegistryInv
<1>2. nextId \in 1..MaxId /\ nextId' = nextId + 1
  BY <1>1, RegistryAssumption DEF TakesId, TableOK
<1>3. PICK id : id = IF table[m] = None THEN nextId ELSE table[m].id
  OBVIOUS
<1>4. id \in 1..MaxId
  <2>1. CASE table[m] = None
    BY <1>2, <1>3, <2>1
  <2>2. CASE table[m] # None
    <3>1. table[m] \in Row  BY <1>1, <2>2 DEF TableOK, Rows
    <3>2. QED  BY <1>3, <2>2, <3>1 DEF Row
  <2>3. QED  BY <2>1, <2>2
<1>5. v \in 0..MaxVersion
  BY RegistryAssumption
<1>6. r = [id |-> id, symbol |-> v]
  BY <1>3 DEF Upserted
<1>7. r \in Row /\ r.id = IF table[m] = None THEN nextId ELSE table[m].id
  BY <1>3, <1>4, <1>5, <1>6 DEF Row
<1>8. TableOK' /\ KeepsIds /\ table'[m] = r /\ r # None
  BY <1>1, <1>2, <1>7, RowWritten
<1>9. QED  BY <1>7, <1>8 DEF IsIdOf

LEMMA UpsertKeeps == ASSUME RegistryInv, NEW p \in Procs, UpsertMarket(p) PROVE RegistryInv'
<1>1. LocalTypes /\ ProcOK(p)
  BY DEF RegistryInv
<1>2. PICK entry \in todo[p] :
        /\ table' = [table EXCEPT ![entry[1]] = Upserted(entry[1], entry[2])]
        /\ cache' = [cache EXCEPT ![p][entry[1]] = CachedAs(p, entry[1])]
        /\ todo' = [todo EXCEPT ![p] = @ \ {entry}]
  BY DEF UpsertMarket
<1>3. PICK m, v : m = entry[1] /\ v = entry[2]
  OBVIOUS
<1>4. m \in Markets /\ v \in 1..MaxVersion
  BY <1>1, <1>2, <1>3 DEF LocalTypes
<1>5. TableOK' /\ KeepsIds /\ table'[m] \in Row /\ IsIdOf(table[m].id, m)'
  <2>1. TakesId /\ table' = [table EXCEPT ![m] = Upserted(m, v)]
    BY <1>2, <1>3 DEF UpsertMarket
  <2>2. QED  BY <1>4, <2>1, UpsertedRow
<1>6. PICK row : row = table'[m]
  OBVIOUS
<1>7. cache' = [cache EXCEPT ![p] = [cache[p] EXCEPT ![m] = row]]
  BY <1>1, <1>2, <1>3, <1>6 DEF CachedAs, LocalTypes
<1>8. cache \in [Procs -> Rows] /\ cache[p] \in Rows /\ row \in Row
  BY <1>1, <1>5, <1>6 DEF LocalTypes
<1>9. [cache[p] EXCEPT ![m] = row] \in Rows
  BY <1>4, <1>8 DEF Rows
<1>10. cache' \in [Procs -> Rows] /\ cache'[p] = [cache[p] EXCEPT ![m] = row]
  BY <1>7, <1>8, <1>9
<1>11. UNCHANGED <<listing, pc, asked, got, answers>>
  BY DEF UpsertMarket
<1>12. todo' \in [Procs -> SUBSET (Markets \X (1..MaxVersion))]
  <2>1. todo' = [todo EXCEPT ![p] = todo[p] \ {entry}]
    BY <1>2
  <2>2. todo \in [Procs -> SUBSET (Markets \X (1..MaxVersion))]
    BY <1>1 DEF LocalTypes
  <2>3. QED  BY <2>1, <2>2
<1>13. LocalTypes'
  BY <1>1, <1>10, <1>11, <1>12 DEF LocalTypes
<1>14. Only(p)
  BY <1>7, <1>8, <1>11 DEF Only
<1>15. AnswersOK(p)' /\ CallOK(p)'
  BY <1>1, <1>5, <1>11, KnowledgeStays
<1>16. CacheOK(p)'
  <2> SUFFICES ASSUME NEW n \in Markets, cache'[p][n] # None
               PROVE  IsIdOf(cache[p][n].id, n)'
    BY DEF CacheOK
  <2>1. CASE n = m
    BY <1>5, <1>6, <1>8, <1>10, <2>1 DEF Rows, IsIdOf
  <2>2. CASE n # m
    <3>1. cache'[p][n] = cache[p][n]
      BY <1>8, <1>10, <2>2 DEF Rows
    <3>2. IsIdOf(cache[p][n].id, n)
      BY <1>1, <3>1 DEF ProcOK, CacheOK
    <3>3. QED  BY <1>5, <3>1, <3>2 DEF IsIdOf, KeepsIds
  <2>3. QED  BY <2>1, <2>2
<1>17. QED  BY <1>5, <1>13, <1>14, <1>15, <1>16, OneProcSteps DEF ProcOK

(* A call that ends with its answer. *)
LEMMA AnswersDone ==
  ASSUME RegistryInv, NEW p \in Procs, Answers(p), pc[p] \notin {"select", "insert"},
         UNCHANGED <<listing, cache>>, TableOK', KeepsIds
  PROVE  RegistryInv'
<1>1. LocalTypes /\ ProcOK(p)
  BY DEF RegistryInv
<1>2. /\ Only(p) /\ AnswersOK(p)' /\ CallOK(p)'
      /\ pc' \in [Procs -> States] /\ asked' \in [Procs -> Markets \cup {None}]
      /\ got' \in [Procs -> Ids \cup {None}]
      /\ todo' \in [Procs -> SUBSET (Markets \X (1..MaxVersion))]
      /\ answers' \in [Procs -> SUBSET (Markets \X Ids)]
  BY AnswersKeeps
<1>3. LocalTypes'
  BY <1>1, <1>2 DEF LocalTypes
<1>4. CacheOK(p)'
  BY <1>1, KnowledgeStays
<1>5. QED  BY <1>2, <1>3, <1>4, OneProcSteps DEF ProcOK

LEMMA RefreshEnds ==
  ASSUME RegistryInv, NEW p \in Procs, RefreshDone(p) \/ RefreshError(p)
  PROVE  RegistryInv'
<1>1. CASE RefreshDone(p)
  <2>1. TableOK' /\ KeepsIds
    BY <1>1, SameTable DEF RefreshDone
  <2>2. QED  BY <1>1, <2>1, AnswersDone DEF RefreshDone
<1>2. CASE RefreshError(p)
  <2>1. CASE UNCHANGED <<table, nextId>>
    <3>1. TableOK' /\ KeepsIds
      BY <2>1, SameTable
    <3>2. QED  BY <1>2, <3>1, AnswersDone DEF RefreshError
  <2>2. CASE UpsertLost(p)
    <3>1. PICK entry \in todo[p] :
            /\ TakesId
            /\ table' = [table EXCEPT ![entry[1]] = Upserted(entry[1], entry[2])]
      BY <2>2 DEF UpsertLost
    <3>2. PICK m, v : m = entry[1] /\ v = entry[2]
      OBVIOUS
    <3>3. m \in Markets /\ v \in 1..MaxVersion
      BY <3>1, <3>2 DEF RegistryInv, LocalTypes
    <3>4. table' = [table EXCEPT ![m] = Upserted(m, v)]
      BY <3>1, <3>2
    <3>5. TableOK' /\ KeepsIds
      BY <3>1, <3>3, <3>4, UpsertedRow
    <3>6. QED  BY <1>2, <3>5, AnswersDone DEF RefreshError
  <2>3. QED  BY <1>2, <2>1, <2>2 DEF RefreshError
<1>3. QED  BY <1>1, <1>2

(* A step of the API, of no process. *)
LEMMA RelistKeeps == ASSUME RegistryInv, NEW m \in Markets, Relist(m) PROVE RegistryInv'
<1>1. UNCHANGED <<table, nextId, cache, pc, asked, got, todo, answers>>
  BY DEF Relist, proc
<1>2. listing' \in [Markets -> 0..MaxVersion]
  <2>1. PICK v : v = listing[m] + 1
    OBVIOUS
  <2>2. listing[m] \in 0..MaxVersion /\ listing \in [Markets -> 0..MaxVersion]
    BY DEF RegistryInv, LocalTypes
  <2>3. v \in 0..MaxVersion
    BY <2>1, <2>2, RegistryAssumption DEF Relist
  <2>4. listing' = [listing EXCEPT ![m] = v]
    BY <2>1 DEF Relist
  <2>5. QED  BY <2>2, <2>3, <2>4
<1>3. TableOK' /\ LocalTypes'
  BY <1>1, <1>2 DEF RegistryInv, TableOK, LocalTypes
<1>4. ASSUME NEW p \in Procs PROVE ProcOK(p)'
  BY <1>1 DEF RegistryInv, ProcOK, CacheOK, AnswersOK, CallOK, IsIdOf
<1>5. QED  BY <1>3, <1>4 DEF RegistryInv

-----------------------------------------------------------------------------
LEMMA RegistryNext == RegistryInv /\ [Next]_vars => RegistryInv'
<1> SUFFICES ASSUME RegistryInv, [Next]_vars PROVE RegistryInv'
  OBVIOUS
<1>1. ASSUME NEW m \in Markets, Relist(m) PROVE RegistryInv'
  BY <1>1, RelistKeeps
<1>2. ASSUME NEW p \in Procs, Run(p) PROVE RegistryInv'
  <2>1. CASE Start(p)  BY <2>1, StartKeeps
  <2>2. CASE LoadMarketsFromDb(p)  BY <2>2, LoadKeeps
  <2>3. CASE SqlSelect(p)  BY <2>3, SqlSelectKeeps
  <2>4. CASE SqlInsert(p)  BY <2>4, SqlInsertKeeps
  <2>5. CASE ApiMeta(p) \/ PerpsDone(p) \/ ApiSpotMeta(p)  BY <2>5, ApiKeeps
  <2>6. CASE UpsertMarket(p)  BY <2>6, UpsertKeeps
  <2>7. CASE RefreshDone(p)  BY <2>7, RefreshEnds
  <2>8. QED
    BY <1>2, <2>1, <2>2, <2>3, <2>4, <2>5, <2>6, <2>7 DEF Run
<1>3. ASSUME NEW p \in Procs, Errors(p) PROVE RegistryInv'
  <2>1. CASE SqlError(p)  BY <2>1, CallFailsKeeps DEF SqlError
  <2>2. CASE RefreshError(p)  BY <2>2, RefreshEnds
  <2>3. CASE Crash(p)  BY <2>3, ExitsKeeps DEF Crash
  <2>4. QED  BY <1>3, <2>1, <2>2, <2>3 DEF Errors
<1>4. ASSUME NEW p \in Procs, NEW m \in Markets, Lookup(p, m) PROVE RegistryInv'
  BY <1>4, CacheHitKeeps, CacheMissKeeps DEF Lookup
<1>5. CASE UNCHANGED vars
  <2>1. UNCHANGED <<listing, table, nextId, cache, pc, asked, got, todo, answers>>
    BY <1>5 DEF vars, proc
  <2>2. QED  BY <2>1 DEF RegistryInv, TableOK, LocalTypes, ProcOK, CacheOK,
                         AnswersOK, CallOK, IsIdOf
<1>6. QED  BY <1>1, <1>2, <1>3, <1>4, <1>5 DEF Next

(* A market has one id in every cache, in every answer a process was given    *)
(* and in the table, and no other market has it, for any number of processes  *)
(* and markets.                                                               *)
THEOREM MarketHasOneId == Spec => []OneIdPerMarket
<1>1. RegistryInv => OneIdPerMarket
  <2> SUFFICES ASSUME RegistryInv PROVE OneIdPerMarket
    OBVIOUS
  <2>1. ASSUME NEW p \in Procs, NEW m \in Markets
        PROVE  /\ cache[p][m] # None => table[m] # None /\ cache[p][m].id = table[m].id
               /\ \A id \in 1..MaxId : <<m, id>> \in answers[p] =>
                    table[m] # None /\ id = table[m].id
    BY DEF RegistryInv, ProcOK, CacheOK, AnswersOK, IsIdOf
  <2>2. \A m, n \in Known(table) : table[m].id = table[n].id => m = n
    BY DEF RegistryInv, TableOK, Known
  <2>3. QED  BY <2>1, <2>2 DEF OneIdPerMarket
<1>2. QED  BY <1>1, RegistryInit, RegistryNext, PTL DEF Spec

-----------------------------------------------------------------------------
Stays == \A m \in Known(table) :
           /\ table'[m] # None /\ table'[m].id = table[m].id
           /\ table[m].symbol > 0 => table'[m].symbol > 0

(* A row that is there stays when a step writes it with its own id, as it was *)
(* or with metadata of the API.                                               *)
LEMMA WriteStays ==
  ASSUME RegistryInv, NEW m \in Markets, NEW r,
         table' = [table EXCEPT ![m] = r],
         table[m] # None => r # None /\ r.id = table[m].id
                            /\ (table[m].symbol > 0 => r.symbol > 0)
  PROVE  Stays
<1>1. table \in Rows
  BY DEF RegistryInv, TableOK
<1>2. table'[m] = r /\ \A n \in Markets \ {m} : table'[n] = table[n]
  BY <1>1 DEF Rows
<1>3. QED  BY <1>2 DEF Stays, Known

LEMMA UpsertStays ==
  ASSUME RegistryInv, NEW p \in Procs, NEW entry \in todo[p],
         table' = [table EXCEPT ![entry[1]] = Upserted(entry[1], entry[2])]
  PROVE  Stays
<1>1. PICK m, v : m = entry[1] /\ v = entry[2]
  OBVIOUS
<1>2. m \in Markets /\ v > 0
  BY <1>1 DEF RegistryInv, LocalTypes
<1>3. PICK r : r = Upserted(m, v)
  OBVIOUS
<1>4. table[m] # None => r # None /\ r.id = table[m].id /\ r.symbol = v
  <2> SUFFICES ASSUME table[m] # None
               PROVE  r # None /\ r.id = table[m].id /\ r.symbol = v
    OBVIOUS
  <2>1. PICK id : id = table[m].id
    OBVIOUS
  <2>2. r = [id |-> id, symbol |-> v]
    BY <1>3, <2>1 DEF Upserted
  <2>3. table[m] \in Row /\ v \in 0..MaxVersion
    BY <1>1, <1>2, RegistryAssumption DEF RegistryInv, TableOK, LocalTypes, Rows
  <2>4. r \in Row
    BY <2>1, <2>2, <2>3 DEF Row
  <2>5. QED  BY <2>1, <2>2, <2>4, RegistryAssumption
<1>5. table' = [table EXCEPT ![m] = r]
  BY <1>1, <1>3
<1>6. QED  BY <1>2, <1>4, <1>5, WriteStays

LEMMA StepStays == RegistryInv /\ [Next]_vars => Stays
<1> SUFFICES ASSUME RegistryInv, [Next]_vars PROVE Stays
  OBVIOUS
<1>1. table' = table => Stays
  BY DEF Stays, Known
<1>2. ASSUME NEW p \in Procs, SqlInsert(p) PROVE Stays
  <2>1. asked[p] \in Markets
    BY <1>2 DEF RegistryInv, ProcOK, CallOK, LocalTypes, SqlInsert
  <2>2. PICK r : r = Placeholder(asked[p])
    OBVIOUS
  <2>3. table' = [table EXCEPT ![asked[p]] = r]
    BY <1>2, <2>2 DEF SqlInsert
  <2>4. table[asked[p]] # None => r = table[asked[p]]
    BY <2>2 DEF Placeholder
  <2>5. QED  BY <2>1, <2>3, <2>4, WriteStays
<1>3. ASSUME NEW p \in Procs, UpsertMarket(p) PROVE Stays
  BY <1>3, UpsertStays DEF UpsertMarket
<1>4. ASSUME NEW p \in Procs, RefreshError(p) PROVE Stays
  <2>1. CASE UpsertLost(p)
    BY <2>1, UpsertStays DEF UpsertLost
  <2>2. QED  BY <1>1, <1>4, <2>1 DEF RefreshError
<1>5. ASSUME NEW p \in Procs, Run(p) PROVE Stays
  BY <1>1, <1>2, <1>3, <1>5 DEF Run, Start, LoadMarketsFromDb, SqlSelect, ApiMeta,
     PerpsDone, ApiSpotMeta, RefreshDone
<1>6. ASSUME NEW p \in Procs, Errors(p) PROVE Stays
  BY <1>1, <1>4, <1>6 DEF Errors, SqlError, Crash
<1>7. ASSUME NEW p \in Procs, NEW m \in Markets, Lookup(p, m) PROVE Stays
  BY <1>1, <1>7 DEF Lookup, CacheHit, CacheMiss
<1>8. QED
  BY <1>1, <1>5, <1>6, <1>7 DEF Next, Relist, vars

(* No step of any process changes the id of a row, or turns metadata of the   *)
(* API back into a placeholder.                                               *)
THEOREM MetadataIsKept == Spec => MetadataStays
<1>1. RegistryInv /\ [Next]_vars =>
        [\A m \in Known(table) :
           /\ table'[m] # None /\ table'[m].id = table[m].id
           /\ table[m].symbol > 0 => table'[m].symbol > 0]_vars
  BY StepStays DEF Stays
<1>2. QED  BY <1>1, RegistryInit, RegistryNext, PTL DEF Spec, MetadataStays

-----------------------------------------------------------------------------
(* Between a refresh and the next: every answer of the API that is not left   *)
(* to be upserted is in the cache and in the table.                           *)
InEffect(p, e) ==
  /\ cache[p][e[1]] # None /\ cache[p][e[1]].symbol = e[2]
  /\ table[e[1]] # None /\ table[e[1]].symbol > 0

(* The two answers of a refresh are of different markets, so that an upsert   *)
(* never takes away what another one did.                                     *)
EffectOK(p) ==
  /\ todo[p] \subseteq fetched[p]
  /\ \A e, f \in fetched[p] : e[1] = f[1] => e = f
  /\ pc[p] \in {"off", "load"} => fetched[p] = {}
  /\ pc[p] \notin {"perps", "spots"} => todo[p] = {}
  /\ pc[p] \in {"perps", "spotMeta"} => \A e \in fetched[p] : e[1] \in Perps
  /\ \A e \in fetched[p] \ todo[p] : InEffect(p, e)

Entries == SUBSET (Markets \X (1..MaxVersion))

EffectInv == /\ fetched \in [Procs -> Entries] /\ faults \in Nat
             /\ \A p \in Procs : EffectOK(p)

LEMMA EffectInit == Init => EffectInv
  BY DEF Init, EffectInv, EffectOK, Entries

(* What is in effect stays so while the process does not touch its cache: no  *)
(* other process takes a row or its metadata away.                            *)
LEMMA EffectStays ==
  ASSUME Stays, NEW p \in Procs, NEW e \in Markets \X (1..MaxVersion), InEffect(p, e),
         cache'[p][e[1]] = cache[p][e[1]]
  PROVE  InEffect(p, e)'
  BY DEF InEffect, Stays, Known

(* A step of process p: the others keep what they have. *)
OthersKeep(p) ==
  \A q \in Procs \ {p} : /\ cache'[q] = cache[q] /\ pc'[q] = pc[q]
                         /\ todo'[q] = todo[q] /\ fetched'[q] = fetched[q]

LEMMA OneProcEffect ==
  ASSUME EffectInv, Stays, NEW p \in Procs, OthersKeep(p), EffectOK(p)',
         fetched' \in [Procs -> Entries], faults' \in Nat
  PROVE  EffectInv'
<1>1. ASSUME NEW q \in Procs \ {p}
      PROVE  EffectOK(q)'
  <2>1. EffectOK(q) /\ fetched[q] \in Entries
    BY DEF EffectInv
  <2>2. /\ cache'[q] = cache[q] /\ pc'[q] = pc[q]
        /\ todo'[q] = todo[q] /\ fetched'[q] = fetched[q]
    BY DEF OthersKeep
  <2>3. \A e \in fetched[q] \ todo[q] : InEffect(q, e)'
    BY <2>1, <2>2, EffectStays DEF EffectOK, Entries
  <2>4. QED  BY <2>1, <2>2, <2>3 DEF EffectOK
<1>2. QED  BY <1>1 DEF EffectInv

(* A step that neither asks the API nor upserts. *)
LEMMA EffectMoves ==
  ASSUME RegistryInv, EffectInv, Stays, NEW p \in Procs, NEW where \in States,
         UNCHANGED <<cache, fetched>>, pc' = [pc EXCEPT ![p] = where],
         todo' = todo \/ (todo[p] = {} /\ todo' = [todo EXCEPT ![p] = {}]),
         where \in {"off", "load"} => fetched[p] = {},
         where \notin {"perps", "spots"} => todo[p] = {},
         where \in {"perps", "spotMeta"} => \A e \in fetched[p] : e[1] \in Perps,
         faults' \in Nat
  PROVE  EffectInv'
<1>1. pc \in [Procs -> States] /\ todo \in [Procs -> Entries]
  BY DEF RegistryInv, LocalTypes, Entries
<1>2. todo' = todo
  BY <1>1
<1>3. EffectOK(p) /\ fetched \in [Procs -> Entries]
  BY DEF EffectInv
<1>4. \A e \in fetched[p] \ todo[p] : InEffect(p, e)'
  BY <1>3, EffectStays DEF EffectOK, Entries
<1>5. EffectOK(p)'
  BY <1>1, <1>2, <1>3, <1>4 DEF EffectOK
<1>6. OthersKeep(p)
  BY <1>1, <1>2 DEF OthersKeep
<1>7. QED  BY <1>3, <1>5, <1>6, OneProcEffect

(* A refresh that fails and a process that exits know of no answer. *)
LEMMA EffectCleared ==
  ASSUME RegistryInv, EffectInv, Stays, NEW p \in Procs, NEW where \in States,
         pc' = [pc EXCEPT ![p] = where], todo' = [todo EXCEPT ![p] = {}],
         fetched' = [fetched EXCEPT ![p] = {}],
         \A q \in Procs \ {p} : cache'[q] = cache[q], faults' \in Nat
  PROVE  EffectInv'
<1>1. /\ pc \in [Procs -> States] /\ todo \in [Procs -> Entries]
      /\ fetched \in [Procs -> Entries]
  BY DEF RegistryInv, LocalTypes, EffectInv, Entries
<1>2. EffectOK(p)'
  BY <1>1 DEF EffectOK
<1>3. OthersKeep(p) /\ fetched' \in [Procs -> Entries]
  BY <1>1 DEF OthersKeep, Entries
<1>4. QED  BY <1>2, <1>3, OneProcEffect

-----------------------------------------------------------------------------
(* The answers of the API, and the upserts. *)
LEMMA ListedOnce ==
  ASSUME NEW group \in SUBSET Markets
  PROVE  \A e \in Listed(group) : e[1] \in group /\ e = <<e[1], listing[e[1]]>>
  BY DEF Listed

LEMMA ApiEffect ==
  ASSUME RegistryInv, EffectInv, Stays, NEW p \in Procs, ApiMeta(p) \/ ApiSpotMeta(p)
  PROVE  EffectInv'
<1>1. /\ pc \in [Procs -> States] /\ todo \in [Procs -> Entries]
      /\ fetched \in [Procs -> Entries] /\ LocalTypes /\ faults \in Nat /\ EffectOK(p)
  BY DEF RegistryInv, LocalTypes, EffectInv, Entries
<1>2. UNCHANGED <<table, cache, faults>>
  BY DEF ApiMeta, ApiSpotMeta
<1>3. CASE ApiMeta(p)
  <2>1. PICK new : new = Listed(Perps)
    OBVIOUS
  <2>2. new \in Entries /\ \A e \in new : e[1] \in Perps /\ e = <<e[1], listing[e[1]]>>
    BY <1>1, <2>1, ListedIsTyped, ListedOnce, RegistryAssumption DEF Entries
  <2>3. /\ pc' = [pc EXCEPT ![p] = "perps"] /\ todo' = [todo EXCEPT ![p] = new]
        /\ fetched' = [fetched EXCEPT ![p] = new]
    BY <1>3, <2>1 DEF ApiMeta, Goes
  <2>4. \A e, f \in new : e[1] = f[1] => e = f
    BY <2>2
  <2>5. pc'[p] = "perps" /\ todo'[p] = new /\ fetched'[p] = new
    BY <1>1, <2>3
  <2>6. EffectOK(p)'
    BY <2>2, <2>4, <2>5 DEF EffectOK
  <2>7. OthersKeep(p) /\ fetched' \in [Procs -> Entries]
    BY <1>1, <1>2, <2>2, <2>3 DEF OthersKeep
  <2>8. QED  BY <1>1, <1>2, <2>6, <2>7, OneProcEffect
<1>4. CASE ApiSpotMeta(p)
  <2>1. PICK new : new = Listed(Markets \ Perps)
    OBVIOUS
  <2>2. /\ new \in Entries
        /\ \A e \in new : e[1] \in Markets \ Perps /\ e = <<e[1], listing[e[1]]>>
    BY <1>1, <2>1, ListedIsTyped, ListedOnce DEF Entries
  <2>3. PICK all : all = fetched[p] \cup new
    OBVIOUS
  <2>4. /\ pc' = [pc EXCEPT ![p] = "spots"] /\ todo' = [todo EXCEPT ![p] = new]
        /\ fetched' = [fetched EXCEPT ![p] = all]
    BY <1>4, <2>1, <2>3 DEF ApiSpotMeta, Goes
  <2>5. todo[p] = {} /\ \A e \in fetched[p] : e[1] \in Perps
    BY <1>1, <1>4 DEF EffectOK, ApiSpotMeta
  <2>6. all \in Entries /\ \A e, f \in all : e[1] = f[1] => e = f
    <3>1. \A e \in fetched[p], f \in new : e[1] # f[1]
      BY <2>2, <2>5
    <3>2. \A e, f \in new : e[1] = f[1] => e = f
      BY <2>2
    <3>3. \A e, f \in fetched[p] : e[1] = f[1] => e = f
      BY <1>1 DEF EffectOK
    <3>4. QED  BY <1>1, <2>2, <2>3, <3>1, <3>2, <3>3 DEF Entries
  <2>7. pc'[p] = "spots" /\ todo'[p] = new /\ fetched'[p] = all
    BY <1>1, <2>4
  <2>8. \A e \in all \ new : InEffect(p, e)'
    <3>1. \A e \in all \ new : e \in Markets \X (1..MaxVersion) /\ InEffect(p, e)
      BY <1>1, <2>3, <2>5 DEF EffectOK, Entries
    <3>2. QED  BY <1>2, <3>1, EffectStays
  <2>9. EffectOK(p)'
    BY <2>3, <2>6, <2>7, <2>8 DEF EffectOK
  <2>10. OthersKeep(p) /\ fetched' \in [Procs -> Entries]
    BY <1>1, <1>2, <2>4, <2>6 DEF OthersKeep
  <2>11. QED  BY <1>1, <1>2, <2>9, <2>10, OneProcEffect
<1>5. QED  BY <1>3, <1>4

LEMMA UpsertEffect ==
  ASSUME RegistryInv, EffectInv, Stays, NEW p \in Procs, UpsertMarket(p)
  PROVE  EffectInv'
<1>1. /\ pc \in [Procs -> States] /\ todo \in [Procs -> Entries] /\ faults \in Nat
      /\ fetched \in [Procs -> Entries] /\ cache \in [Procs -> Rows] /\ EffectOK(p)
  BY DEF RegistryInv, LocalTypes, EffectInv, Entries
<1>2. PICK entry \in todo[p] :
        /\ table' = [table EXCEPT ![entry[1]] = Upserted(entry[1], entry[2])]
        /\ cache' = [cache EXCEPT ![p][entry[1]] = CachedAs(p, entry[1])]
        /\ todo' = [todo EXCEPT ![p] = @ \ {entry}]
  BY DEF UpsertMarket
<1>3. PICK m, v : m = entry[1] /\ v = entry[2]
  OBVIOUS
<1>4. entry \in fetched[p] /\ m \in Markets /\ v \in 1..MaxVersion
  BY <1>1, <1>2, <1>3 DEF EffectOK, Entries
<1>5. PICK row : row = table'[m]
  OBVIOUS
<1>6. row \in Row /\ row # None /\ row.symbol = v
  <2>1. TakesId /\ table' = [table EXCEPT ![m] = Upserted(m, v)]
    BY <1>2, <1>3 DEF UpsertMarket
  <2>2. row \in Row
    BY <1>4, <1>5, <2>1, UpsertedRow
  <2>3. row = Upserted(m, v)
    BY <1>4, <1>5, <2>1 DEF RegistryInv, TableOK, Rows
  <2>4. PICK id : id = IF table[m] = None THEN nextId ELSE table[m].id
    OBVIOUS
  <2>5. row = [id |-> id, symbol |-> v]
    BY <2>3, <2>4 DEF Upserted
  <2>6. QED  BY <2>2, <2>5, RegistryAssumption
<1>7. cache'[p] = [cache[p] EXCEPT ![m] = row] /\ cache[p] \in Rows
      /\ \A q \in Procs \ {p} : cache'[q] = cache[q]
  <2>1. cache' = [cache EXCEPT ![p] = [cache[p] EXCEPT ![m] = row]]
    BY <1>1, <1>2, <1>3, <1>5 DEF CachedAs
  <2>2. QED  BY <1>1, <2>1
<1>8. cache'[p][m] = row /\ \A n \in Markets \ {m} : cache'[p][n] = cache[p][n]
  BY <1>4, <1>7 DEF Rows
<1>9. UNCHANGED <<pc, fetched, faults>> /\ pc[p] \in {"perps", "spots"}
  BY DEF UpsertMarket
<1>10. todo'[p] = todo[p] \ {entry}
  BY <1>1, <1>2
<1>11. InEffect(p, entry)'
  BY <1>3, <1>4, <1>5, <1>6, <1>8 DEF InEffect
<1>12. ASSUME NEW e \in fetched[p] \ todo[p]
       PROVE  InEffect(p, e)'
  <2>1. e # entry /\ e[1] # m
    BY <1>1, <1>2, <1>3, <1>4 DEF EffectOK
  <2>2. e \in Markets \X (1..MaxVersion) /\ InEffect(p, e)
    BY <1>1 DEF EffectOK, Entries
  <2>3. cache'[p][e[1]] = cache[p][e[1]]
    BY <1>8, <2>1, <2>2
  <2>4. QED  BY <2>2, <2>3, EffectStays
<1>13. EffectOK(p)'
  BY <1>1, <1>9, <1>10, <1>11, <1>12 DEF EffectOK
<1>14. OthersKeep(p)
  BY <1>1, <1>2, <1>7, <1>9 DEF OthersKeep
<1>15. QED  BY <1>1, <1>9, <1>13, <1>14, OneProcEffect

LEMMA LoadEffect ==
  ASSUME RegistryInv, EffectInv, Stays, NEW p \in Procs, LoadMarketsFromDb(p)
  PROVE  EffectInv'
<1>1. /\ pc \in [Procs -> States] /\ todo \in [Procs -> Entries] /\ faults \in Nat
      /\ fetched \in [Procs -> Entries] /\ cache \in [Procs -> Rows] /\ EffectOK(p)
  BY DEF RegistryInv, LocalTypes, EffectInv, Entries
<1>2. pc[p] = "load" /\ pc' = [pc EXCEPT ![p] = "meta"]
      /\ cache' = [cache EXCEPT ![p] = table] /\ UNCHANGED <<todo, fetched, faults>>
  BY DEF LoadMarketsFromDb, Goes
<1>3. fetched[p] = {} /\ todo[p] = {}
  BY <1>1, <1>2 DEF EffectOK
<1>4. EffectOK(p)'
  BY <1>1, <1>2, <1>3 DEF EffectOK
<1>5. OthersKeep(p)
  BY <1>1, <1>2 DEF OthersKeep
<1>6. QED  BY <1>1, <1>2, <1>4, <1>5, OneProcEffect

LEMMA FaultCounts == ASSUME faults \in Nat, Fault PROVE faults' \in Nat
  BY DEF Fault

LEMMA EffectNext == RegistryInv /\ EffectInv /\ [Next]_vars => EffectInv'
<1> SUFFICES ASSUME RegistryInv, EffectInv, [Next]_vars PROVE EffectInv'
  OBVIOUS
<1>1. Stays /\ faults \in Nat /\ \A p \in Procs : EffectOK(p)
  BY StepStays DEF EffectInv
<1>2. UNCHANGED <<cache, pc, todo, fetched, faults>> => EffectInv'
  <2> SUFFICES ASSUME UNCHANGED <<cache, pc, todo, fetched, faults>> PROVE EffectInv'
    OBVIOUS
  <2>1. ASSUME NEW p \in Procs PROVE EffectOK(p)'
    <3>1. \A e \in fetched[p] \ todo[p] : InEffect(p, e)'
      BY <1>1, EffectStays DEF EffectInv, EffectOK, Entries
    <3>2. QED  BY <1>1, <3>1 DEF EffectOK
  <2>2. QED  BY <2>1 DEF EffectInv
<1>3. ASSUME NEW m \in Markets, Relist(m) PROVE EffectInv'
  BY <1>2, <1>3 DEF Relist, proc
<1>4. ASSUME NEW p \in Procs, Start(p) \/ SqlSelect(p) \/ SqlInsert(p) \/ PerpsDone(p)
      PROVE  EffectInv'
  <2>1. PICK where \in {"load", "meta", "insert", "spotMeta"} :
          /\ pc' = [pc EXCEPT ![p] = where]
          /\ where = "load" => pc[p] = "off"
          /\ where = "spotMeta" => pc[p] = "perps" /\ todo[p] = {}
          /\ where \notin {"load", "spotMeta"} => pc[p] \in {"select", "insert"}
    BY <1>4 DEF Start, SqlSelect, SqlInsert, PerpsDone, Goes
  <2>2. UNCHANGED <<cache, todo, fetched, faults>>
    BY <1>4 DEF Start, SqlSelect, SqlInsert, PerpsDone
  <2>3. where \in States /\ EffectOK(p)
    BY <1>1 DEF States
  <2>4. /\ where \in {"off", "load"} => fetched[p] = {}
        /\ where \notin {"perps", "spots"} => todo[p] = {}
        /\ where \in {"perps", "spotMeta"} => \A e \in fetched[p] : e[1] \in Perps
    BY <2>1, <2>3 DEF EffectOK
  <2>5. QED  BY <1>1, <2>1, <2>2, <2>3, <2>4, EffectMoves
<1>5. ASSUME NEW p \in Procs, RefreshDone(p) \/ SqlError(p)
      PROVE  EffectInv'
  <2>1. /\ pc' = [pc EXCEPT ![p] = "idle"] /\ todo' = [todo EXCEPT ![p] = {}]
        /\ UNCHANGED <<cache, fetched>>
    BY <1>5 DEF RefreshDone, SqlError, Answers, CallFails, Goes
  <2>2. todo[p] = {}
    BY <1>1, <1>5 DEF RefreshDone, SqlError, EffectOK
  <2>3. faults' \in Nat
    BY <1>1, <1>5, FaultCounts DEF RefreshDone, SqlError
  <2>4. "idle" \in States
    BY DEF States
  <2>5. QED  BY <1>1, <2>1, <2>2, <2>3, <2>4, EffectMoves
<1>6. ASSUME NEW p \in Procs, RefreshError(p) \/ Crash(p)
      PROVE  EffectInv'
  <2>1. PICK where \in {"off", "idle"} : pc' = [pc EXCEPT ![p] = where]
    BY <1>6 DEF RefreshError, Crash, Answers, Exits, Goes
  <2>2. todo' = [todo EXCEPT ![p] = {}] /\ fetched' = [fetched EXCEPT ![p] = {}]
    BY <1>6 DEF RefreshError, Crash, Answers, Exits
  <2>3. \A q \in Procs \ {p} : cache'[q] = cache[q]
    BY <1>6 DEF RefreshError, Crash, Exits, RegistryInv, LocalTypes
  <2>4. faults' \in Nat
    BY <1>1, <1>6, FaultCounts DEF RefreshError, Crash
  <2>5. where \in States
    BY DEF States
  <2>6. QED  BY <1>1, <2>1, <2>2, <2>3, <2>4, <2>5, EffectCleared
<1>7. ASSUME NEW p \in Procs, NEW m \in Markets, Lookup(p, m)
      PROVE  EffectInv'
  <2>1. CASE CacheHit(p, m)
    BY <1>2, <2>1 DEF CacheHit, proc
  <2>2. CASE CacheMiss(p, m)
    <3>1. pc' = [pc EXCEPT ![p] = "select"] /\ UNCHANGED <<cache, todo, fetched, faults>>
      BY <2>2 DEF CacheMiss, Goes
    <3>2. todo[p] = {} /\ "select" \in States
      BY <1>1, <2>2 DEF CacheMiss, EffectOK, States
    <3>3. QED  BY <1>1, <3>1, <3>2, EffectMoves
  <2>3. QED  BY <1>7, <2>1, <2>2 DEF Lookup
<1>8. ASSUME NEW p \in Procs, Run(p) PROVE EffectInv'
  BY <1>1, <1>4, <1>5, <1>8, ApiEffect, UpsertEffect, LoadEffect DEF Run
<1>9. ASSUME NEW p \in Procs, Errors(p) PROVE EffectInv'
  BY <1>5, <1>6, <1>9 DEF Errors
<1>10. CASE UNCHANGED vars
  BY <1>2, <1>10 DEF vars, proc
<1>11. QED  BY <1>3, <1>7, <1>8, <1>9, <1>10 DEF Next

(* When no call is in progress and the last refresh ended well, every market  *)
(* it was told of is in the cache with that metadata and is no placeholder in *)
(* the table, for any number of processes that look up, refresh, fail and     *)
(* crash meanwhile (market.rs:134-196).                                       *)
THEOREM RefreshIsEffective == Spec => []RefreshTakesEffect
<1>1. EffectInv => RefreshTakesEffect
  BY DEF EffectInv, EffectOK, InEffect, RefreshTakesEffect
<1>2. QED
  BY <1>1, RegistryInit, RegistryNext, EffectInit, EffectNext, PTL DEF Spec

-----------------------------------------------------------------------------
(* The sequence never goes past its end, and at first it is not: the ids of   *)
(* the rows are as many as the rows.                                          *)
LEMMA FirstId == ASSUME Init PROVE nextId <= MaxId + 1
<1> DEFINE f == [m \in Known(table) |-> table[m].id]
<1>1. table \in Rows /\ table \in Tables /\ MaxId \in Nat
  BY RegistryAssumption DEF Init, Rows
<1>2. IsFiniteSet(Ids) /\ Cardinality(Ids) = MaxId
  BY <1>1, RegistryAssumption, FS_Interval DEF Ids
<1>3. \A m \in Known(table) : table[m].id \in Ids
  BY <1>1 DEF Known, Rows, Row, Ids
<1>4. \A m, n \in Known(table) : table[m].id = table[n].id => m = n
  BY <1>1, RegistryAssumption DEF Known
<1>5. Known(table) \subseteq Markets /\ IsFiniteSet(Known(table))
  BY RegistryAssumption, FS_Subset DEF Known
<1>6. Cardinality(Known(table)) \in Nat
  BY <1>5, FS_CardinalityType
<1>7. ~(MaxId < Cardinality(Known(table)))
  <2>1. SUFFICES ASSUME MaxId < Cardinality(Known(table)) PROVE FALSE
    OBVIOUS
  <2>2. f \in [Known(table) -> Ids]
    BY <1>3
  <2>3. Cardinality(Ids) < Cardinality(Known(table))
    BY <1>2, <2>1
  <2>4. \E m, n \in Known(table) : m # n /\ f[m] = f[n]
    <3> HIDE DEF f
    <3>1. QED  BY <1>2, <1>5, <2>2, <2>3, FS_PigeonHole
  <2>5. QED  BY <1>4, <2>4
<1>8. QED  BY <1>1, <1>6, <1>7 DEF Init

LEMMA NextIdBounded ==
  ASSUME RegistryInv, nextId <= MaxId + 1, [Next]_vars
  PROVE  nextId' <= MaxId + 1
<1>1. TakesId => nextId' <= MaxId + 1
  BY RegistryAssumption DEF TakesId, RegistryInv, TableOK
<1>2. nextId' = nextId \/ TakesId
  BY DEF Next, Run, Errors, Lookup, Relist, Start, LoadMarketsFromDb, SqlSelect,
         SqlInsert, ApiMeta, PerpsDone, ApiSpotMeta, UpsertMarket, RefreshDone,
         SqlError, RefreshError, UpsertLost, Crash, CacheHit, CacheMiss, vars
<1>3. QED  BY <1>1, <1>2

(* Every variable keeps its type: ids are of the column's range however often *)
(* the sequence is drawn from, and a call that is not at its SQL has the id   *)
(* it will answer (market.rs:243-267).                                        *)
THEOREM RegistryTypes == Spec => []TypeOK
<1>1. ASSUME RegistryInv, EffectInv, nextId <= MaxId + 1
      PROVE  TypeOK
  <2>1. nextId \in 1..(MaxId + 1)
    BY <1>1, RegistryAssumption DEF RegistryInv, TableOK
  <2>2. \A p \in Procs :
          /\ pc[p] \in {"select", "insert"} => asked[p] # None
          /\ asked[p] # None /\ pc[p] \notin {"select", "insert"} => got[p] # None
    BY <1>1 DEF RegistryInv, ProcOK, CallOK
  <2>3. QED  BY <1>1, <2>1, <2>2 DEF TypeOK, RegistryInv, TableOK, LocalTypes, EffectInv,
                                     Rows, States, Ids, Entries
<1> DEFINE Inv == RegistryInv /\ EffectInv /\ nextId <= MaxId + 1
<1>2. Init => Inv
  BY RegistryInit, EffectInit, FirstId
<1>3. Inv /\ [Next]_vars => Inv'
  BY RegistryNext, EffectNext, NextIdBounded
<1>4. Inv => TypeOK
  BY <1>1
<1>5. QED  BY <1>2, <1>3, <1>4, PTL DEF Spec
=============================================================================
