----------------------------- MODULE StoreProofs -----------------------------
(***************************************************************************)
(* Ownership of rows, and what Ok means, for any writers and batches.      *)
(***************************************************************************)
EXTENDS Store, FiniteSetTheorems, SequenceTheorems, TLAPS

(* A row has one inserter: an open transaction only holds rows that are not   *)
(* committed, nor held by another; and a call counts rows it committed.       *)
Ownership ==
  /\ Initial \subseteq table
  /\ \A w \in Writers : /\ own[w] \subseteq table /\ own[w] \cap Initial = {}
                        /\ held[w] \cap table = {}
                        /\ IsFiniteSet(own[w]) /\ IsFiniteSet(held[w])
                        /\ inserted[w] <= Cardinality(own[w])
                        /\ \A v \in Writers \ {w} : /\ own[w] \cap own[v] = {}
                                                    /\ held[w] \cap held[v] = {}

(* The rows before the open transaction are in the table, those it has passed *)
(* are there or held.                                                         *)
Progress(w) ==
  /\ 1 <= chunk[w] /\ chunk[w] <= txStart[w] /\ txStart[w] <= row[w]
  /\ chunk[w] <= Size(w)
  /\ RowsTo(w, txStart[w] - 1) \subseteq table
  /\ pc[w] = "insert" => /\ row[w] <= TxEnd(w)
                         /\ RowsTo(w, row[w] - 1) \subseteq table \cup held[w]
  /\ pc[w] = "commit" => RowsTo(w, TxEnd(w)) \subseteq table \cup held[w]
  /\ pc[w] = "ok" => Rows(w) \subseteq table

IInv == TypeOK /\ Ownership /\ \A w \in Writers : Progress(w)

-----------------------------------------------------------------------------
(* Ends of chunks and transactions. *)
LEMMA Ends ==
  ASSUME TypeOK, NEW w \in Writers, 1 <= chunk[w], chunk[w] <= Size(w)
  PROVE  /\ Size(w) \in Nat /\ ChunkEnd(w) \in Nat /\ TxEnd(w) \in Nat
         /\ chunk[w] <= ChunkEnd(w) /\ ChunkEnd(w) <= Size(w)
         /\ TxEnd(w) <= ChunkEnd(w)
         /\ txStart[w] <= ChunkEnd(w) => txStart[w] <= TxEnd(w) \/ path[w] = "copy"
BY StoreAssumption DEF TypeOK, Size, ChunkEnd, TxEnd, Least

LEMMA InitInv == Init => IInv
<1> SUFFICES ASSUME Init PROVE IInv
  OBVIOUS
<1>1. TypeOK
  BY StoreAssumption DEF Init, TypeOK
<1>2. Ownership
  BY FS_EmptySet DEF Init, Ownership
<1>3. ASSUME NEW w \in Writers PROVE Progress(w)
  <2>1. Size(w) \in Nat /\ Size(w) >= 1
    BY StoreAssumption DEF Size
  <2>2. RowsTo(w, 0) = {}
    BY DEF RowsTo
  <2>3. TxEnd(w) >= 1
    BY <2>1, StoreAssumption DEF Init, TxEnd, ChunkEnd, Least
  <2> QED BY <2>1, <2>2, <2>3 DEF Init, Progress
<1> QED BY <1>1, <1>2, <1>3 DEF IInv

(* A writer that takes no step keeps its progress while the table grows and   *)
(* what it holds is not lost.                                                 *)
LEMMA OthersKeep ==
  ASSUME NEW v \in Writers, Progress(v), table \subseteq table',
         held'[v] = held[v], pc'[v] = pc[v], path'[v] = path[v],
         chunk'[v] = chunk[v], txStart'[v] = txStart[v], row'[v] = row[v]
  PROVE  Progress(v)'
<1>1. TxEnd(v)' = TxEnd(v)
  BY DEF TxEnd, ChunkEnd
<1> QED BY <1>1 DEF Progress

(* A transaction opened at row t, all rows before it being in the table. *)
LEMMA OpensProgress ==
  ASSUME TypeOK, NEW w \in Writers, NEW p \in {"copy", "values"},
         NEW c \in Nat, NEW t \in Nat, 1 <= c, c <= t,
         t <= Least(c + ChunkSize - 1, Size(w)),
         Opens(w, p, c, t), pc' = [pc EXCEPT ![w] = "insert"],
         RowsTo(w, t - 1) \subseteq table'
  PROVE  Progress(w)'
<1>1. /\ chunk'[w] = c /\ txStart'[w] = t /\ row'[w] = t /\ path'[w] = p
      /\ pc'[w] = "insert"
  BY DEF Opens, TypeOK
<1>2. Size(w) \in Nat /\ ChunkSize \in Nat /\ RowsPerTx \in Nat \ {0}
  BY StoreAssumption DEF Size
<1>3. c <= Size(w) /\ t <= TxEnd(w)'
  BY <1>1, <1>2 DEF TxEnd, ChunkEnd, Least
<1> QED BY <1>1, <1>3 DEF Progress

LEMMA OpensTypes ==
  ASSUME TypeOK, NEW w \in Writers, NEW p \in {"copy", "values"},
         NEW c \in Nat, NEW t \in Nat, Opens(w, p, c, t)
  PROVE  /\ path' \in [Writers -> {"copy", "values"}]
         /\ chunk' \in [Writers -> Nat] /\ txStart' \in [Writers -> Nat]
         /\ row' \in [Writers -> Nat]
         /\ \A v \in Writers \ {w} :
              /\ path'[v] = path[v] /\ chunk'[v] = chunk[v]
              /\ txStart'[v] = txStart[v] /\ row'[v] = row[v]
BY DEF Opens, TypeOK

(* After an error the writer starts the chunk or the batch again, or fails. *)
LEMMA AfterErrorProgress ==
  ASSUME IInv, NEW w \in Writers, AfterError(w), table \subseteq table'
  PROVE  /\ Progress(w)'
         /\ \A v \in Writers \ {w} :
              /\ pc'[v] = pc[v] /\ path'[v] = path[v] /\ chunk'[v] = chunk[v]
              /\ txStart'[v] = txStart[v] /\ row'[v] = row[v]
         /\ pc' \in [Writers -> {"insert", "commit", "ok", "failed"}]
         /\ path' \in [Writers -> {"copy", "values"}]
         /\ chunk' \in [Writers -> Nat] /\ txStart' \in [Writers -> Nat]
         /\ row' \in [Writers -> Nat] /\ attempts' \in [Writers -> Nat]
         /\ inserted' = inserted \/ inserted' = [inserted EXCEPT ![w] = 0]
<1> USE DEF IInv
<1>1. Progress(w) /\ TypeOK
  OBVIOUS
<1>2. Size(w) \in Nat /\ ChunkSize \in Nat \ {0}
  BY StoreAssumption DEF Size
<1>3. chunk[w] \in Nat /\ 1 <= chunk[w] /\ chunk[w] <= Size(w)
      /\ txStart[w] \in Nat /\ chunk[w] <= txStart[w]
  BY <1>1 DEF Progress, TypeOK
<1>4. CASE path[w] = "copy"
  <2>1. /\ pc' = [pc EXCEPT ![w] = "insert"] /\ Opens(w, "values", chunk[w], chunk[w])
        /\ UNCHANGED <<inserted, attempts>>
    BY <1>4 DEF AfterError, FallsBack
  <2>2. RowsTo(w, chunk[w] - 1) \subseteq table'
    BY <1>1, <1>3 DEF Progress, RowsTo
  <2>3. chunk[w] <= Least(chunk[w] + ChunkSize - 1, Size(w))
    BY <1>2, <1>3 DEF Least
  <2>4. Progress(w)'
    <3>1. chunk[w] <= chunk[w] /\ "values" \in {"copy", "values"}
      BY <1>3
    <3> QED BY <1>1, <1>3, <2>1, <2>2, <2>3, <3>1, OpensProgress, Zenon
  <2>5. pc' \in [Writers -> {"insert", "commit", "ok", "failed"}]
        /\ (\A v \in Writers \ {w} : pc'[v] = pc[v]) /\ attempts' \in [Writers -> Nat]
    BY <1>1, <2>1 DEF TypeOK
  <2> QED BY <1>1, <1>3, <2>1, <2>4, <2>5, OpensTypes
<1>5. CASE path[w] # "copy" /\ pc' = [pc EXCEPT ![w] = "insert"] /\ Opens(w, "copy", 1, 1)
           /\ attempts' = [attempts EXCEPT ![w] = @ + 1]
           /\ inserted' = [inserted EXCEPT ![w] = CountAtStart(w)]
  <2>1. RowsTo(w, 1 - 1) \subseteq table'
    BY DEF RowsTo
  <2>2. 1 <= Least(1 + ChunkSize - 1, Size(w))
    BY <1>2, <1>3 DEF Least
  <2>3. Progress(w)'
    <3>1. 1 <= 1 /\ 1 \in Nat /\ "copy" \in {"copy", "values"}
      OBVIOUS
    <3> QED BY <1>1, <1>5, <2>1, <2>2, <3>1, OpensProgress, Zenon
  <2>4. pc' \in [Writers -> {"insert", "commit", "ok", "failed"}]
        /\ (\A v \in Writers \ {w} : pc'[v] = pc[v]) /\ attempts' \in [Writers -> Nat]
    BY <1>1, <1>5 DEF TypeOK
  <2>5. inserted' = [inserted EXCEPT ![w] = 0]
    BY <1>5 DEF CountAtStart
  <2> QED BY <1>1, <1>5, <2>3, <2>4, <2>5, OpensTypes
<1>6. CASE /\ pc' = [pc EXCEPT ![w] = "failed"]
           /\ UNCHANGED <<inserted, attempts, path, chunk, txStart, row>>
  <2>1. Progress(w)'
    BY <1>1, <1>6 DEF Progress, TypeOK
  <2> QED BY <1>6, <2>1 DEF TypeOK
<1> QED BY <1>4, <1>5, <1>6 DEF AfterError

(* Rows are held by one transaction, and become the table's when it commits.  *)
LEMMA CommitOwnership ==
  ASSUME IInv, NEW w \in Writers, table' = table \cup held[w],
         own' = [own EXCEPT ![w] = @ \cup held[w]],
         held' = [held EXCEPT ![w] = {}],
         inserted' \in [Writers -> Nat],
         \A v \in Writers \ {w} : inserted'[v] = inserted[v],
         inserted'[w] <= inserted[w] + Cardinality(held[w])
  PROVE  /\ Ownership' /\ table' \subseteq Fills
         /\ own' \in [Writers -> SUBSET Fills] /\ held' \in [Writers -> SUBSET Fills]
<1> USE DEF IInv, TypeOK
<1>1. own[w] \cap held[w] = {} /\ IsFiniteSet(own[w]) /\ IsFiniteSet(held[w])
  BY DEF Ownership
<1>2. /\ IsFiniteSet(own[w] \cup held[w])
      /\ Cardinality(own[w] \cup held[w]) = Cardinality(own[w]) + Cardinality(held[w])
  <2> HIDE DEF IInv, TypeOK
  <2>1. Cardinality(own[w]) \in Nat /\ Cardinality(held[w]) \in Nat
    BY <1>1, FS_CardinalityType
  <2>2. Cardinality(own[w] \cup held[w])
          = Cardinality(own[w]) + Cardinality(held[w]) - Cardinality({})
    <3>1. Cardinality(own[w] \cup held[w])
            = Cardinality(own[w]) + Cardinality(held[w])
                - Cardinality(own[w] \cap held[w])
      BY <1>1, FS_Union
    <3> QED BY <1>1, <3>1
  <2>3. Cardinality({}) = 0
    BY FS_EmptySet
  <2>4. IsFiniteSet(own[w] \cup held[w])
    BY <1>1, FS_Union
  <2> QED BY <2>1, <2>2, <2>3, <2>4
<1>3. Cardinality(own[w]) \in Nat /\ Cardinality(held[w]) \in Nat
  BY <1>1, FS_CardinalityType
<1>4. inserted'[w] <= Cardinality(own'[w])
  <2>1. own'[w] = own[w] \cup held[w]
    OBVIOUS
  <2>2. inserted[w] <= Cardinality(own[w]) /\ inserted[w] \in Nat /\ inserted'[w] \in Nat
    BY DEF Ownership
  <2> QED BY <1>2, <1>3, <2>1, <2>2
<1>5. IsFiniteSet({})
  BY FS_EmptySet
<1>6. ASSUME NEW v \in Writers
      PROVE  /\ own'[v] \subseteq table' /\ own'[v] \cap Initial = {}
             /\ held'[v] \cap table' = {}
             /\ IsFiniteSet(own'[v]) /\ IsFiniteSet(held'[v])
             /\ inserted'[v] <= Cardinality(own'[v])
  <2>1. CASE v = w
    BY <1>2, <1>4, <1>5, <2>1 DEF Ownership
  <2>2. CASE v # w
    <3>1. own'[v] = own[v] /\ held'[v] = held[v] /\ inserted'[v] = inserted[v]
      BY <2>2
    <3>2. held[v] \cap held[w] = {}
      BY <2>2 DEF Ownership
    <3> QED BY <3>1, <3>2 DEF Ownership
  <2> QED BY <2>1, <2>2
<1>7. ASSUME NEW v \in Writers, NEW u \in Writers \ {v}
      PROVE  own'[v] \cap own'[u] = {} /\ held'[v] \cap held'[u] = {}
  BY DEF Ownership
<1>8. Ownership'
  BY <1>6, <1>7 DEF Ownership
<1> QED BY <1>8

(* Every step keeps the inductive invariant. *)
LEMMA InsertRowInv ==
  ASSUME IInv, NEW w \in Writers, InsertRow(w)
  PROVE  IInv'
<1> USE DEF IInv
<1>1. TypeOK /\ Progress(w) /\ pc[w] = "insert" /\ row[w] \in Nat
  BY DEF InsertRow, TypeOK
<1>2. /\ row[w] <= TxEnd(w) /\ TxEnd(w) \in Nat /\ TxEnd(w) <= Size(w)
      /\ 1 <= row[w] /\ Size(w) \in Nat
  BY <1>1, Ends DEF Progress, TypeOK
<1>3. Row(w) \in Fills
  <2>1. BatchOf[w] \in Seq(Fills) /\ row[w] \in 1..Len(BatchOf[w])
    BY <1>1, <1>2, StoreAssumption DEF Size
  <2> QED BY <2>1, ElementOfSeq DEF Row
<1>4. held'[w] = held[w] \cup ({Row(w)} \ table)
      /\ held' \in [Writers -> SUBSET Fills]
      /\ \A v \in Writers \ {w} : held'[v] = held[v]
  BY <1>1, <1>3 DEF InsertRow, TypeOK
<1>5. TypeOK'
  BY <1>1, <1>4 DEF InsertRow, TypeOK
<1>6. Ownership'
  <2>1. IsFiniteSet(held'[w])
    <3>1. IsFiniteSet({Row(w)} \ table) /\ IsFiniteSet(held[w])
      BY FS_Singleton, FS_Difference DEF Ownership
    <3>2. IsFiniteSet(held[w] \cup ({Row(w)} \ table))
      BY <3>1, FS_Union, Zenon
    <3> QED BY <1>4, <3>2
  <2>2. \A v \in Writers \ {w} : Row(w) \notin held[v]
    BY <1>1 DEF InsertRow, WaitsFor
  <2>3. UNCHANGED <<table, own, inserted>>
    BY DEF InsertRow
  <2>4. \A v \in Writers : held'[v] \cap table = {} /\ IsFiniteSet(held'[v])
    BY <1>4, <2>1 DEF Ownership
  <2>5. ASSUME NEW v \in Writers, NEW u \in Writers \ {v} PROVE held'[v] \cap held'[u] = {}
    BY <1>4, <2>2 DEF Ownership
  <2> QED BY <2>3, <2>4, <2>5 DEF Ownership
<1>7. Progress(w)'
  <2>1. UNCHANGED <<table, path, chunk, txStart>> /\ TxEnd(w)' = TxEnd(w)
    BY DEF InsertRow, TxEnd, ChunkEnd
  <2>2. RowsTo(w, row[w]) \subseteq RowsTo(w, row[w] - 1) \cup {Row(w)}
    <3>1. \A i \in 1..row[w] : i \in 1..(row[w] - 1) \/ i = row[w]
      BY <1>1, <1>2
    <3> QED BY <3>1 DEF RowsTo, Row
  <2>3. RowsTo(w, row[w]) \subseteq table \cup held'[w]
    BY <1>1, <1>4, <2>2 DEF Progress
  <2>4. CASE row[w] < TxEnd(w)
    <3>1. row'[w] = row[w] + 1 /\ pc'[w] = "insert"
      BY <1>1, <2>4 DEF InsertRow, TypeOK
    <3>2. row'[w] <= TxEnd(w) /\ row'[w] - 1 = row[w]
      BY <1>1, <1>2, <2>4, <3>1
    <3> QED BY <1>1, <1>2, <2>1, <2>3, <3>1, <3>2 DEF Progress, TypeOK
  <2>5. CASE ~(row[w] < TxEnd(w))
    <3>1. row' = row /\ pc'[w] = "commit" /\ row[w] = TxEnd(w)
      BY <1>1, <1>2, <2>5 DEF InsertRow, TypeOK
    <3> QED BY <1>1, <2>1, <2>3, <3>1 DEF Progress
  <2> QED BY <2>4, <2>5
<1>8. ASSUME NEW v \in Writers \ {w} PROVE Progress(v)'
  <2>1. /\ held'[v] = held[v] /\ pc'[v] = pc[v] /\ row'[v] = row[v]
        /\ UNCHANGED <<table, path, chunk, txStart>>
    BY <1>1, <1>4 DEF InsertRow, TypeOK
  <2> QED BY <2>1, OthersKeep
<1> QED BY <1>5, <1>6, <1>7, <1>8

LEMMA CommitInv ==
  ASSUME IInv, NEW w \in Writers, Commit(w)
  PROVE  IInv'
<1> USE DEF IInv
<1>1. TypeOK /\ Progress(w) /\ pc[w] = "commit"
  BY DEF Commit
<1>2. /\ Size(w) \in Nat /\ ChunkEnd(w) \in Nat /\ TxEnd(w) \in Nat
      /\ ChunkEnd(w) <= Size(w) /\ TxEnd(w) <= ChunkEnd(w)
      /\ 1 <= chunk[w] /\ chunk[w] <= txStart[w] /\ chunk[w] <= ChunkEnd(w)
      /\ chunk[w] \in Nat /\ txStart[w] \in Nat
  BY <1>1, Ends DEF Progress, TypeOK
<1>3. RowsTo(w, TxEnd(w)) \subseteq table'
  BY <1>1 DEF Commit, Progress
<1>4. Cardinality(held[w]) \in Nat
  BY FS_CardinalityType DEF Ownership
<1>5. /\ inserted' \in [Writers -> Nat]
      /\ inserted'[w] = inserted[w] + Cardinality(held[w])
      /\ \A v \in Writers \ {w} : inserted'[v] = inserted[v]
  BY <1>1, <1>4 DEF Commit, RowsAffected, TypeOK
<1>6. /\ table' = table \cup held[w] /\ own' = [own EXCEPT ![w] = @ \cup held[w]]
      /\ held' = [held EXCEPT ![w] = {}]
  BY DEF Commit
<1>7. inserted'[w] <= inserted[w] + Cardinality(held[w])
  BY <1>1, <1>4, <1>5 DEF TypeOK
<1>8. /\ Ownership' /\ table' \subseteq Fills
      /\ own' \in [Writers -> SUBSET Fills] /\ held' \in [Writers -> SUBSET Fills]
  BY <1>5, <1>6, <1>7, CommitOwnership
<1>9. /\ Progress(w)'
      /\ pc' \in [Writers -> {"insert", "commit", "ok", "failed"}]
      /\ path' \in [Writers -> {"copy", "values"}]
      /\ chunk' \in [Writers -> Nat] /\ txStart' \in [Writers -> Nat]
      /\ row' \in [Writers -> Nat]
      /\ \A v \in Writers \ {w} :
           /\ pc'[v] = pc[v] /\ path'[v] = path[v] /\ chunk'[v] = chunk[v]
           /\ txStart'[v] = txStart[v] /\ row'[v] = row[v]
  <2>1. CASE TxEnd(w) < ChunkEnd(w)
    <3>1. /\ pc' = [pc EXCEPT ![w] = "insert"]
          /\ Opens(w, "values", chunk[w], TxEnd(w) + 1)
      BY <2>1 DEF Commit, Advances
    <3>2. /\ path[w] # "copy" /\ chunk[w] <= TxEnd(w) + 1 /\ TxEnd(w) + 1 - 1 = TxEnd(w)
          /\ TxEnd(w) + 1 <= ChunkEnd(w) /\ TxEnd(w) + 1 \in Nat
      BY <1>2, <2>1, StoreAssumption DEF TxEnd, Least
    <3>3. Progress(w)'
      <4>1. /\ TxEnd(w) + 1 <= Least(chunk[w] + ChunkSize - 1, Size(w))
            /\ RowsTo(w, TxEnd(w) + 1 - 1) \subseteq table'
            /\ "values" \in {"copy", "values"}
        BY <1>3, <3>2 DEF ChunkEnd
      <4>2. PICK t \in Nat : t = TxEnd(w) + 1
        BY <3>2
      <4>3. /\ 1 <= chunk[w] /\ chunk[w] <= t /\ chunk[w] \in Nat
            /\ t <= Least(chunk[w] + ChunkSize - 1, Size(w))
            /\ Opens(w, "values", chunk[w], t) /\ RowsTo(w, t - 1) \subseteq table'
        BY <1>2, <3>1, <3>2, <4>1, <4>2
      <4> QED BY <1>1, <3>1, <4>1, <4>3, OpensProgress, Zenon
    <3> QED BY <1>1, <1>2, <3>1, <3>2, <3>3, OpensTypes DEF TypeOK
  <2>2. CASE TxEnd(w) = ChunkEnd(w) /\ ChunkEnd(w) < Size(w)
    <3>1. /\ pc' = [pc EXCEPT ![w] = "insert"]
          /\ Opens(w, "copy", ChunkEnd(w) + 1, ChunkEnd(w) + 1)
      BY <1>2, <2>2 DEF Commit, Advances
    <3>2. /\ ChunkEnd(w) + 1 - 1 = TxEnd(w) /\ ChunkEnd(w) + 1 \in Nat
          /\ 1 <= ChunkEnd(w) + 1
          /\ ChunkEnd(w) + 1 <= Least(ChunkEnd(w) + 1 + ChunkSize - 1, Size(w))
      BY <1>2, <2>2, StoreAssumption DEF Least
    <3>3. RowsTo(w, ChunkEnd(w) + 1 - 1) \subseteq table'
      BY <1>3, <3>2
    <3>4. PICK t \in Nat : t = ChunkEnd(w) + 1
      BY <3>2
    <3>5. /\ 1 <= t /\ t <= t /\ t <= Least(t + ChunkSize - 1, Size(w))
          /\ Opens(w, "copy", t, t) /\ RowsTo(w, t - 1) \subseteq table'
          /\ "copy" \in {"copy", "values"}
      <4>1. 1 <= t /\ t <= t /\ t <= Least(t + ChunkSize - 1, Size(w))
        BY <1>2, <2>2, <3>4, StoreAssumption DEF Least
      <4>2. Opens(w, "copy", t, t)
        <5>1. \A i : i = ChunkEnd(w) + 1 => Opens(w, "copy", i, i)
          BY <3>1, Zenon
        <5> QED BY <3>4, <5>1, Zenon
      <4>3. RowsTo(w, t - 1) \subseteq table'
        <5>1. \A i : i = TxEnd(w) => RowsTo(w, i) \subseteq table'
          BY <1>3, Zenon
        <5>2. t - 1 = TxEnd(w)
          BY <1>2, <2>2, <3>4
        <5> QED BY <5>1, <5>2, Zenon
      <4> QED BY <4>1, <4>2, <4>3
    <3>6. Progress(w)'
      BY <1>1, <3>1, <3>5, OpensProgress, Zenon
    <3>7. /\ path' \in [Writers -> {"copy", "values"}]
          /\ chunk' \in [Writers -> Nat] /\ txStart' \in [Writers -> Nat]
          /\ row' \in [Writers -> Nat]
          /\ \A v \in Writers \ {w} :
               /\ path'[v] = path[v] /\ chunk'[v] = chunk[v]
               /\ txStart'[v] = txStart[v] /\ row'[v] = row[v]
      BY <1>1, <3>5, OpensTypes, Zenon
    <3> QED BY <1>1, <3>1, <3>6, <3>7 DEF TypeOK
  <2>3. CASE TxEnd(w) = ChunkEnd(w) /\ ChunkEnd(w) = Size(w)
    <3>1. pc' = [pc EXCEPT ![w] = "ok"] /\ UNCHANGED <<path, chunk, txStart, row>>
      BY <1>2, <2>3 DEF Commit, Advances
    <3>2. RowsTo(w, txStart[w] - 1) \subseteq table' /\ Rows(w) \subseteq table'
      BY <1>1, <1>3, <1>6, <2>3 DEF Progress, Rows, RowsTo
    <3> QED BY <1>1, <3>1, <3>2 DEF Progress, TypeOK
  <2> QED BY <1>2, <2>1, <2>2, <2>3
<1>10. ASSUME NEW v \in Writers \ {w} PROVE Progress(v)'
  <2>1. held'[v] = held[v] /\ table \subseteq table'
    BY <1>1, <1>6 DEF TypeOK
  <2> QED BY <1>9, <2>1, OthersKeep
<1>11. TypeOK'
  BY <1>5, <1>8, <1>9 DEF TypeOK, Commit
<1> QED BY <1>8, <1>9, <1>10, <1>11
(* A rolled back transaction of w changes nothing but w's place in its batch. *)
LEMMA RollbackInv ==
  ASSUME IInv, NEW w \in Writers, AfterError(w),
         held' = [held EXCEPT ![w] = {}], table' = table, own' = own,
         faults' \in Nat
  PROVE  IInv'
<1>1. TypeOK /\ Ownership /\ \A v \in Writers : Progress(v)
  BY DEF IInv
<1>2. table \subseteq table'
  OBVIOUS
<1>3. /\ Progress(w)'
      /\ \A v \in Writers \ {w} :
           /\ pc'[v] = pc[v] /\ path'[v] = path[v] /\ chunk'[v] = chunk[v]
           /\ txStart'[v] = txStart[v] /\ row'[v] = row[v]
      /\ pc' \in [Writers -> {"insert", "commit", "ok", "failed"}]
      /\ path' \in [Writers -> {"copy", "values"}]
      /\ chunk' \in [Writers -> Nat] /\ txStart' \in [Writers -> Nat]
      /\ row' \in [Writers -> Nat] /\ attempts' \in [Writers -> Nat]
      /\ inserted' = inserted \/ inserted' = [inserted EXCEPT ![w] = 0]
  BY <1>2, AfterErrorProgress, Zenon
<1>4. /\ inserted' \in [Writers -> Nat]
      /\ \A v \in Writers : inserted'[v] = inserted[v] \/ inserted'[v] = 0
  BY <1>1, <1>3 DEF TypeOK
<1>5. TypeOK'
  BY <1>1, <1>3, <1>4 DEF TypeOK
<1>6. ASSUME NEW v \in Writers PROVE Progress(v)'
  <2>1. CASE v = w
    BY <1>3, <2>1
  <2>2. CASE v # w
    <3>1. held'[v] = held[v] /\ v \in Writers \ {w}
      BY <1>1, <2>2 DEF TypeOK
    <3> QED BY <1>1, <1>2, <1>3, <3>1, OthersKeep
  <2> QED BY <2>1, <2>2
<1>7. Ownership'
  <2>1. ASSUME NEW v \in Writers
        PROVE  IsFiniteSet(held'[v]) /\ held'[v] \subseteq held[v]
    <3>1. IsFiniteSet({})
      BY FS_EmptySet
    <3> QED BY <1>1, <3>1 DEF TypeOK, Ownership
  <2>2. ASSUME NEW v \in Writers PROVE inserted'[v] <= Cardinality(own[v])
    <3>1. Cardinality(own[v]) \in Nat /\ inserted[v] <= Cardinality(own[v])
      BY <1>1, FS_CardinalityType DEF Ownership
    <3> QED BY <1>4, <3>1
  <2>3. ASSUME NEW v \in Writers, NEW u \in Writers \ {v}
        PROVE  own[v] \cap own[u] = {} /\ held'[v] \cap held'[u] = {}
    <3>1. held[v] \cap held[u] = {} /\ own[v] \cap own[u] = {}
      BY <1>1 DEF Ownership
    <3>2. held'[v] \subseteq held[v] /\ held'[u] \subseteq held[u]
      BY <2>1
    <3> QED BY <3>1, <3>2
  <2> QED BY <1>1, <2>1, <2>2, <2>3 DEF Ownership
<1> QED BY <1>5, <1>6, <1>7 DEF IInv

LEMMA CommitUnknownInv ==
  ASSUME IInv, NEW w \in Writers, CommitUnknown(w)
  PROVE  IInv'
<1>1. TypeOK /\ Ownership /\ \A v \in Writers : Progress(v)
  BY DEF IInv
<1>2. /\ table' = table \cup held[w] /\ own' = [own EXCEPT ![w] = @ \cup held[w]]
      /\ held' = [held EXCEPT ![w] = {}] /\ AfterError(w)
      /\ table \subseteq table'
  BY DEF CommitUnknown
<1>3. /\ Progress(w)'
      /\ \A v \in Writers \ {w} :
           /\ pc'[v] = pc[v] /\ path'[v] = path[v] /\ chunk'[v] = chunk[v]
           /\ txStart'[v] = txStart[v] /\ row'[v] = row[v]
      /\ pc' \in [Writers -> {"insert", "commit", "ok", "failed"}]
      /\ path' \in [Writers -> {"copy", "values"}]
      /\ chunk' \in [Writers -> Nat] /\ txStart' \in [Writers -> Nat]
      /\ row' \in [Writers -> Nat] /\ attempts' \in [Writers -> Nat]
      /\ inserted' = inserted \/ inserted' = [inserted EXCEPT ![w] = 0]
  BY <1>2, AfterErrorProgress, Zenon
<1>4. /\ inserted' \in [Writers -> Nat]
      /\ \A v \in Writers \ {w} : inserted'[v] = inserted[v]
      /\ inserted'[w] = inserted[w] \/ inserted'[w] = 0
      /\ inserted[w] \in Nat
  BY <1>1, <1>3 DEF TypeOK
<1>5. inserted'[w] <= inserted[w] + Cardinality(held[w])
  <2>1. Cardinality(held[w]) \in Nat
    BY <1>1, FS_CardinalityType DEF Ownership
  <2> QED BY <1>4, <2>1
<1>6. /\ Ownership' /\ table' \subseteq Fills
      /\ own' \in [Writers -> SUBSET Fills] /\ held' \in [Writers -> SUBSET Fills]
  BY <1>2, <1>4, <1>5, CommitOwnership
<1>7. ASSUME NEW v \in Writers PROVE Progress(v)'
  <2>1. CASE v = w
    BY <1>3, <2>1
  <2>2. CASE v # w
    <3>1. held'[v] = held[v] /\ v \in Writers \ {w}
      BY <1>1, <1>2, <2>2 DEF TypeOK
    <3> QED BY <1>1, <1>2, <1>3, <3>1, OthersKeep
  <2> QED BY <2>1, <2>2
<1>8. faults' \in Nat
  BY <1>1 DEF CommitUnknown, Fault, TypeOK
<1> QED BY <1>3, <1>4, <1>6, <1>7, <1>8 DEF IInv, TypeOK

LEMMA StepInv ==
  ASSUME IInv, [Next]_vars
  PROVE  IInv'
<1>1. ASSUME NEW w \in Writers, Step(w) PROVE IInv'
  <2>1. CASE Abort(w) \/ DeadlockAbort(w)
    <3>1. /\ AfterError(w) /\ held' = [held EXCEPT ![w] = {}]
          /\ table' = table /\ own' = own
      BY <2>1 DEF Abort, DeadlockAbort, RollsBack
    <3>2. faults' \in Nat
      BY <2>1 DEF Abort, DeadlockAbort, Fault, IInv, TypeOK
    <3> QED BY <3>1, <3>2, RollbackInv
  <2>2. CASE CommitUnknown(w)
    BY <2>2, CommitUnknownInv
  <2> QED BY <1>1, <2>1, <2>2, InsertRowInv, CommitInv DEF Step
<1>2. CASE UNCHANGED vars
  BY <1>2 DEF IInv, TypeOK, Ownership, Progress, TxEnd, ChunkEnd, vars
<1> QED BY <1>1, <1>2 DEF Next, Rest

-----------------------------------------------------------------------------
(* The state of every writer stays within its types. *)
THEOREM StoreTypeCorrect == Spec => []TypeOK
<1>1. IInv => TypeOK
  BY DEF IInv
<1> QED BY <1>1, InitInv, StepInv, PTL DEF Spec

(* However the writers interleave, fall back, abort and retry, a call that    *)
(* returns Ok leaves every fill of its batch in the table.                    *)
THEOREM OkIsStored == Spec => []OkMeansStored
<1>1. IInv => OkMeansStored
  BY DEF IInv, Progress, OkMeansStored
<1> QED BY <1>1, InitInv, StepInv, PTL DEF Spec

(* However the writers interleave, no fill is counted by two of them, nor     *)
(* twice by one, nor when it was in the table before.                         *)
THEOREM CountedOnce == Spec => []NoDoubleCount
<1>1. IInv => NoDoubleCount
  BY DEF IInv, Ownership, NoDoubleCount
<1> QED BY <1>1, InitInv, StepInv, PTL DEF Spec

-----------------------------------------------------------------------------
(* What a writer has committed reaches from its first row to some point, and  *)
(* what its open transaction holds is of the rows that transaction has passed.*)
Reached(w) ==
  \E n \in 0..Size(w) : own[w] \subseteq RowsTo(w, n) /\ RowsTo(w, n) \subseteq table
HeldPassed(w) ==
  /\ pc[w] = "insert" => held[w] \subseteq RowsTo(w, row[w] - 1)
  /\ pc[w] = "commit" => held[w] \subseteq RowsTo(w, TxEnd(w))

PrefixInv == \A w \in Writers : Reached(w) /\ HeldPassed(w)

LEMMA InitPrefix == Init => PrefixInv
<1> SUFFICES ASSUME Init, NEW w \in Writers PROVE Reached(w) /\ HeldPassed(w)
  BY DEF PrefixInv
<1>1. own[w] = {} /\ held[w] = {}
  BY DEF Init
<1>2. 0 \in 0..Size(w) /\ RowsTo(w, 0) = {}
  BY StoreAssumption DEF Size, RowsTo
<1> QED BY <1>1, <1>2 DEF Reached, HeldPassed

(* A step of one writer leaves the others where they are. *)
LEMMA OthersStay ==
  ASSUME TypeOK, NEW w \in Writers, Step(w), NEW v \in Writers \ {w}
  PROVE  /\ pc'[v] = pc[v] /\ row'[v] = row[v] /\ TxEnd(v)' = TxEnd(v)
         /\ held'[v] = held[v] /\ own'[v] = own[v] /\ table \subseteq table'
<1>1. /\ pc'[v] = pc[v] /\ row'[v] = row[v] /\ path'[v] = path[v]
      /\ chunk'[v] = chunk[v] /\ txStart'[v] = txStart[v]
  <2>1. CASE InsertRow(w)
    BY <2>1 DEF InsertRow, TypeOK
  <2>2. CASE Commit(w)
    BY <2>2 DEF Commit, Advances, Opens, TypeOK
  <2>3. CASE Abort(w) \/ CommitUnknown(w) \/ DeadlockAbort(w)
    BY <2>3 DEF Abort, CommitUnknown, DeadlockAbort, AfterError, FallsBack, Opens, TypeOK
  <2> QED BY <2>1, <2>2, <2>3 DEF Step
<1>2. held'[v] = held[v] /\ own'[v] = own[v] /\ table \subseteq table'
  BY DEF Step, InsertRow, Commit, Abort, CommitUnknown, DeadlockAbort, RollsBack, TypeOK
<1> QED BY <1>1, <1>2 DEF TxEnd, ChunkEnd

(* A commit takes the point to the end of the transaction, or leaves it.      *)
LEMMA CommitReaches ==
  ASSUME IInv, PrefixInv, NEW w \in Writers, pc[w] = "commit",
         table' = table \cup held[w], own'[w] = own[w] \cup held[w]
  PROVE  Reached(w)'
<1>1. PICK n \in 0..Size(w) : own[w] \subseteq RowsTo(w, n) /\ RowsTo(w, n) \subseteq table
  BY DEF PrefixInv, Reached
<1>2. TxEnd(w) \in 0..Size(w) /\ n \in Nat
  BY Ends DEF IInv, Progress, TypeOK
<1>3. /\ held[w] \subseteq RowsTo(w, TxEnd(w))
      /\ RowsTo(w, TxEnd(w)) \subseteq table'
  BY DEF PrefixInv, HeldPassed, IInv, Progress
<1>4. CASE n <= TxEnd(w)
  <2>1. RowsTo(w, n) \subseteq RowsTo(w, TxEnd(w))
    BY <1>2, <1>4 DEF RowsTo
  <2> QED BY <1>1, <1>2, <1>3, <2>1 DEF Reached, RowsTo, Size
<1>5. CASE ~(n <= TxEnd(w))
  <2>1. RowsTo(w, TxEnd(w)) \subseteq RowsTo(w, n)
    BY <1>2, <1>5 DEF RowsTo
  <2> QED BY <1>1, <1>2, <1>3, <2>1 DEF Reached, RowsTo, Size
<1> QED BY <1>4, <1>5

LEMMA StepPrefix ==
  ASSUME IInv, PrefixInv, [Next]_vars
  PROVE  PrefixInv'
<1>1. ASSUME NEW w \in Writers, Step(w) PROVE PrefixInv'
  <2>1. TypeOK /\ Progress(w) /\ Reached(w) /\ HeldPassed(w)
    BY DEF IInv, PrefixInv
  <2>2. Reached(w)' /\ HeldPassed(w)'
    <3>1. CASE InsertRow(w)
      <4>1. /\ UNCHANGED <<table, own, path, chunk, txStart>> /\ TxEnd(w)' = TxEnd(w)
            /\ held'[w] \subseteq held[w] \cup {Row(w)} /\ pc[w] = "insert"
        BY <2>1, <3>1 DEF InsertRow, TypeOK, TxEnd, ChunkEnd
      <4>2. /\ row[w] <= TxEnd(w) /\ TxEnd(w) \in Nat /\ row[w] \in Nat
            /\ 1 <= row[w]
        BY <2>1, <4>1, Ends DEF Progress, TypeOK
      <4>3. RowsTo(w, row[w] - 1) \cup {Row(w)} \subseteq RowsTo(w, row[w])
        BY <4>2 DEF RowsTo, Row
      <4>4. held'[w] \subseteq RowsTo(w, row[w])
        BY <2>1, <4>1, <4>3 DEF HeldPassed
      <4>5. \/ row'[w] = row[w] + 1 /\ pc'[w] = "insert"
            \/ row[w] = TxEnd(w) /\ pc'[w] = "commit"
        BY <2>1, <3>1, <4>2 DEF InsertRow, TypeOK
      <4>6. HeldPassed(w)'
        <5>1. CASE row'[w] = row[w] + 1 /\ pc'[w] = "insert"
          <6>1. row'[w] - 1 = row[w]
            BY <4>2, <5>1
          <6>2. RowsTo(w, row[w] - 1)' = RowsTo(w, row[w])
            BY <6>1, Zenon DEF RowsTo
          <6> QED BY <4>4, <5>1, <6>2 DEF HeldPassed
        <5>2. CASE row[w] = TxEnd(w) /\ pc'[w] = "commit"
          <6>1. RowsTo(w, TxEnd(w))' = RowsTo(w, row[w])
            BY <4>1, <5>2 DEF RowsTo
          <6> QED BY <4>4, <5>2, <6>1 DEF HeldPassed
        <5> QED BY <4>5, <5>1, <5>2
      <4>7. Reached(w)'
        BY <2>1, <4>1 DEF Reached, RowsTo, Size
      <4> QED BY <4>6, <4>7
    <3>2. CASE Commit(w) \/ CommitUnknown(w)
      <4>1. /\ pc[w] = "commit" /\ table' = table \cup held[w]
            /\ own'[w] = own[w] \cup held[w] /\ held'[w] = {}
        BY <2>1, <3>2 DEF Commit, CommitUnknown, TypeOK
      <4> QED BY <4>1, CommitReaches DEF HeldPassed
    <3>3. CASE Abort(w) \/ DeadlockAbort(w)
      <4>1. UNCHANGED <<table, own>> /\ held'[w] = {}
        BY <2>1, <3>3 DEF Abort, DeadlockAbort, RollsBack, TypeOK
      <4> QED BY <2>1, <4>1 DEF Reached, HeldPassed, RowsTo, Size
    <3> QED BY <1>1, <3>1, <3>2, <3>3 DEF Step
  <2>3. ASSUME NEW v \in Writers \ {w} PROVE Reached(v)' /\ HeldPassed(v)'
    <3>1. Reached(v) /\ HeldPassed(v)
      BY DEF PrefixInv
    <3>2. /\ pc'[v] = pc[v] /\ row'[v] = row[v] /\ TxEnd(v)' = TxEnd(v)
          /\ held'[v] = held[v] /\ own'[v] = own[v] /\ table \subseteq table'
      BY <1>1, <2>1, OthersStay
    <3> QED BY <3>1, <3>2 DEF Reached, HeldPassed, RowsTo, Size
  <2> QED BY <2>2, <2>3 DEF PrefixInv
<1>2. CASE UNCHANGED vars
  BY <1>2 DEF PrefixInv, Reached, HeldPassed, RowsTo, Size, TxEnd, ChunkEnd, vars
<1> QED BY <1>1, <1>2 DEF Next, Rest

(* However calls fall back, abort, lose an answer or are made again, what a   *)
(* writer has committed never lies beyond a row of its batch that is missing  *)
(* in the table: a retry or a restart finds no hole.                          *)
THEOREM CommitsNoHole == Spec => []PrefixStored
<1>1. IInv /\ PrefixInv => PrefixStored
  BY DEF PrefixInv, Reached, PrefixStored
<1> QED BY <1>1, InitInv, StepInv, InitPrefix, StepPrefix, PTL DEF Spec
=============================================================================
