-------------------------------- MODULE Store --------------------------------
(***************************************************************************)
(* insert_fills (indexer/src/store.rs): a batch goes to the table in       *)
(* chunks, each by COPY in one transaction or, when that fails, by         *)
(* multi-row VALUES in several; the caller tries the whole batch again when*)
(* the call fails.  Writers are the processes that insert at the same time *)
(* (the periodic backfill and the live run share the database).            *)
(*                                                                         *)
(* The unique constraint makes concurrent inserts of one fill wait for     *)
(* each other: a row inserted by an open transaction blocks the others     *)
(* until it ends, and PostgreSQL aborts one of a cycle of such waits.      *)
(***************************************************************************)
EXTENDS Integers, Sequences, FiniteSets

CONSTANTS Writers, Fills,
          BatchOf,      \* writer |-> its batch, a sequence of fills
          Initial,      \* the fills the table starts with
          ChunkSize,    \* CHUNK_SIZE, 200000 in the code
          RowsPerTx,    \* BATCH_SIZE of the VALUES path, 5000
          MaxRetries,   \* attempts of the caller, ingest.max_retries
          MaxFaults     \* bound on errors

ASSUME StoreAssumption ==
  /\ ChunkSize \in Nat \ {0} /\ RowsPerTx \in Nat \ {0}
  /\ MaxRetries \in Nat /\ MaxFaults \in Nat
  /\ Initial \subseteq Fills
  /\ BatchOf \in [Writers -> Seq(Fills) \ {<<>>}]

VARIABLES
  table,      \* committed fills
  pc,         \* "insert": rows of a transaction, "commit", "ok", "failed"
  path,       \* "copy" or "values"
  chunk,      \* index of the first row of the chunk being inserted
  txStart,    \* index of the first row of the open transaction
  row,        \* index of the next row of the open transaction
  held,       \* rows the open transaction has inserted
  inserted,   \* what the call will return
  attempts,   \* calls made so far
  own,        \* history: the rows this writer has committed
  faults

vars == <<table, pc, path, chunk, txStart, row, held, inserted, attempts, own,
          faults>>

Size(w) == Len(BatchOf[w])
Least(a, b) == IF a <= b THEN a ELSE b
ChunkEnd(w) == Least(chunk[w] + ChunkSize - 1, Size(w))
TxEnd(w) == IF path[w] = "copy" THEN ChunkEnd(w)
            ELSE Least(txStart[w] + RowsPerTx - 1, ChunkEnd(w))

Fault == faults < MaxFaults /\ faults' = faults + 1

Init ==
  /\ table = Initial /\ faults = 0
  /\ pc = [w \in Writers |-> "insert"] /\ path = [w \in Writers |-> "copy"]
  /\ chunk = [w \in Writers |-> 1] /\ txStart = [w \in Writers |-> 1]
  /\ row = [w \in Writers |-> 1] /\ held = [w \in Writers |-> {}]
  /\ inserted = [w \in Writers |-> 0] /\ attempts = [w \in Writers |-> 1]
  /\ own = [w \in Writers |-> {}]

-----------------------------------------------------------------------------
(* Rows of an open transaction. *)
Row(w) == BatchOf[w][row[w]]
WaitsFor(w) ==
  IF pc[w] = "insert" THEN {v \in Writers \ {w} : Row(w) \in held[v]} ELSE {}

(* ON CONFLICT DO NOTHING: a row that is there, or that the transaction has   *)
(* already inserted, is passed over.                                          *)
InsertRow(w) ==
  /\ pc[w] = "insert" /\ WaitsFor(w) = {}
  /\ held' = [held EXCEPT ![w] = @ \cup ({Row(w)} \ table)]
  /\ IF row[w] < TxEnd(w)
     THEN row' = [row EXCEPT ![w] = @ + 1] /\ pc' = pc
     ELSE row' = row /\ pc' = [pc EXCEPT ![w] = "commit"]
  /\ UNCHANGED <<table, path, chunk, txStart, inserted, attempts, own, faults>>

(* The transaction that follows one that ended at row end of w's batch. *)
Opens(w, p, c, t) ==
  /\ path' = [path EXCEPT ![w] = p] /\ chunk' = [chunk EXCEPT ![w] = c]
  /\ txStart' = [txStart EXCEPT ![w] = t] /\ row' = [row EXCEPT ![w] = t]

Advances(w) ==
  IF TxEnd(w) < ChunkEnd(w)
  THEN pc' = [pc EXCEPT ![w] = "insert"] /\ Opens(w, "values", chunk[w], TxEnd(w) + 1)
  ELSE IF ChunkEnd(w) < Size(w)
  THEN /\ pc' = [pc EXCEPT ![w] = "insert"]
       /\ Opens(w, "copy", ChunkEnd(w) + 1, ChunkEnd(w) + 1)
  ELSE pc' = [pc EXCEPT ![w] = "ok"] /\ UNCHANGED <<path, chunk, txStart, row>>

CountsRows(w) == TxEnd(w) - txStart[w] + 1                         \* mutant
NetOfConflicts(w) ==                                                \* mutant
  Cardinality(held[w]) - (TxEnd(w) - txStart[w] + 1 - Cardinality(held[w]))
RowsAffected(w) == Cardinality(held[w])

Commit(w) ==
  /\ pc[w] = "commit"
  /\ table' = table \cup held[w] /\ own' = [own EXCEPT ![w] = @ \cup held[w]]
  /\ inserted' = [inserted EXCEPT ![w] = @ + RowsAffected(w)]
  /\ held' = [held EXCEPT ![w] = {}]
  /\ Advances(w)
  /\ UNCHANGED <<attempts, faults>>

-----------------------------------------------------------------------------
(* Errors.  An error of the COPY transaction starts the VALUES path on the    *)
(* same chunk; one of the VALUES path fails the call, which is then made      *)
(* again from the first row, or not (retry_with_backoff).                     *)
SkipsChunk(w) == Opens(w, "values", chunk[w], ChunkEnd(w))         \* mutant
FallsBack(w) == Opens(w, "values", chunk[w], chunk[w])

CountAtStart(w) == 0

AfterError(w) ==
  IF path[w] = "copy"
  THEN /\ pc' = [pc EXCEPT ![w] = "insert"] /\ FallsBack(w)
       /\ UNCHANGED <<inserted, attempts>>
  ELSE \/ /\ attempts[w] < MaxRetries
          /\ attempts' = [attempts EXCEPT ![w] = @ + 1]
          /\ inserted' = [inserted EXCEPT ![w] = CountAtStart(w)]
          /\ pc' = [pc EXCEPT ![w] = "insert"] /\ Opens(w, "copy", 1, 1)
       \/ /\ pc' = [pc EXCEPT ![w] = "failed"]
          /\ UNCHANGED <<inserted, attempts, path, chunk, txStart, row>>

(* The transaction is rolled back when it is dropped. *)
LeaksTransaction(w) == UNCHANGED held                              \* mutant
RollsBack(w) == held' = [held EXCEPT ![w] = {}]

Abort(w) ==
  /\ pc[w] \in {"insert", "commit"} /\ Fault
  /\ RollsBack(w) /\ AfterError(w)
  /\ UNCHANGED <<table, own>>

(* The commit takes effect and its answer is lost. *)
CommitUnknown(w) ==
  /\ pc[w] = "commit" /\ Fault
  /\ table' = table \cup held[w] /\ own' = [own EXCEPT ![w] = @ \cup held[w]]
  /\ held' = [held EXCEPT ![w] = {}]
  /\ AfterError(w)

(* PostgreSQL aborts a transaction of a cycle of waits. *)
Deadlocked(w) ==
  \E cycle \in SUBSET Writers :
    w \in cycle /\ \A v \in cycle : WaitsFor(v) \cap cycle # {}

DeadlockAbort(w) ==
  /\ Deadlocked(w) /\ RollsBack(w) /\ AfterError(w)
  /\ UNCHANGED <<table, own, faults>>

-----------------------------------------------------------------------------
Returned(w) == pc[w] \in {"ok", "failed"}
Rest == (\A w \in Writers : Returned(w)) /\ UNCHANGED vars

Step(w) == InsertRow(w) \/ Commit(w) \/ Abort(w) \/ CommitUnknown(w)
           \/ DeadlockAbort(w)
Next == (\E w \in Writers : Step(w)) \/ Rest
Spec == Init /\ [][Next]_vars

(* Each writer runs on, and PostgreSQL finds deadlocks; errors need not come. *)
FairSpec ==
  Spec /\ \A w \in Writers : WF_vars(InsertRow(w) \/ Commit(w) \/ DeadlockAbort(w))

-----------------------------------------------------------------------------
Rows(w) == {BatchOf[w][i] : i \in 1..Size(w)}
RowsTo(w, n) == {BatchOf[w][i] : i \in 1..n}

TypeOK ==
  /\ table \subseteq Fills
  /\ pc \in [Writers -> {"insert", "commit", "ok", "failed"}]
  /\ path \in [Writers -> {"copy", "values"}]
  /\ chunk \in [Writers -> Nat] /\ txStart \in [Writers -> Nat]
  /\ row \in [Writers -> Nat]
  /\ held \in [Writers -> SUBSET Fills] /\ own \in [Writers -> SUBSET Fills]
  /\ inserted \in [Writers -> Nat] /\ attempts \in [Writers -> Nat]
  /\ faults \in Nat

(* When insert_fills returns Ok, every fill of the batch is in the table,     *)
(* whichever chunks fell back to VALUES, which commits reported an error they *)
(* did not have, and whichever rows other writers inserted or rolled back.    *)
OkMeansStored == \A w \in Writers : pc[w] = "ok" => Rows(w) \subseteq table

(* No fill is counted twice: what a call returns is at most the rows it       *)
(* committed, and a row is committed by one writer, and was not there before. *)
NoDoubleCount ==
  \A w \in Writers : /\ inserted[w] <= Cardinality(own[w])
                     /\ own[w] \cap Initial = {}
                     /\ \A v \in Writers \ {w} : own[w] \cap own[v] = {}

(* A call leaves the table with its rows up to some point and, of what it     *)
(* committed itself, nothing beyond it: this is what a retry, and the         *)
(* backfill that is started again after a crash, find.                        *)
PrefixStored ==
  \A w \in Writers :
    \E n \in 0..Size(w) : own[w] \subseteq RowsTo(w, n) /\ RowsTo(w, n) \subseteq table

(* Every call returns: fallbacks, retries and deadlocks between the open      *)
(* transactions of two writers come to an end.                                *)
EveryCallReturns == \A w \in Writers : <>Returned(w)
=============================================================================
