----------------------- MODULE CheckpointedReaderProofs -----------------------
(***************************************************************************)
(* What a CheckpointedReader keeps, for every content of the hours and     *)
(* every order of loads, pages, failed inserts, resets and crashes: what   *)
(* the pipelines that implement it inherit.                                *)
(***************************************************************************)
EXTENDS CheckpointedReader, FiniteSetTheorems, TLAPS

ReaderInv == IsFiniteSet(fills) /\ RowSound /\ ReaderSound

(* A table that grows has so many more fills as are new. *)
LEMMA GrowthCounted ==
  ASSUME NEW old, NEW new, old \subseteq new, IsFiniteSet(new)
  PROVE  /\ Cardinality(old) \in Nat /\ Cardinality(new \ old) \in Nat
         /\ Cardinality(new) = Cardinality(old) + Cardinality(new \ old)
<1>1. IsFiniteSet(old) /\ IsFiniteSet(new \ old)
  BY FS_Subset, FS_Difference
<1>2. new = old \cup (new \ old) /\ old \cap (new \ old) = {}
  OBVIOUS
<1>3. Cardinality({}) = 0
  BY FS_EmptySet
<1>4. Cardinality(old \cup (new \ old)) = Cardinality(old) + Cardinality(new \ old) - 0
  BY <1>1, <1>2, <1>3, FS_Union
<1>5. Cardinality(old) \in Nat /\ Cardinality(new \ old) \in Nat
  BY <1>1, FS_CardinalityType
<1>6. QED  BY <1>2, <1>4, <1>5

(* What is done stays done, and a count that was within the table stays so. *)
LEMMA DoneGrows ==
  ASSUME Grows
  PROVE  /\ Done \subseteq Done'
         /\ \A n \in 0..Cardinality(fills) :
              /\ n \in 0..Cardinality(fills')
              /\ n + Cardinality(fills' \ fills) \in 0..Cardinality(fills')
<1>1. Done \subseteq Done'
  BY DEF Grows, Done, AllHours
<1>2. PICK old : old = fills  OBVIOUS
<1>3. PICK new : new = fills'  OBVIOUS
<1>4. old \subseteq new /\ IsFiniteSet(new)
  BY <1>2, <1>3 DEF Grows
<1>5. /\ Cardinality(old) \in Nat /\ Cardinality(new \ old) \in Nat
      /\ Cardinality(new) = Cardinality(old) + Cardinality(new \ old)
  BY <1>4, GrowthCounted
<1>6. \A n \in 0..Cardinality(old) :
        n \in 0..Cardinality(new) /\ n + Cardinality(new \ old) \in 0..Cardinality(new)
  BY <1>5
<1>7. QED  BY <1>1, <1>2, <1>3, <1>6

LEMMA ReaderInit == Init => ReaderInv
  BY DEF Init, ReaderInv, RowSound, ReaderSound

LEMMA ReaderNext == ReaderInv /\ [Next]_vars => ReaderInv'
<1>1. ASSUME ReaderInv, Grows PROVE IsFiniteSet(fills')
  BY <1>1 DEF Grows
<1>2. ASSUME ReaderInv, Reset PROVE ReaderInv'
  <2>1. Done \subseteq Done' /\ skipped' \subseteq Done' /\ row.records \in 0..Cardinality(fills')
    BY <1>2, DoneGrows DEF Reset, ReaderInv, RowSound, Done
  <2>2. row'.done \subseteq row.done \cup skipped' /\ row'.records = row.records
    BY <1>2 DEF Reset, Lower
  <2>3. QED
    BY <1>1, <1>2, <2>1, <2>2 DEF ReaderInv, Reset, RowSound, ReaderSound
<1>3. ASSUME ReaderInv, Load PROVE ReaderInv'
  <2>1. Done \subseteq Done' /\ skipped' \subseteq Done' /\ row.records \in 0..Cardinality(fills')
    BY <1>3, DoneGrows DEF Load, ReaderInv, RowSound, Done
  <2>2. row'.done \subseteq row.done \cup skipped' /\ row'.records = row.records
    BY <1>3 DEF Load, Lower
  <2>3. reader'.done \subseteq row'.done /\ reader'.records = row.records
    BY <1>3 DEF Load
  <2>4. QED
    BY <1>1, <1>3, <2>1, <2>2, <2>3 DEF ReaderInv, Load, RowSound, ReaderSound
<1>4. ASSUME ReaderInv, Advance PROVE ReaderInv'
  <2>1. /\ Done \subseteq Done' /\ row.records \in 0..Cardinality(fills')
        /\ reader.records + Cardinality(fills' \ fills) \in 0..Cardinality(fills')
    BY <1>4, DoneGrows DEF Advance, ReaderInv, RowSound, ReaderSound
  <2>2. /\ reader'.done \subseteq reader.done \cup Done'
        /\ reader'.records = reader.records + Cardinality(fills' \ fills)
    BY <1>4 DEF Advance
  <2>3. reader'.done \subseteq Done' /\ reader'.records \in 0..Cardinality(fills')
    BY <1>4, <2>1, <2>2 DEF Advance, ReaderInv, ReaderSound
  <2>4. row' = row \/ row' = reader'
    BY <1>4 DEF Advance
  <2>5. RowSound'
    BY <1>4, <2>1, <2>3, <2>4 DEF ReaderInv, RowSound
  <2>6. QED
    BY <1>1, <1>4, <2>3, <2>5 DEF ReaderInv, Advance, ReaderSound
<1>5. ASSUME ReaderInv, Leave PROVE ReaderInv'
  <2>1. /\ Done \subseteq Done' /\ row.records \in 0..Cardinality(fills')
        /\ reader.done \subseteq Done' /\ reader.records \in 0..Cardinality(fills')
    BY <1>5, DoneGrows DEF Leave, ReaderInv, RowSound, ReaderSound
  <2>2. row' = row \/ row' = reader
    BY <1>5 DEF Leave
  <2>3. RowSound'
    BY <1>5, <2>1, <2>2 DEF ReaderInv, RowSound
  <2>4. ReaderSound'
    BY <1>5, <2>1 DEF Leave, ReaderSound
  <2>5. QED  BY <1>1, <1>5, <2>3, <2>4 DEF ReaderInv, Leave
<1>6. ASSUME ReaderInv, UNCHANGED vars PROVE ReaderInv'
  BY <1>6 DEF ReaderInv, RowSound, ReaderSound, Done, vars
<1>7. QED  BY <1>2, <1>3, <1>4, <1>5, <1>6 DEF Next

-----------------------------------------------------------------------------
(* Whatever implements a CheckpointedReader saves a row that says of no hour  *)
(* it is done unless its fills are in the table or it was given up, and that  *)
(* counts no fill twice; and so does the reader that would save next.         *)
THEOREM ReaderKeepsItsWord == Spec => [](RowSound /\ ReaderSound)
<1>1. ReaderInv => RowSound /\ ReaderSound
  BY DEF ReaderInv
<1>2. QED  BY <1>1, ReaderInit, ReaderNext, PTL DEF Spec
=============================================================================
