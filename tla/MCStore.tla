------------------------------ MODULE MCStore ------------------------------
(* Two writers with overlapping batches in opposite orders; one repeats a     *)
(* fill, and one fill is already in the table.                                *)
EXTENDS Store

CONSTANTS backfill, live, a, b, c, d

MCBatchOf == [w \in Writers |->
                IF w = backfill THEN <<a, b, c, a, d>> ELSE <<c, b, a>>]
=============================================================================
