-------------------------- MODULE MCMarketRegistry --------------------------
(* Instances of MarketRegistry for TLC: a perpetual market the API lists, and *)
(* a spot market it lists later or never.                                     *)
EXTENDS MarketRegistry, TLC

CONSTANTS btc, at1
MCMarkets == {btc, at1}
MCPerps == {btc}

(* An empty table, and one with a placeholder that an earlier process left.   *)
Empty == [m \in Markets |-> None]
MCTables == {Empty, [Empty EXCEPT ![btc] = [id |-> 1, symbol |-> 0]]}
MCListings == {[m \in Markets |-> IF m = at1 THEN 0 ELSE 1]}
=============================================================================
