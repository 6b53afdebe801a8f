---------------------------- MODULE MCOrderSettlement ----------------------------
(* Our ask o1 and a bid o2 that crosses it, each good for two units. *)
EXTENDS OrderSettlement, TLC

CONSTANTS o1, o2, s1, s2

MCIds == {o1, o2}
MCSwaps == {s1, s2}
OneAmount == {1}
TwoAmounts == 1..2

Bid == [ours |-> FALSE, side |-> "BuyPric", chain |-> "btc", max |-> 2, foreign |-> 2, expiry |-> 2]
MCTerms ==
    (o1 :> [Bid EXCEPT !.ours = TRUE, !.side = "SellPric"]) @@ (o2 :> Bid)
===================================================================================
