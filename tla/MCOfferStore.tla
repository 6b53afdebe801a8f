------------------------------ MODULE MCOfferStore ------------------------------
(* Our ask o1, a bid o2 that crosses it and a smaller bid o3 that expires. *)
EXTENDS OfferStore, TLC

CONSTANTS o1, o2, o3, s1

MCIds == {o1, o2, o3}
MCSwaps == {s1}
MCAmounts == 1..2

MCTerms ==
    (o1 :> [ours |-> TRUE, side |-> "SellPric", chain |-> "btc", max |-> 3, foreign |-> 3, expiry |-> 2]) @@
    (o2 :> [ours |-> FALSE, side |-> "BuyPric", chain |-> "btc", max |-> 2, foreign |-> 3, expiry |-> 2]) @@
    (o3 :> [ours |-> FALSE, side |-> "BuyPric", chain |-> "btc", max |-> 1, foreign |-> 1, expiry |-> 1])
=================================================================================
