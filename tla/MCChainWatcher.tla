------------------------------ MODULE MCChainWatcher ------------------------------
(* One swap with its ceremonies over; Alice's side, and Bob's on each kind of chain. *)
EXTENDS ChainWatcher, TLC

CONSTANTS t1, c1

MCChains == {"btc", "ltc"}
MCParties == {<<"Alice", "ltc">>, <<"Bob", "ltc">>, <<"Bob", "btc">>}
BtcParties == {<<"Bob", "btc">>}
MCSecrets == {t1}
MCHeights == 1..2
MCContents == {c1}
MCCandidates == [a \in Artefacts |-> {c1}]

\* A claim entry of another transaction or without a confirmation, and an unrelated
\* transaction reported as the funding.
MCReports ==
    <<"Alice", "ltc">> :> {<<"PricClaim", "pric_other", 0>>}
    @@ <<"Bob", "ltc">> :> {<<"ForeignFunding", "foreign_other", 1>>}
    @@ <<"Bob", "btc">> :> {<<"PricClaim", "pric_claim", 0>>}
    @@ <<"Alice", "btc">> :> {}

MCRemovals ==
    <<"Alice", "ltc">> :> {"PricRefund"} @@ <<"Bob", "ltc">> :> {"ForeignClaim"}
    @@ <<"Bob", "btc">> :> {"ForeignRefund"} @@ <<"Alice", "btc">> :> {}

\* More of both, for the safety properties alone.
WideReports ==
    [p \in Roles \X MCChains |->
        {<<"PricClaim", "pric_claim", 0>>, <<"PricClaim", "pric_other", 1>>,
         <<"ForeignClaim", "foreign_claim", 0>>, <<"ForeignClaim", "foreign_claim", 1>>,
         <<"ForeignFunding", "foreign_other", 0>>, <<"ForeignRefund", "foreign_other", 1>>}]
WideRemovals == [p \in Roles \X MCChains |-> Kinds]

AutoRefund == {"autorefund", "ltcrefundaddr"}
MCSettings == {AutoRefund, {}}
BtcSettings == {AutoRefund}

\* A claim may come up before the funding that it spends.
MCRank == "PricClaim" :> 1 @@ "ForeignFunding" :> 2 @@ "PricFunding" :> 3
            @@ "ForeignClaim" :> 4 @@ "ForeignRefund" :> 5 @@ "PricRefund" :> 6
===================================================================================
