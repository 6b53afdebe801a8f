------------------------------ MODULE MCAdaptorSwap ------------------------------
(* One swap; both roles, a cooperative and an HTLC chain. *)
EXTENDS AdaptorSwapStore, TLC

CONSTANTS t1, t2, x, y

\* Two contents where a second one must be refused, one where presence matters,
\* none for the fields that follow the same rule as another.
MCCandidates ==
    [a \in Artefacts |->
        CASE a \in {"pric_plan", "btc_plan"} -> {x, y}
          [] a \in {"pric_refund_tx", "claim_ring", "claim_msg", "peer_keys"} -> {x}
          [] OTHER -> {}]

MCChains == {"btc", "ltc"}
MCSecrets == {t1, t2}
MCHeights == 0..2
MCScratch == {"pric_refund_session"}
MCContents == {x, y}

\* No candidate set names a secret, so the secrets are interchangeable.
Symmetry == Permutations(MCSecrets)
===================================================================================
