---------------------------- MODULE AdaptorSwapRecord ----------------------------
(***************************************************************************)
(* The record a wallet keeps of one adaptor swap, and the calls that       *)
(* change it.                                                              *)
(*                                                                         *)
(* A call is a relation between the record before it (s) and after it (r); *)
(* it relates nothing to a record that it refuses.  AdaptorSwap composes   *)
(* the calls into the machine a wallet promises, AdaptorSwapStore runs     *)
(* them over a cache and a database.                                       *)
(***************************************************************************)
EXTENDS Integers

CONSTANTS
    Chains,      \* foreign chains (ValidForeignChain)
    Secrets,     \* adaptor secrets t; T_G, T_H and the proof are named by their t
    Heights,     \* heights and margins offered to SetRefundTimelocks
    Scratch,     \* fields that any live swap overwrites: pric_ephemeral_r, session JSONs
    Contents,    \* transactions, outpoints, rings and keys
    Candidates,  \* per artefact, the contents callers offer
    None,        \* an empty field
    NoSwap       \* no record

Roles == {"Alice", "Bob"}
PreSigParts == {"pric_claim", "pric_refund", "btc_claim", "btc_refund"}
Terminal == {"Complete", "Refunded", "Aborted"}
States == {"Setup", "AdaptorReady", "PreSigned", "BtcFunded", "BothFunded", "PricClaimed"}
            \cup Terminal

\* Fields that are filled in once and from then on only confirmed.
UnsignedTxs == {"pric_refund_tx", "btc_refund_tx", "btc_claim_tx"}
ClaimDetails == {"claim_ring_w", "claim_msg", "claim_pi", "claim_tx"}
Artefacts == UnsignedTxs \cup ClaimDetails
               \cup {"claim_ring", "pric_plan", "btc_plan", "btc_funding_tx", "peer_keys"}

Timelocks == [pric: Heights, foreign: Heights, delta: Heights]

Swap == [role: Roles, chain: Chains, state: States,
         T: Secrets \cup {None}, t: Secrets \cup {None}, timelocks: Timelocks \cup {None},
         presigs: SUBSET PreSigParts, once: [Artefacts -> Contents \cup {None}],
         pric_funding: Contents \cup {None}, scratch: SUBSET Scratch]

Slot == Swap \cup {NoSwap}

ASSUME Distinguished ==
    /\ None \notin Secrets \cup Timelocks \cup Contents
    /\ NoSwap \notin Swap
    /\ Heights \subseteq Int
    /\ Candidates \in [Artefacts -> SUBSET Contents]

NewSwap(role, chain) ==
    [role |-> role, chain |-> chain, state |-> "Setup", T |-> None, t |-> None,
     timelocks |-> None, presigs |-> {}, once |-> [a \in Artefacts |-> None],
     pric_funding |-> None, scratch |-> {}]

-----------------------------------------------------------------------------
(* What the calls test. *)

\* Bug: the margin is not compared with its minimum.
ValidateRefundTimelocksOrderOnly(l) ==
    l.pric > 0 /\ l.foreign > 0 /\ l.delta > 0 /\ l.foreign > l.pric

ValidateRefundTimelocks(l) ==
    /\ l.pric > 0 /\ l.foreign > 0 /\ l.delta > 0
    /\ l.foreign > l.pric
    /\ l.foreign - l.pric >= l.delta

IsComplete(parts, chain) ==
    /\ {"pric_claim", "pric_refund"} \subseteq parts
    /\ chain = "ltc" \/ {"btc_claim", "btc_refund"} \subseteq parts

\* The state RecomputeAdaptorReady leaves s in.
RecomputeAdaptorReady(s) ==
    IF s.state = "Setup" /\ s.T # None /\ s.timelocks # None
         /\ ValidateRefundTimelocks(s.timelocks)
    THEN "AdaptorReady" ELSE s.state

In(s, states) == s # NoSwap /\ s.state \in states

\* The artefacts in the domain of v are empty in s or hold what v offers.
Agrees(s, v) == \A a \in DOMAIN v : s.once[a] \in {None, v[a]}

Filled(s, v) == [a \in Artefacts |-> IF a \in DOMAIN v THEN v[a] ELSE s.once[a]]

\* What callers offer for the artefacts A.
Offers(A) == {v \in [A -> Contents] : \A a \in A : v[a] \in Candidates[a]}

-----------------------------------------------------------------------------
(* Setting the swap up. *)

\* Bug: a replayed swap_start creates the record anew.
CreateAgain(s, r) == \E role \in Roles, chain \in Chains : r = NewSwap(role, chain)

\* A swap_id that has a record already is left as it is.
Create(s, r) ==
    /\ s = NoSwap
    /\ \E role \in Roles, chain \in Chains : r = NewSwap(role, chain)

\* Bug: Bob's secret is stored only if the timelocks are still missing.
SetAdaptorMaterialsLosingT(s, r) ==
    /\ In(s, {"Setup"})
    /\ \E t \in Secrets :
        LET u == [s EXCEPT !.T = t,
                           !.t = IF s.role = "Bob" /\ s.timelocks = None THEN t ELSE @]
        IN  r = [u EXCEPT !.state = RecomputeAdaptorReady(u)]

\* Bob gives t with T, Alice gives only T.
SetAdaptorMaterials(s, r) ==
    /\ In(s, {"Setup"})
    /\ \E t \in Secrets :
        LET u == [s EXCEPT !.T = t, !.t = IF s.role = "Bob" THEN t ELSE @]
        IN  r = [u EXCEPT !.state = RecomputeAdaptorReady(u)]

SetRefundTimelocks(s, r) ==
    /\ In(s, {"Setup"})
    /\ \E l \in Timelocks :
        /\ ValidateRefundTimelocks(l)
        /\ LET u == [s EXCEPT !.timelocks = l]
           IN  r = [u EXCEPT !.state = RecomputeAdaptorReady(u)]

SetPeerStealthPubkeys(s, r) ==
    /\ In(s, States \ Terminal)
    /\ \E v \in Offers({"peer_keys"}) : Agrees(s, v) /\ r = [s EXCEPT !.once = Filled(s, v)]

-----------------------------------------------------------------------------
(* The signing ceremonies. *)

\* SetPricEphemeralR and SetCoopsignSession; an empty session JSON clears its field.
SetScratch(s, r) ==
    /\ In(s, States \ Terminal)
    /\ \E f \in Scratch : \E S \in {s.scratch \cup {f}, s.scratch \ {f}} :
        /\ f = "pric_ephemeral_r" => f \in S
        /\ r = [s EXCEPT !.scratch = S]

\* SetPricRefundTx, SetBtcRefundTx, SetBtcClaimTx
SetUnsignedTx(s, r) ==
    /\ In(s, States \ (Terminal \cup {"Setup"}))
    /\ \E a \in UnsignedTxs : \E v \in Offers({a}) :
        Agrees(s, v) /\ r = [s EXCEPT !.once = Filled(s, v)]

\* The ring comes with any of its details; one that clashes refuses them all.
SetPricClaimRing(s, r) ==
    /\ In(s, States)
    /\ \E D \in SUBSET ClaimDetails : \E v \in Offers({"claim_ring"} \cup D) :
        Agrees(s, v) /\ r = [s EXCEPT !.once = Filled(s, v)]

\* The plan also names the funding transaction if nothing else has.
SetPricFundingPlanned(s, r) ==
    /\ In(s, {"Setup", "AdaptorReady", "PreSigned", "BtcFunded"})
    /\ \E v \in Offers({"pric_plan"}) :
        /\ Agrees(s, v)
        /\ r = [s EXCEPT !.once = Filled(s, v),
                         !.pric_funding = IF @ = None THEN v["pric_plan"] ELSE @]

\* Bug: a late message points the ceremony at another outpoint.
SetBtcFundingRepointed(s, r) ==
    /\ In(s, {"Setup", "AdaptorReady", "PreSigned"}) /\ s.chain = "btc"
    /\ \E D \in SUBSET {"btc_funding_tx"} : \E v \in Offers({"btc_plan"} \cup D) :
        r = [s EXCEPT !.once = Filled(s, v)]

\* Only the funder adds the signed transaction.
SetBtcFundingPlanned(s, r) ==
    /\ In(s, {"Setup", "AdaptorReady", "PreSigned"})
    /\ s.chain = "btc"
    /\ \E D \in SUBSET {"btc_funding_tx"} : \E v \in Offers({"btc_plan"} \cup D) :
        Agrees(s, v) /\ r = [s EXCEPT !.once = Filled(s, v)]

SetPreSigned(s, r) ==
    /\ In(s, {"AdaptorReady"})
    /\ \E parts \in SUBSET PreSigParts :
        /\ IsComplete(parts, s.chain)
        /\ r = [s EXCEPT !.presigs = parts, !.state = "PreSigned"]

-----------------------------------------------------------------------------
(* Funding, claiming, settling. *)

\* Bug: the pre-signatures are not asked for.
SetBtcFundedUnsigned(s, r) ==
    In(s, {"AdaptorReady", "PreSigned"}) /\ r = [s EXCEPT !.state = "BtcFunded"]

SetBtcFunded(s, r) ==
    /\ In(s, {"AdaptorReady", "PreSigned"})
    /\ IsComplete(s.presigs, s.chain)
    /\ r = [s EXCEPT !.state = "BtcFunded"]

SetPricFunded(s, r) ==
    /\ In(s, {"BtcFunded"})
    /\ \E c \in Candidates["pric_plan"] :
        r = [s EXCEPT !.state = "BothFunded", !.pric_funding = c]

\* Bob's t is on the chain now and is wiped.
SetPricClaimed(s, r) ==
    /\ In(s, {"BothFunded"})
    /\ r = [s EXCEPT !.state = "PricClaimed", !.t = IF s.role = "Bob" THEN None ELSE @]

SetTSecret(t, s, r) ==
    /\ In(s, States)
    /\ s.t \in {None, t}
    /\ r = [s EXCEPT !.t = t]

SetComplete(s, r) == In(s, {"PricClaimed"}) /\ r = [s EXCEPT !.state = "Complete"]

SetRefunded(s, r) ==
    In(s, {"BtcFunded", "BothFunded", "PricClaimed"}) /\ r = [s EXCEPT !.state = "Refunded"]

Abort(s, r) ==
    In(s, States \ Terminal) /\ r = [s EXCEPT !.state = "Aborted", !.t = None]

\* The calls an operator, the GUI driver or the chain watcher makes.
Call(s, r) ==
    \/ Create(s, r)
    \/ SetAdaptorMaterials(s, r)
    \/ SetRefundTimelocks(s, r)
    \/ SetPeerStealthPubkeys(s, r)
    \/ SetScratch(s, r)
    \/ SetUnsignedTx(s, r)
    \/ SetPricClaimRing(s, r)
    \/ SetPricFundingPlanned(s, r)
    \/ SetBtcFundingPlanned(s, r)
    \/ SetPreSigned(s, r)
    \/ SetBtcFunded(s, r)
    \/ SetPricFunded(s, r)
    \/ SetPricClaimed(s, r)
    \/ SetComplete(s, r)
    \/ SetRefunded(s, r)
    \/ Abort(s, r)

\* The call each state's NextActionHint tells the operator to make next.
NextActionHint(s) ==
    CASE s.state = "Setup" /\ s.T = None -> "SetAdaptorMaterials"
      [] s.state = "Setup" /\ s.T # None -> "SetRefundTimelocks"
      [] s.state = "AdaptorReady" -> "SetBtcFunded"
      [] s.state = "BtcFunded" -> "SetPricFunded"
      [] s.state = "BothFunded" -> "SetPreSigned"
      [] s.state = "PreSigned" -> "SetPricClaimed"
      [] s.state = "PricClaimed" -> IF s.role = "Alice" THEN "SetComplete" ELSE "SetRefunded"
      [] OTHER -> "None"
-----------------------------------------------------------------------------
(* What no call undoes. *)

\* How far the protocol is; a settled swap is furthest.
Progress ==
    [Setup |-> 0, AdaptorReady |-> 1, PreSigned |-> 2, BtcFunded |-> 3, BothFunded |-> 4,
     PricClaimed |-> 5, Complete |-> 6, Refunded |-> 6, Aborted |-> 6]

\* r is not behind s, and it is settled as s is.
Forward(s, r) ==
    s # NoSwap =>
        /\ r # NoSwap
        /\ Progress[r.state] >= Progress[s.state]
        /\ s.state \in Terminal => r.state = s.state

\* r has what the parties to s have signed over.
Keeps(s, r) ==
    s # NoSwap =>
        /\ \A a \in Artefacts : s.once[a] # None => r.once[a] = s.once[a]
        /\ r.role = s.role /\ r.chain = s.chain
        /\ s.state # "Setup" => r.T = s.T /\ r.timelocks = s.timelocks
        /\ s.presigs # {} => r.presigs = s.presigs
==================================================================================
