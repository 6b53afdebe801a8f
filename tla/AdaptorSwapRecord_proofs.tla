------------------------ MODULE AdaptorSwapRecord_proofs ------------------------
(***************************************************************************)
(* What one accepted call does to a swap record, call by call.             *)
(*                                                                         *)
(* The store of the record and the chain watcher that moves it on make     *)
(* these calls and no others, and their proofs rest on these lemmas.       *)
(***************************************************************************)
EXTENDS AdaptorSwapRecord, TLAPS

Unsigned == {"Setup", "AdaptorReady"}
Unfunded == {"Setup", "Aborted"}

\* What every call preserves of a record: past Setup the materials are there and
\* the heights are valid, past AdaptorReady the pre-signatures are complete, and
\* before it there are none; t is the one behind T, Bob has it from the moment T
\* is set, in Setup too, and Alice has none before the pre-signatures.
RecordInv(s) ==
    s # NoSwap =>
        /\ s.state \notin Unfunded =>
            s.T # None /\ s.timelocks # None /\ ValidateRefundTimelocks(s.timelocks)
        /\ s.state \notin Unsigned \cup Unfunded => IsComplete(s.presigs, s.chain)
        /\ s.state \in Unsigned => s.presigs = {}
        /\ s.t \in {None, s.T}
        /\ s.role = "Alice" /\ s.state \in Unsigned => s.t = None
        /\ s.role = "Bob" /\ s.T # None /\ s.state \in Unsigned \cup {"PreSigned", "BtcFunded", "BothFunded"}
             => s.t # None

\* One accepted call, as the theorems below need it.
Sound(s, r) == r \in Swap /\ RecordInv(r) /\ Forward(s, r) /\ Keeps(s, r)

\* The ranks of the states, one by one.
LEMMA ProgressValues ==
    /\ Progress["Setup"] = 0 /\ Progress["AdaptorReady"] = 1 /\ Progress["PreSigned"] = 2
    /\ Progress["BtcFunded"] = 3 /\ Progress["BothFunded"] = 4 /\ Progress["PricClaimed"] = 5
    /\ \A q \in Terminal : Progress[q] = 6
    /\ \A q \in States : Progress[q] \in 0..6
BY DEF Progress, Terminal, States

\* A record is not the absence of one.
LEMMA SwapIsSwap == \A s \in Swap : s # NoSwap
BY Distinguished

\* The funding transactions callers report are contents of the record.
LEMMA PlanFits == Candidates["pric_plan"] \subseteq Contents
BY Distinguished DEF Artefacts

\* Filling artefacts keeps the table's type, and changes none that was filled.
LEMMA FilledFacts ==
    ASSUME NEW s \in Swap, NEW A \in SUBSET Artefacts, NEW v \in Offers(A), Agrees(s, v)
    PROVE  /\ Filled(s, v) \in [Artefacts -> Contents \cup {None}]
           /\ \A a \in Artefacts : s.once[a] # None => Filled(s, v)[a] = s.once[a]
<1>1. v \in [A -> Contents]
  BY DEF Offers
<1>2. s.once \in [Artefacts -> Contents \cup {None}]
  BY DEF Swap
<1>3. \A a \in A : s.once[a] \in {None, v[a]}
  BY <1>1 DEF Agrees
<1> QED
  BY <1>1, <1>2, <1>3 DEF Filled

\* A call that only fills artefacts is sound.
LEMMA FillSound ==
    ASSUME NEW s \in Swap, RecordInv(s), NEW once \in [Artefacts -> Contents \cup {None}],
           \A a \in Artefacts : s.once[a] # None => once[a] = s.once[a]
    PROVE  Sound(s, [s EXCEPT !.once = once])
<1> DEFINE r == [s EXCEPT !.once = once]
<1>1. r \in Swap
  BY DEF Swap
<1>2. s # NoSwap /\ r # NoSwap
  BY <1>1, Distinguished
<1>3. /\ r.role = s.role /\ r.chain = s.chain /\ r.state = s.state /\ r.T = s.T /\ r.t = s.t
      /\ r.timelocks = s.timelocks /\ r.presigs = s.presigs /\ r.once = once
  BY DEF Swap
<1>4. RecordInv(r)
  BY <1>2, <1>3 DEF RecordInv
<1>5. s.state \in States
  BY DEF Swap
<1>6. Forward(s, r) /\ Keeps(s, r)
  BY <1>2, <1>3, <1>5, ProgressValues DEF Forward, Keeps
<1> QED
  BY <1>1, <1>4, <1>6 DEF Sound

\* Every call but SetTSecret, made on a record that satisfies the invariant, is sound.
LEMMA CallSound ==
    ASSUME NEW s \in Slot, RecordInv(s), NEW r, Call(s, r)
    PROVE  Sound(s, r)
<1>1. CASE Create(s, r)
  <2>1. PICK role \in Roles, chain \in Chains : r = NewSwap(role, chain)
    BY <1>1 DEF Create
  <2>2. r \in Swap
    BY <2>1 DEF NewSwap, Swap, States
  <2>3. RecordInv(r)
    BY <2>1 DEF NewSwap, RecordInv, Unsigned, Unfunded
  <2> QED
    BY <1>1, <2>2, <2>3 DEF Sound, Forward, Keeps, Create
<1>2. ASSUME s \in Swap, s # NoSwap
      PROVE  Sound(s, r)
  <2> USE <1>2
  <2>0. /\ s.role \in Roles /\ s.chain \in Chains /\ s.state \in States
        /\ s.T \in Secrets \cup {None} /\ s.t \in Secrets \cup {None}
        /\ s.timelocks \in Timelocks \cup {None} /\ s.presigs \in SUBSET PreSigParts
        /\ s.once \in [Artefacts -> Contents \cup {None}]
        /\ s.pric_funding \in Contents \cup {None} /\ s.scratch \in SUBSET Scratch
    BY DEF Swap
  <2>1. CASE SetAdaptorMaterials(s, r)
    <3>1. s.state = "Setup"
      BY <2>1 DEF SetAdaptorMaterials, In
    <3>2. PICK t \in Secrets :
            LET u == [s EXCEPT !.T = t, !.t = IF s.role = "Bob" THEN t ELSE @]
            IN  r = [u EXCEPT !.state = RecomputeAdaptorReady(u)]
      BY <2>1 DEF SetAdaptorMaterials
    <3> DEFINE u == [s EXCEPT !.T = t, !.t = IF s.role = "Bob" THEN t ELSE @]
               q == RecomputeAdaptorReady(u)
    <3>a. /\ u.state = "Setup" /\ u.T = t /\ u.timelocks = s.timelocks
          /\ u.t = IF s.role = "Bob" THEN t ELSE s.t
      BY <2>0, <3>1 DEF Swap
    <3>b. \/ q = "Setup"
          \/ /\ q = "AdaptorReady" /\ s.timelocks # None
             /\ ValidateRefundTimelocks(s.timelocks)
      BY <3>a DEF RecomputeAdaptorReady
    <3>c. u \in Swap
      BY <2>0 DEF Swap
    <3>d. r = [u EXCEPT !.state = q]
      BY <3>2
    <3> HIDE DEF u, q
    <3>3. r \in Swap
      BY <3>b, <3>c, <3>d DEF Swap, States
    <3>e. u.role = s.role /\ u.chain = s.chain /\ u.presigs = s.presigs /\ u.once = s.once
      BY <2>0 DEF Swap, u
    <3>4. /\ r.role = s.role /\ r.chain = s.chain /\ r.state = q /\ r.T = t
          /\ r.t = IF s.role = "Bob" THEN t ELSE s.t
          /\ r.timelocks = s.timelocks /\ r.presigs = s.presigs /\ r.once = s.once
      BY <3>a, <3>c, <3>d, <3>e DEF Swap
    <3>5. RecordInv(r)
      BY <2>0, <3>1, <3>b, <3>3, <3>4, SwapIsSwap, Distinguished
         DEF RecordInv, Unsigned, Unfunded, States, Terminal, Roles
    <3>6. Forward(s, r) /\ Keeps(s, r)
      BY <2>0, <3>1, <3>b, <3>3, <3>4, ProgressValues, SwapIsSwap
         DEF Forward, Keeps, Terminal, RecordInv, Unsigned
    <3> QED
      BY <3>3, <3>5, <3>6 DEF Sound
  <2>2. CASE SetRefundTimelocks(s, r)
    <3>1. s.state = "Setup"
      BY <2>2 DEF SetRefundTimelocks, In
    <3>2. PICK l \in Timelocks :
            /\ ValidateRefundTimelocks(l)
            /\ LET u == [s EXCEPT !.timelocks = l]
               IN  r = [u EXCEPT !.state = RecomputeAdaptorReady(u)]
      BY <2>2 DEF SetRefundTimelocks
    <3> DEFINE u == [s EXCEPT !.timelocks = l]
               q == RecomputeAdaptorReady(u)
    <3>a. u.state = "Setup" /\ u.T = s.T /\ u.timelocks = l
      BY <2>0, <3>1 DEF Swap
    <3>b. q = "Setup" \/ (q = "AdaptorReady" /\ s.T # None)
      BY <3>a DEF RecomputeAdaptorReady
    <3>c. u \in Swap
      BY <2>0 DEF Swap
    <3>d. r = [u EXCEPT !.state = q]
      BY <3>2
    <3>e. /\ u.role = s.role /\ u.chain = s.chain /\ u.presigs = s.presigs /\ u.once = s.once
          /\ u.t = s.t
      BY <2>0 DEF Swap
    <3> HIDE DEF u, q
    <3>3. r \in Swap
      BY <3>b, <3>c, <3>d DEF Swap, States
    <3>4. /\ r.role = s.role /\ r.chain = s.chain /\ r.state = q /\ r.T = s.T /\ r.t = s.t
          /\ r.timelocks = l /\ r.presigs = s.presigs /\ r.once = s.once
      BY <3>a, <3>c, <3>d, <3>e DEF Swap
    <3>5. RecordInv(r)
      BY <2>0, <3>1, <3>2, <3>b, <3>3, <3>4, SwapIsSwap, Distinguished
         DEF RecordInv, Unsigned, Unfunded, States, Terminal, Roles
    <3>6. Forward(s, r) /\ Keeps(s, r)
      BY <2>0, <3>1, <3>2, <3>b, <3>3, <3>4, ProgressValues, SwapIsSwap
         DEF Forward, Keeps, Terminal, RecordInv, Unsigned
    <3> QED
      BY <3>3, <3>5, <3>6 DEF Sound
  <2>3. CASE SetPeerStealthPubkeys(s, r)
    <3>1. PICK v \in Offers({"peer_keys"}) : Agrees(s, v) /\ r = [s EXCEPT !.once = Filled(s, v)]
      BY <2>3 DEF SetPeerStealthPubkeys
    <3>2. {"peer_keys"} \in SUBSET Artefacts
      BY DEF Artefacts
    <3> QED
      BY <3>1, <3>2, FilledFacts, FillSound
  <2>4. CASE SetScratch(s, r)
    BY <2>0, <2>4, ProgressValues, Distinguished DEF Sound, Forward, Keeps, RecordInv, Unsigned, Unfunded, In, States, Terminal, Swap, SetScratch
  <2>5. CASE SetUnsignedTx(s, r)
    <3>1. PICK a \in UnsignedTxs : \E v \in Offers({a}) :
            Agrees(s, v) /\ r = [s EXCEPT !.once = Filled(s, v)]
      BY <2>5 DEF SetUnsignedTx
    <3>2. {a} \in SUBSET Artefacts
      BY DEF Artefacts
    <3> QED
      BY <3>1, <3>2, FilledFacts, FillSound
  <2>6. CASE SetPricClaimRing(s, r)
    <3>1. PICK D \in SUBSET ClaimDetails : \E v \in Offers({"claim_ring"} \cup D) :
            Agrees(s, v) /\ r = [s EXCEPT !.once = Filled(s, v)]
      BY <2>6 DEF SetPricClaimRing
    <3>2. {"claim_ring"} \cup D \in SUBSET Artefacts
      BY DEF Artefacts
    <3> QED
      BY <3>1, <3>2, FilledFacts, FillSound
  <2>7. CASE SetPricFundingPlanned(s, r)
    <3>1. PICK v \in Offers({"pric_plan"}) :
            /\ Agrees(s, v)
            /\ r = [s EXCEPT !.once = Filled(s, v),
                             !.pric_funding = IF @ = None THEN v["pric_plan"] ELSE @]
      BY <2>7 DEF SetPricFundingPlanned
    <3>2. v["pric_plan"] \in Contents
      BY DEF Offers
    <3>3. {"pric_plan"} \in SUBSET Artefacts
      BY DEF Artefacts
    <3> DEFINE u == [s EXCEPT !.once = Filled(s, v)]
               c == IF s.pric_funding = None THEN v["pric_plan"] ELSE s.pric_funding
    <3>4. Sound(s, u)
      BY <3>1, <3>3, FilledFacts, FillSound
    <3>5. r = [u EXCEPT !.pric_funding = c] /\ c \in Contents \cup {None}
      BY <2>0, <3>1, <3>2 DEF Swap
    <3>6. u \in Swap
      BY <3>4 DEF Sound
    <3> HIDE DEF u, c
    <3>7. r \in Swap
      BY <3>5, <3>6 DEF Swap
    <3>8. /\ r.role = u.role /\ r.chain = u.chain /\ r.state = u.state /\ r.T = u.T
          /\ r.t = u.t /\ r.timelocks = u.timelocks /\ r.presigs = u.presigs /\ r.once = u.once
      BY <3>5, <3>6 DEF Swap
    <3> QED
      BY <3>4, <3>6, <3>7, <3>8, SwapIsSwap DEF Sound, RecordInv, Forward, Keeps
  <2>8. CASE SetBtcFundingPlanned(s, r)
    <3>1. PICK D \in SUBSET {"btc_funding_tx"} : \E v \in Offers({"btc_plan"} \cup D) :
            Agrees(s, v) /\ r = [s EXCEPT !.once = Filled(s, v)]
      BY <2>8 DEF SetBtcFundingPlanned
    <3>2. {"btc_plan"} \cup D \in SUBSET Artefacts
      BY DEF Artefacts
    <3> QED
      BY <3>1, <3>2, FilledFacts, FillSound
  <2>9. CASE SetPreSigned(s, r)
    <3>1. s.state = "AdaptorReady" /\ \E parts \in SUBSET PreSigParts :
            IsComplete(parts, s.chain) /\ r = [s EXCEPT !.presigs = parts, !.state = "PreSigned"]
      BY <2>9 DEF SetPreSigned, In
    <3>2. r \in Swap
      BY <2>0, <3>1 DEF Swap, States, Terminal
    <3>3. /\ r.role = s.role /\ r.chain = s.chain /\ r.state = "PreSigned" /\ r.T = s.T /\ r.t = s.t
          /\ r.timelocks = s.timelocks /\ IsComplete(r.presigs, s.chain) /\ r.once = s.once /\ r.pric_funding = s.pric_funding /\ r.scratch = s.scratch
      BY <2>0, <3>1 DEF Swap
    <3>4. RecordInv(r)
      BY <2>0, <3>1, <3>2, <3>3, SwapIsSwap DEF RecordInv, Unsigned, Unfunded, States, Terminal
    <3>5. Forward(s, r) /\ Keeps(s, r)
      BY <2>0, <3>1, <3>2, <3>3, ProgressValues, SwapIsSwap DEF Forward, Keeps, States, Terminal, RecordInv, Unsigned
    <3> QED
      BY <3>2, <3>4, <3>5 DEF Sound
  <2>10. CASE SetBtcFunded(s, r)
    BY <2>0, <2>10, ProgressValues, Distinguished DEF Sound, Forward, Keeps, RecordInv, Unsigned, Unfunded, In, States, Terminal, Swap, SetBtcFunded
  <2>11. CASE SetPricFunded(s, r)
    <3>1. s.state = "BtcFunded" /\ \E c \in Candidates["pric_plan"] :
            r = [s EXCEPT !.state = "BothFunded", !.pric_funding = c]
      BY <2>11 DEF SetPricFunded, In
    <3>2. r \in Swap
      BY <2>0, <3>1, PlanFits DEF Swap, States, Terminal
    <3>3. /\ r.role = s.role /\ r.chain = s.chain /\ r.state = "BothFunded" /\ r.T = s.T /\ r.t = s.t
          /\ r.timelocks = s.timelocks /\ r.presigs = s.presigs /\ r.once = s.once /\ r.scratch = s.scratch
      BY <2>0, <3>1 DEF Swap
    <3>4. RecordInv(r)
      BY <2>0, <3>1, <3>2, <3>3, SwapIsSwap DEF RecordInv, Unsigned, Unfunded, States, Terminal
    <3>5. Forward(s, r) /\ Keeps(s, r)
      BY <2>0, <3>1, <3>2, <3>3, ProgressValues, SwapIsSwap DEF Forward, Keeps, States, Terminal
    <3> QED
      BY <3>2, <3>4, <3>5 DEF Sound
  <2>12. CASE SetPricClaimed(s, r)
    <3>1. s.state = "BothFunded" /\ r = [s EXCEPT !.state = "PricClaimed", !.t = IF s.role = "Bob" THEN None ELSE @]
      BY <2>12 DEF SetPricClaimed, In
    <3>2. r \in Swap
      BY <2>0, <3>1 DEF Swap, States, Terminal
    <3>3. /\ r.role = s.role /\ r.chain = s.chain /\ r.state = "PricClaimed" /\ r.T = s.T /\ r.t = IF s.role = "Bob" THEN None ELSE s.t
          /\ r.timelocks = s.timelocks /\ r.presigs = s.presigs /\ r.once = s.once /\ r.pric_funding = s.pric_funding /\ r.scratch = s.scratch
      BY <2>0, <3>1 DEF Swap
    <3>4. RecordInv(r)
      BY <2>0, <3>1, <3>2, <3>3, SwapIsSwap DEF RecordInv, Unsigned, Unfunded, States, Terminal
    <3>5. Forward(s, r) /\ Keeps(s, r)
      BY <2>0, <3>1, <3>2, <3>3, ProgressValues, SwapIsSwap DEF Forward, Keeps, States, Terminal
    <3> QED
      BY <3>2, <3>4, <3>5 DEF Sound
  <2>13. CASE SetComplete(s, r)
    BY <2>0, <2>13, ProgressValues, Distinguished DEF Sound, Forward, Keeps, RecordInv, Unsigned, Unfunded, In, States, Terminal, Swap, SetComplete
  <2>14. CASE SetRefunded(s, r)
    BY <2>0, <2>14, ProgressValues, Distinguished DEF Sound, Forward, Keeps, RecordInv, Unsigned, Unfunded, In, States, Terminal, Swap, SetRefunded
  <2>15. CASE Abort(s, r)
    <3>1. s.state \in States \ Terminal /\ r = [s EXCEPT !.state = "Aborted", !.t = None]
      BY <2>15 DEF Abort, In
    <3>2. r \in Swap
      BY <2>0, <3>1 DEF Swap, States, Terminal
    <3>3. /\ r.role = s.role /\ r.chain = s.chain /\ r.state = "Aborted" /\ r.T = s.T /\ r.t = None
          /\ r.timelocks = s.timelocks /\ r.presigs = s.presigs /\ r.once = s.once /\ r.pric_funding = s.pric_funding /\ r.scratch = s.scratch
      BY <2>0, <3>1 DEF Swap
    <3>4. RecordInv(r)
      BY <2>0, <3>1, <3>2, <3>3, SwapIsSwap DEF RecordInv, Unsigned, Unfunded, States, Terminal
    <3>5. Forward(s, r) /\ Keeps(s, r)
      BY <2>0, <3>1, <3>2, <3>3, ProgressValues, SwapIsSwap DEF Forward, Keeps, States, Terminal
    <3> QED
      BY <3>2, <3>4, <3>5 DEF Sound
  <2>16. ~Create(s, r)
    BY DEF Create
  <2> QED
    BY <2>1, <2>2, <2>3, <2>4, <2>5, <2>6, <2>7, <2>8, <2>9, <2>10, <2>11, <2>12, <2>13,
       <2>14, <2>15, <2>16 DEF Call
<1>3. s # NoSwap \/ Create(s, r)
  BY DEF Call, Create, In, SetAdaptorMaterials, SetRefundTimelocks, SetPeerStealthPubkeys,
         SetScratch, SetUnsignedTx, SetPricClaimRing, SetPricFundingPlanned,
         SetBtcFundingPlanned, SetPreSigned, SetBtcFunded, SetPricFunded, SetPricClaimed,
         SetComplete, SetRefunded, Abort
<1> QED
  BY <1>1, <1>2, <1>3 DEF Slot

\* Storing the t behind T in a swap whose pre-signatures are there is sound.
LEMMA RecoverSound ==
    ASSUME NEW s \in Swap, RecordInv(s), NEW r, "pric_claim" \in s.presigs,
           SetTSecret(s.T, s, r)
    PROVE  Sound(s, r)
<1>1. r = [s EXCEPT !.t = s.T]
  BY DEF SetTSecret
<1>2. r \in Swap /\ s \in Swap
  BY <1>1 DEF Swap
<1>3. /\ r.role = s.role /\ r.chain = s.chain /\ r.state = s.state /\ r.T = s.T /\ r.t = s.T
      /\ r.timelocks = s.timelocks /\ r.presigs = s.presigs /\ r.once = s.once
  BY <1>1 DEF Swap
<1>4. s.state \in States
  BY DEF Swap
<1>5. s.state \notin Unsigned
  BY SwapIsSwap DEF RecordInv
<1>6. RecordInv(r)
  BY <1>2, <1>3, <1>5, SwapIsSwap DEF RecordInv
<1>7. Forward(s, r) /\ Keeps(s, r)
  BY <1>2, <1>3, <1>4, ProgressValues, SwapIsSwap DEF Forward, Keeps
<1> QED
  BY <1>2, <1>6, <1>7 DEF Sound

\* A record that is not touched is forward of itself and keeps what it has.
LEMMA SameSound ==
    ASSUME NEW s \in Slot
    PROVE  Forward(s, s) /\ Keeps(s, s)
<1>1. s # NoSwap => s.state \in States
  BY DEF Slot, Swap
<1> QED
  BY <1>1, ProgressValues DEF Forward, Keeps

\* Two sound changes in a row are one.
LEMMA SoundTransitive ==
    ASSUME NEW s \in Swap, NEW q \in Swap, NEW r, Sound(s, q), Sound(q, r)
    PROVE  Sound(s, r)
<1>1. r \in Swap /\ RecordInv(r)
  BY DEF Sound
<1>2. s # NoSwap /\ q # NoSwap /\ r # NoSwap
  BY <1>1, SwapIsSwap
<1>3. s.state \in States /\ q.state \in States /\ r.state \in States
  BY <1>1 DEF Swap
<1>4. Forward(s, r)
  <2>1. Progress[s.state] \in 0..6 /\ Progress[q.state] \in 0..6 /\ Progress[r.state] \in 0..6
    BY <1>3, ProgressValues
  <2> QED BY <1>2, <2>1 DEF Sound, Forward
<1>5. Keeps(s, r)
  <2>1. s.state # "Setup" => q.state # "Setup"
    BY <1>2, <1>3, ProgressValues DEF Sound, Forward, States, Terminal
  <2> QED BY <1>2, <2>1 DEF Sound, Keeps
<1> QED BY <1>1, <1>4, <1>5 DEF Sound
=================================================================================
