--------------------------- MODULE AdaptorSwap_proofs ---------------------------
(***************************************************************************)
(* Proofs about AdaptorSwapStore.                                          *)
(*                                                                         *)
(* What one accepted call does is proved of the record alone, in           *)
(* AdaptorSwapRecord_proofs; the store then only has to show that the row  *)
(* it writes comes from the row it read: the coherence of the cache.       *)
(***************************************************************************)
EXTENDS AdaptorSwapStore, AdaptorSwapRecord_proofs

-----------------------------------------------------------------------------
\* The inductive invariant of the store: the scan and the extraction RPC only
\* run with pre-signatures in the row, so what they store is behind T.
Inv ==
    /\ TypeOK
    /\ CacheMatchesRow
    /\ RecordInv(db)
    /\ scan # "idle" \/ extracting => db # NoSwap /\ "pric_claim" \in db.presigs

Signed(s) == s # NoSwap /\ "pric_claim" \in s.presigs

\* What a step of the store does to the row.
RowStep == db' = db \/ Call(db, db') \/ (Signed(db) /\ SetTSecret(db.T, db, db'))

\* What it does to the rest.
RestStep ==
    /\ mem' \in {NoSwap, mem, db, db'}
    /\ loaded' \in BOOLEAN /\ unlocked' \in BOOLEAN /\ extracting' \in BOOLEAN
    /\ scan' \in {"idle", "matched", "stored"}
    /\ (scan' # "idle" /\ scan = "idle") \/ (extracting' /\ ~extracting) => Signed(db) /\ db' = db

\* Every step changes the row by a whole call made on the row itself, or not at all.
LEMMA StepIsCall ==
    ASSUME Inv, [Next]_vars
    PROVE  RowStep /\ CacheMatchesRow' /\ RestStep
<1>1. Cache = db
  BY DEF Inv, CacheMatchesRow, Cache
<1>2. loaded \in BOOLEAN /\ unlocked \in BOOLEAN /\ extracting \in BOOLEAN
  BY DEF Inv, TypeOK
<1>3. scan \in {"idle", "matched", "stored"}
  BY DEF Inv, TypeOK
<1>4. loaded => mem = db
  BY DEF Inv, CacheMatchesRow
<1>5. scan # "idle" \/ extracting => Signed(db)
  BY DEF Inv, Signed
<1> USE <1>1, <1>2, <1>3, <1>4 DEF RowStep, RestStep, CacheMatchesRow
<1>6. CASE LoadFails
  BY <1>6 DEF LoadFails
<1>7. CASE CallOk
  BY <1>7 DEF CallOk, Persisted
<1>8. CASE CallFails
  BY <1>8 DEF CallFails, NotPersisted
<1>9. CASE ScanTxForSwapClaim
  BY <1>9 DEF ScanTxForSwapClaim, NotPersisted, Claimable, In, Signed
<1>10. CASE ScanSetTSecret
  <2>1. CASE Cache # NoSwap /\ SetTSecret(Cache.T, Cache, db') /\ Persisted
    BY <1>5, <1>10, <2>1 DEF ScanSetTSecret, Persisted
  <2>2. CASE NotPersisted
    BY <1>10, <2>2 DEF ScanSetTSecret, NotPersisted
  <2>3. CASE Locked
    BY <1>10, <2>3 DEF ScanSetTSecret, Locked
  <2> QED
    BY <1>10, <2>1, <2>2, <2>3 DEF ScanSetTSecret
<1>11. CASE ScanSetPricClaimed
  <2>1. CASE SetPricClaimed(Cache, db') /\ Persisted
    BY <1>5, <1>11, <2>1 DEF ScanSetPricClaimed, Persisted, Call
  <2>2. CASE NotPersisted
    BY <1>11, <2>2 DEF ScanSetPricClaimed, NotPersisted
  <2>3. CASE Locked
    BY <1>11, <2>3 DEF ScanSetPricClaimed, Locked
  <2> QED
    BY <1>11, <2>1, <2>2, <2>3 DEF ScanSetPricClaimed
<1>12. CASE ExtractPricT
  BY <1>12 DEF ExtractPricT, NotPersisted, Signed
<1>13. CASE ExtractSetTSecret
  <2>1. CASE Cache # NoSwap /\ SetTSecret(Cache.T, Cache, db') /\ Persisted
    BY <1>5, <1>13, <2>1 DEF ExtractSetTSecret, Persisted
  <2>2. CASE NotPersisted
    BY <1>13, <2>2 DEF ExtractSetTSecret, NotPersisted
  <2>3. CASE Locked
    BY <1>13, <2>3 DEF ExtractSetTSecret, Locked
  <2> QED
    BY <1>13, <2>1, <2>2, <2>3 DEF ExtractSetTSecret
<1>14. CASE ToggleLock
  BY <1>14 DEF ToggleLock
<1>15. CASE Restart
  BY <1>15 DEF Restart
<1>16. CASE UNCHANGED vars
  BY <1>16 DEF vars
<1> QED
  BY <1>6, <1>7, <1>8, <1>9, <1>10, <1>11, <1>12, <1>13, <1>14, <1>15, <1>16 DEF Next

\* A step keeps the row's invariant and moves it only forward.
LEMMA RowSound ==
    ASSUME Inv, RowStep
    PROVE  db' \in Slot /\ RecordInv(db)' /\ Forward(db, db') /\ Keeps(db, db')
<1>1. db \in Slot /\ RecordInv(db)
  BY DEF Inv, TypeOK
<1>2. CASE db' = db
  BY <1>1, <1>2, SameSound DEF RecordInv
<1>3. CASE Call(db, db')
  BY <1>1, <1>3, CallSound DEF Sound, Slot
<1>4. CASE Signed(db) /\ SetTSecret(db.T, db, db')
  <2>1. db \in Swap
    BY <1>1, <1>4 DEF Slot, Signed
  <2> QED
    BY <1>1, <1>4, <2>1, RecoverSound DEF Sound, Slot, Signed
<1> QED
  BY <1>2, <1>3, <1>4 DEF RowStep

\* The store's invariant holds in every reachable state.
THEOREM StoreInvariant == Spec => []Inv
<1>1. Init => Inv
  BY DEF Init, Inv, TypeOK, Slot, CacheMatchesRow, RecordInv
<1>2. ASSUME Inv, [Next]_vars
      PROVE  Inv'
  <2>1. RowStep /\ CacheMatchesRow' /\ RestStep
    BY <1>2, StepIsCall
  <2>2. db' \in Slot /\ RecordInv(db)' /\ Forward(db, db') /\ Keeps(db, db')
    BY <1>2, <2>1, RowSound
  <2>3. TypeOK'
    BY <1>2, <2>1, <2>2 DEF Inv, TypeOK, RestStep, Slot
  <2>4. Signed(db) => Signed(db')
    BY <2>2 DEF Signed, Forward, Keeps
  <2>5. (scan # "idle" \/ extracting => Signed(db))'
    BY <1>2, <2>1, <2>4 DEF Inv, RestStep, Signed, TypeOK
  <2> QED
    BY <2>1, <2>2, <2>3, <2>5 DEF Inv, Signed
<1> QED
  BY <1>1, <1>2, PTL DEF Spec

\* Type correctness of the store.
THEOREM TypeCorrect == Spec => []TypeOK
BY StoreInvariant, PTL DEF Inv

\* MutateAndPersist's rollback: the loaded cache is the row.
THEOREM CacheCoherence == Spec => []CacheMatchesRow
BY StoreInvariant, PTL DEF Inv

\* The funds-safety invariant of SetBtcFunded, for every set of chains, secrets,
\* heights and transactions: a funding on record has all that a refund needs on disk.
THEOREM FundsSafety == Spec => []FundedIsRefundable
<1>1. Inv => FundedIsRefundable
  <2> SUFFICES ASSUME Inv,
                      In(db, {"BtcFunded", "BothFunded", "PricClaimed", "Complete", "Refunded"})
               PROVE  FundedIsRefundable
    BY DEF FundedIsRefundable
  <2>1. db \in Swap /\ db # NoSwap /\ RecordInv(db)
    BY DEF Inv, TypeOK, Slot, In
  <2>2. /\ db.T # None /\ db.timelocks # None /\ ValidateRefundTimelocks(db.timelocks)
        /\ IsComplete(db.presigs, db.chain)
    BY <2>1 DEF RecordInv, In, Unsigned, Unfunded
  <2>3. db.timelocks \in Timelocks
    BY <2>1, <2>2 DEF Swap
  <2>4. db.timelocks.pric \in Int /\ db.timelocks.foreign \in Int /\ db.timelocks.delta \in Int
    BY <2>3, Distinguished DEF Timelocks
  <2>5. /\ db.timelocks.delta > 0
        /\ db.timelocks.foreign >= db.timelocks.pric + db.timelocks.delta
    BY <2>2, <2>4 DEF ValidateRefundTimelocks
  <2> QED
    BY <2>2, <2>5 DEF FundedIsRefundable, IsComplete
<1> QED
  BY <1>1, StoreInvariant, PTL

\* Bob's row has t until the claim is recorded, and no row has a t that is not behind its T.
THEOREM SecretDurability == Spec => []SecretKept
<1>1. Inv => SecretKept
  BY DEF Inv, SecretKept, RecordInv, Unsigned, Unfunded
<1> QED
  BY <1>1, StoreInvariant, PTL

\* The row's protocol state never goes back and a settled swap stays settled.
THEOREM NoReturn == Spec => ForwardOnly
<1>1. Inv /\ [Next]_vars => [Forward(db, db')]_vars
  BY StepIsCall, RowSound
<1> QED
  BY <1>1, StoreInvariant, PTL DEF Spec, ForwardOnly

\* What was signed over is never replaced in the row.
THEOREM SignedOverIsFixed == Spec => WriteOnce
<1>1. Inv /\ [Next]_vars => [Keeps(db, db')]_vars
  BY StepIsCall, RowSound
<1> QED
  BY <1>1, StoreInvariant, PTL DEF Spec, WriteOnce

-----------------------------------------------------------------------------
(* The store implements AdaptorSwap. *)

\* The instance's calls are the record's calls.
LEMMA SameCalls ==
    ASSUME NEW s, NEW r
    PROVE  /\ Call(s, r) => Abstract!Call(s, r)
           /\ Signed(s) /\ SetTSecret(s.T, s, r) => Abstract!Recover(s, r)
BY DEF Call, SetTSecret, Create, SetAdaptorMaterials, SetRefundTimelocks, SetPeerStealthPubkeys,
       SetScratch, SetUnsignedTx, SetPricClaimRing, SetPricFundingPlanned, SetBtcFundingPlanned,
       SetPreSigned, SetBtcFunded, SetPricFunded, SetPricClaimed, SetComplete, SetRefunded,
       Abort, Roles, NewSwap, Terminal, States, PreSigParts, UnsignedTxs, ClaimDetails,
       Artefacts, Timelocks, ValidateRefundTimelocks, IsComplete, RecomputeAdaptorReady, In,
       Agrees, Filled, Offers, SetTSecret, Abstract!Call, Abstract!SetTSecret, Abstract!Create,
       Abstract!SetAdaptorMaterials, Abstract!SetRefundTimelocks, Abstract!SetPeerStealthPubkeys,
       Abstract!SetScratch, Abstract!SetUnsignedTx, Abstract!SetPricClaimRing,
       Abstract!SetPricFundingPlanned, Abstract!SetBtcFundingPlanned, Abstract!SetPreSigned,
       Abstract!SetBtcFunded, Abstract!SetPricFunded, Abstract!SetPricClaimed,
       Abstract!SetComplete, Abstract!SetRefunded, Abstract!Abort, Abstract!Roles,
       Abstract!NewSwap, Abstract!Terminal, Abstract!States, Abstract!PreSigParts,
       Abstract!UnsignedTxs, Abstract!ClaimDetails, Abstract!Artefacts, Abstract!Timelocks,
       Abstract!ValidateRefundTimelocks, Abstract!IsComplete, Abstract!RecomputeAdaptorReady,
       Abstract!In, Abstract!Agrees, Abstract!Filled, Abstract!Offers, Abstract!SetTSecret,
       Abstract!Recover, Signed

\* The row of the store, with its cache, failures, lock and restarts, is the one
\* record of AdaptorSwap.
THEOREM Refinement == Spec => Implements
<1>1. Init => Abstract!Init
  BY DEF Init, Abstract!Init
<1>2. Inv /\ [Next]_vars => [Abstract!Next]_db
  BY StepIsCall, SameCalls DEF RowStep, Abstract!Next
<1> QED
  BY <1>1, <1>2, StoreInvariant, PTL DEF Spec, Implements, Abstract!Spec
=================================================================================
