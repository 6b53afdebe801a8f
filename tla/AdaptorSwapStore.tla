---------------------------- MODULE AdaptorSwapStore ----------------------------
(***************************************************************************)
(* A swap record between a cache and the wallet database.                  *)
(*                                                                         *)
(* Every call holds the module's mutex, fills the cache from the database  *)
(* on first use, changes the cached record and writes it; a refused call   *)
(* or a failed write restores the cached record.  The wallet may be        *)
(* locked, and may stop, between any two calls.                            *)
(*                                                                         *)
(* Two callers make several calls without holding the mutex in between:    *)
(* the wallet's transaction scan matches a claim, stores the recovered t   *)
(* and then records the claim, and the extraction RPC reads the record and *)
(* then stores t.                                                          *)
(***************************************************************************)
EXTENDS AdaptorSwapRecord

VARIABLES
    db,         \* the row of the swap in the wallet database
    mem,        \* its entry in WalletCache.by_id
    loaded,     \* WalletCache.loaded
    unlocked,   \* RequireUnlocked(wallet)
    scan,       \* how far AddToWalletIfInvolvingMe is with a matched claim
    extracting  \* an extraction RPC has read the record and not stored t yet

vars == <<db, mem, loaded, unlocked, scan, extracting>>

Abstract == INSTANCE AdaptorSwap WITH swap <- db

Init ==
    /\ db = NoSwap
    /\ mem = NoSwap
    /\ loaded = FALSE
    /\ unlocked \in BOOLEAN
    /\ scan = "idle"
    /\ extracting = FALSE

-----------------------------------------------------------------------------
(* The cache. *)

\* The record a call works on: EnsureLoadedLocked has read the row.
Cache == IF loaded THEN mem ELSE db

\* A row could not be read or decrypted: what was read before it stays, unused.
LoadFails ==
    /\ unlocked /\ ~loaded
    /\ mem' \in {mem, db}
    /\ UNCHANGED <<db, loaded, unlocked, scan, extracting>>

\* Bug: a failed write leaves the changed record in the cache.
NotPersistedKeptInCache ==
    /\ unlocked /\ loaded' = TRUE
    /\ Call(Cache, mem')
    /\ UNCHANGED db

\* The call refused, its write failed, or it only reads.
NotPersisted ==
    /\ unlocked /\ loaded' = TRUE
    /\ mem' = Cache
    /\ UNCHANGED db

\* The call wrote the row of its record, db'.
Persisted == unlocked /\ loaded' = TRUE /\ mem' = db'

Locked == ~unlocked /\ UNCHANGED <<db, mem, loaded>>

CallOk ==
    /\ Call(Cache, db')
    /\ Persisted
    /\ UNCHANGED <<unlocked, scan, extracting>>

CallFails == NotPersisted /\ UNCHANGED <<unlocked, scan, extracting>>

-----------------------------------------------------------------------------
(* Recovering t. *)

\* Alice's swaps whose claim the scan looks for.
Claimable(s) ==
    /\ In(s, {"BothFunded", "PricClaimed"})
    /\ s.role = "Alice" /\ s.t = None
    /\ s.once["claim_ring"] # None
    /\ "pric_claim" \in s.presigs
    /\ s.pric_funding # None

ScanTxForSwapClaim ==
    /\ scan = "idle" /\ Claimable(Cache)
    /\ NotPersisted
    /\ scan' = "matched"
    /\ UNCHANGED <<unlocked, extracting>>

\* Whatever comes of it, the scan goes on to record the claim.
ScanSetTSecret ==
    /\ scan = "matched" /\ scan' = "stored"
    /\ \/ Cache # NoSwap /\ SetTSecret(Cache.T, Cache, db') /\ Persisted
       \/ NotPersisted
       \/ Locked
    /\ UNCHANGED <<unlocked, extracting>>

ScanSetPricClaimed ==
    /\ scan = "stored" /\ scan' = "idle"
    /\ \/ SetPricClaimed(Cache, db') /\ Persisted
       \/ NotPersisted
       \/ Locked
    /\ UNCHANGED <<unlocked, extracting>>

ExtractPricT ==
    /\ ~extracting
    /\ Cache # NoSwap /\ "pric_claim" \in Cache.presigs
    /\ NotPersisted
    /\ extracting' = TRUE
    /\ UNCHANGED <<unlocked, scan>>

ExtractSetTSecret ==
    /\ extracting /\ extracting' = FALSE
    /\ \/ Cache # NoSwap /\ SetTSecret(Cache.T, Cache, db') /\ Persisted
       \/ NotPersisted
       \/ Locked
    /\ UNCHANGED <<unlocked, scan>>

-----------------------------------------------------------------------------
ToggleLock ==
    /\ unlocked' = ~unlocked
    /\ UNCHANGED <<db, mem, loaded, scan, extracting>>

\* Shutdown or a crash, and the next start.
Restart ==
    /\ mem' = NoSwap /\ loaded' = FALSE
    /\ scan' = "idle" /\ extracting' = FALSE
    /\ unlocked' \in BOOLEAN
    /\ UNCHANGED db

Next ==
    \/ LoadFails \/ CallOk \/ CallFails
    \/ ScanTxForSwapClaim \/ ScanSetTSecret \/ ScanSetPricClaimed
    \/ ExtractPricT \/ ExtractSetTSecret
    \/ ToggleLock \/ Restart

Spec == Init /\ [][Next]_vars

-----------------------------------------------------------------------------
(* Properties. *)

\* The variables have their types.
TypeOK ==
    /\ db \in Slot
    /\ mem \in Slot
    /\ loaded \in BOOLEAN
    /\ unlocked \in BOOLEAN
    /\ scan \in {"idle", "matched", "stored"}
    /\ extracting \in BOOLEAN

\* The funds-safety invariant of SetBtcFunded: once a funding is recorded, and
\* until the swap is settled, the row on disk holds every pre-signature its
\* chain needs, the claim secret's image T, and refund heights that leave Alice
\* her margin, so that a wallet restarted from the row can claim or refund.  The
\* margin is the one ValidateRefundTimelocks enforces, at least delta_min_blocks
\* ("Minimum required", swap/refund.h:69); MarginIsStrict below is what the same
\* header and the documents ask for.
FundedIsRefundable ==
    In(db, {"BtcFunded", "BothFunded", "PricClaimed", "Complete", "Refunded"}) =>
        /\ {"pric_claim", "pric_refund"} \subseteq db.presigs
        /\ db.chain # "ltc" => {"btc_claim", "btc_refund"} \subseteq db.presigs
        /\ db.T # None
        /\ db.timelocks # None
        /\ db.timelocks.delta > 0
        /\ db.timelocks.foreign >= db.timelocks.pric + db.timelocks.delta

\* "T_foreign_refund > T_pric_refund + delta" (swap/refund.h:27,
\* doc/adaptor-clsag.md:962, the RPC's error text at pricoin_ct.cpp:5329).  The
\* code refuses only foreign - pric < delta (swap/refund.cpp:35) and funds a swap
\* whose heights are exactly delta apart.
MarginIsStrict ==
    In(db, {"BtcFunded", "BothFunded", "PricClaimed", "Complete", "Refunded"}) =>
        db.timelocks.foreign > db.timelocks.pric + db.timelocks.delta

\* Bob's row keeps t from the moment the swap is set up until the claim that
\* needs it is recorded (SetAdaptorMaterials, SetPricClaimed), and no call ever
\* stores a t other than the one behind T.
SecretKept ==
    db # NoSwap =>
        /\ db.t \in {None, db.T}
        /\ db.role = "Bob" /\ db.state \in {"AdaptorReady", "PreSigned", "BtcFunded", "BothFunded"}
             => db.t # None

\* No refused call, failed write or failed load leaves the cached record
\* different from the row (MutateAndPersist's rollback).
CacheMatchesRow == loaded => mem = db

\* The row's protocol state never goes back, and a settled swap stays as it was
\* settled, whatever calls, replays and restarts follow.
ForwardOnly == [][Forward(db, db')]_vars

\* What the two parties have signed over does not move under them: a planned
\* outpoint, captured transaction, ring or peer key, once on disk, is never
\* replaced or dropped; nor are the parties' roles, the chain, the
\* pre-signatures and, past Setup, T and the refund heights.
WriteOnce == [][Keeps(db, db')]_vars

\* The cache, the failing writes, the lock and the restarts are invisible in
\* the row: it changes by one whole accepted call at a time (MutateAndPersist).
Implements == Abstract!Spec

\* The call NextActionHint tells the operator to make is one the record accepts.
HintIsAccepted ==
    db # NoSwap =>
        /\ NextActionHint(db) = "SetAdaptorMaterials" => ENABLED SetAdaptorMaterials(db, db')
        /\ NextActionHint(db) = "SetRefundTimelocks" => ENABLED SetRefundTimelocks(db, db')
        /\ NextActionHint(db) = "SetPreSigned" => ENABLED SetPreSigned(db, db')
        /\ NextActionHint(db) = "SetBtcFunded" => ENABLED SetBtcFunded(db, db')
        /\ NextActionHint(db) = "SetPricFunded" => ENABLED SetPricFunded(db, db')
        /\ NextActionHint(db) = "SetPricClaimed" => ENABLED SetPricClaimed(db, db')
        /\ NextActionHint(db) = "SetComplete" => ENABLED SetComplete(db, db')
        /\ NextActionHint(db) = "SetRefunded" => ENABLED SetRefunded(db, db')
=================================================================================
