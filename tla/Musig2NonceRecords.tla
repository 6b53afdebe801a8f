--------------------------- MODULE Musig2NonceRecords ---------------------------
(***************************************************************************)
(* Round-1 nonce records of the Bitcoin-side MuSig2 signer.                *)
(*                                                                         *)
(* pricoin_btc_musig2_round1_safe derives its nonce from the record key    *)
(* and the signing key, so a ceremony that starts again gets the nonce it  *)
(* had before.  That is only safe if the nonce signs one aggregate nonce:  *)
(* partial_sign binds the slot's record to the aggregate it signs, on      *)
(* disk, before it signs, and refuses any other aggregate.                 *)
(*                                                                         *)
(* The record calls hold the module's mutex throughout and are one action  *)
(* each.  The two RPCs that make several of them are several actions:      *)
(* partial_sign takes the secret nonce out of the runtime stash and binds  *)
(* later, nonce_reset lists the records and erases them one by one; other  *)
(* RPC threads run in between.                                             *)
(***************************************************************************)
EXTENDS Naturals, FiniteSets

CONSTANTS
    Keys,        \* record keys (agg_xonly, msg, role)
    Nonces,      \* public nonces round1_safe can derive for a key, one per signing key
    Aggs,        \* aggregate-nonce sessions (BtcMusig2SessionBindHash)
    Sessions,    \* session ids found in records
    DetSession,  \* the session id round1_safe derives
    Handles,     \* bound on the secret nonces stashed or in use at a time
    NoRecord,    \* the empty slot
    NoAgg,       \* signed_agg_hash null
    Nothing      \* an unused handle, no call

Record == [session: Sessions, pubnonce: Nonces, finalized: BOOLEAN, agg: Aggs \cup {NoAgg}]

ASSUME Distinguished ==
    /\ NoRecord \notin Record
    /\ NoAgg \notin Aggs
    /\ DetSession \in Sessions
    /\ Nothing \notin [key: Keys, nonce: Nonces]
    /\ Nothing \notin [key: Keys, agg: Aggs]

VARIABLES
    db,         \* rows of the wallet database
    mem,        \* WalletCache.store
    loaded,     \* WalletCache.loaded
    unlocked,   \* RequireUnlocked(wallet)
    stash,      \* g_stash with g_btc_safe_nonce_keys
    calls,      \* partial_sign calls that took a handle and have not bound yet
    resetting,  \* keys nonce_reset has listed and not erased yet
    resetAll,   \* its include_finalized
    released,   \* per slot: public nonces returned since it was last erased or finalized
    signed      \* per slot: aggregates signed while it is open, since it was last free

vars == <<db, mem, loaded, unlocked, stash, calls, resetting, resetAll, released, signed>>

Slot == Record \cup {NoRecord}
Secnonce == [key: Keys, nonce: Nonces]
Call == [key: Keys, agg: Aggs]

NewRecord(s, p) == [session |-> s, pubnonce |-> p, finalized |-> FALSE, agg |-> NoAgg]

TypeOK ==
    /\ db \in [Keys -> Slot]
    /\ mem \in [Keys -> Slot]
    /\ loaded \in BOOLEAN
    /\ unlocked \in BOOLEAN
    /\ stash \in [Handles -> Secnonce \cup {Nothing}]
    /\ calls \in [Handles -> Call \cup {Nothing}]
    /\ resetting \in SUBSET Keys
    /\ resetAll \in BOOLEAN
    /\ released \in [Keys -> SUBSET Nonces]
    /\ signed \in [Keys -> SUBSET Aggs]

\* A wallet may hold records an older build made under random session ids.
OlderRecords == {NewRecord(s, p) : s \in Sessions \ {DetSession}, p \in Nonces}

Init ==
    /\ db \in [Keys -> {NoRecord} \cup OlderRecords]
    /\ mem = [k \in Keys |-> NoRecord]
    /\ loaded = FALSE
    /\ unlocked \in BOOLEAN
    /\ stash = [h \in Handles |-> Nothing]
    /\ calls = [h \in Handles |-> Nothing]
    /\ resetting = {}
    /\ resetAll = FALSE
    /\ released = [k \in Keys |-> {}]
    /\ signed = [k \in Keys |-> {}]

-----------------------------------------------------------------------------
(* The policy. *)

\* Bug: any record of the same session counts as an idempotent re-commit.
EvaluateCreateIgnoringNonce(existing, s, p) ==
    IF existing = NoRecord \/ existing.session = s THEN "Ok" ELSE "ConflictDifferentSession"

EvaluateCreate(existing, s, p) ==
    CASE existing = NoRecord -> "Ok"
      [] existing # NoRecord /\ existing.session # s -> "ConflictDifferentSession"
      [] existing # NoRecord /\ existing.session = s /\ existing.pubnonce # p
            /\ ~existing.finalized -> "ConflictSameSessionInFlight"
      [] OTHER -> "Ok"

\* Bug: the re-committed record starts unbound.
CommittedUnbound(prior, s, p) == NewRecord(s, p)

\* The record Begin stores over prior: the same nonce keeps its binding.
Committed(prior, s, p) ==
    IF prior # NoRecord /\ prior.pubnonce = p
    THEN [NewRecord(s, p) EXCEPT !.agg = prior.agg]
    ELSE NewRecord(s, p)

-----------------------------------------------------------------------------
(* The cache. *)

\* The cache after Store::Replay of the database rows of S.
Replayed(S) == [k \in Keys |-> IF k \in S /\ db[k] # NoRecord THEN db[k] ELSE mem[k]]

\* The cache after EnsureLoadedLocked returned true.
Cache == IF loaded THEN mem ELSE Replayed(Keys)

\* Bug: the failed write leaves the new record in the cache.
RollBackForgotten(m, k, rec) == [m EXCEPT ![k] = rec]

\* The cache m after rec was put into slot k, the write failed, and the prior
\* content of the slot was put back.
RollBack(m, k, rec) == [m EXCEPT ![k] = m[k]]

\* The two outcomes of putting rec into slot k of the cache and writing its row.
Stored(k, rec) ==
    /\ mem' = [Cache EXCEPT ![k] = rec]
    /\ db' = [db EXCEPT ![k] = rec]

NotStored(k, rec) ==
    /\ mem' = RollBack(Cache, k, rec)
    /\ db' = db

\* Any call whose load stops at a row that does not decrypt.
LoadFails ==
    /\ unlocked
    /\ ~loaded
    /\ \E S \in SUBSET Keys : mem' = Replayed(S)
    /\ UNCHANGED <<db, loaded, unlocked, stash, calls, resetting, resetAll, released, signed>>

\* LoadFromDB, Get, List: a load with no other effect.
LoadFromDB ==
    /\ unlocked
    /\ ~loaded
    /\ mem' = Cache
    /\ loaded' = TRUE
    /\ UNCHANGED <<db, unlocked, stash, calls, resetting, resetAll, released, signed>>

-----------------------------------------------------------------------------
(* The RPCs. *)

\* round1_safe: Begin, and only when it returns Ok the secret nonce goes to the
\* stash and the public nonce to the caller.  A stash nobody knows the handle of
\* yet cannot be used, so the two are one step; CrashInRound1 stops between them.
Round1Safe(k, p) ==
    /\ unlocked
    /\ LET rec == Committed(Cache[k], DetSession, p)
       IN \/ /\ EvaluateCreate(Cache[k], DetSession, p) # "Ok"
             /\ mem' = Cache
             /\ UNCHANGED <<db, stash, released>>
          \/ /\ EvaluateCreate(Cache[k], DetSession, p) = "Ok"
             /\ NotStored(k, rec)
             /\ UNCHANGED <<stash, released>>
          \/ /\ EvaluateCreate(Cache[k], DetSession, p) = "Ok"
             /\ Stored(k, rec)
             /\ \E h \in Handles :
                 /\ stash[h] = Nothing
                 /\ calls[h] = Nothing
                 /\ stash' = [stash EXCEPT ![h] = [key |-> k, nonce |-> p]]
             /\ released' = [released EXCEPT ![k] = @ \cup {p}]
    /\ loaded' = TRUE
    /\ UNCHANGED <<unlocked, calls, resetting, resetAll, signed>>

\* The process stops after the row is written and before round1_safe returns.
CrashInRound1(k, p) ==
    /\ unlocked
    /\ EvaluateCreate(Cache[k], DetSession, p) = "Ok"
    /\ db' = [db EXCEPT ![k] = Committed(Cache[k], DetSession, p)]
    /\ mem' = [j \in Keys |-> NoRecord]
    /\ loaded' = FALSE
    /\ unlocked' \in BOOLEAN
    /\ stash' = [h \in Handles |-> Nothing]
    /\ calls' = [h \in Handles |-> Nothing]
    /\ resetting' = {}
    /\ UNCHANGED <<resetAll, released, signed>>

\* partial_sign, first part: Take and TakeSafeNonceKey invalidate the handle.
TakeHandle(h, g) ==
    /\ stash[h] # Nothing
    /\ stash' = [stash EXCEPT ![h] = Nothing]
    /\ calls' = [calls EXCEPT ![h] = [key |-> stash[h].key, agg |-> g]]
    /\ UNCHANGED <<db, mem, loaded, unlocked, resetting, resetAll, released, signed>>

\* partial_sign gives up between the two parts (arguments, key unavailable) or
\* BindAggNonceAndCheck finds the wallet locked; the secret nonce is gone.
AbandonPartialSign(h) ==
    /\ calls[h] # Nothing
    /\ calls' = [calls EXCEPT ![h] = Nothing]
    /\ UNCHANGED <<db, mem, loaded, unlocked, stash, resetting, resetAll, released, signed>>

\* Bug: the binding is kept in the cache and not written.
BindAggNonceInMemory(k, g) ==
    /\ Cache[k] # NoRecord
    /\ Cache[k].agg \in {NoAgg, g}
    /\ mem' = [Cache EXCEPT ![k].agg = g]
    /\ UNCHANGED db

\* BindAggNonceAndCheck returns Ok: bound to g before, or bound to g now.
BindAggNonceOk(k, g) ==
    /\ Cache[k] # NoRecord
    /\ \/ /\ Cache[k].agg = g
          /\ mem' = Cache
          /\ UNCHANGED db
       \/ /\ Cache[k].agg = NoAgg
          /\ Stored(k, [Cache[k] EXCEPT !.agg = g])

\* BindAggNonceAndCheck returns NotFound, ConflictDifferentAggNonce or WriteFailed.
BindAggNonceRefused(k, g) ==
    \/ /\ ~(Cache[k] # NoRecord /\ Cache[k].agg \in {NoAgg, g})
       /\ mem' = Cache
       /\ UNCHANGED db
    \/ /\ Cache[k] # NoRecord
       /\ Cache[k].agg = NoAgg
       /\ NotStored(k, [Cache[k] EXCEPT !.agg = g])

\* partial_sign, second part: bind, then sign.
FinishPartialSign(h) ==
    /\ unlocked
    /\ calls[h] # Nothing
    /\ LET k == calls[h].key
           g == calls[h].agg
       IN \/ /\ BindAggNonceOk(k, g)
             /\ signed' = IF Cache[k].finalized THEN signed
                          ELSE [signed EXCEPT ![k] = @ \cup {g}]
          \/ BindAggNonceRefused(k, g) /\ UNCHANGED signed
    /\ calls' = [calls EXCEPT ![h] = Nothing]
    /\ loaded' = TRUE
    /\ UNCHANGED <<unlocked, stash, resetting, resetAll, released>>

\* nonce_mark_finalized: the transaction is confirmed, its nonce no longer matters.
MarkFinalized(k) ==
    /\ unlocked
    /\ Cache[k] # NoRecord
    /\ LET rec == [Cache[k] EXCEPT !.finalized = TRUE]
       IN \/ /\ Stored(k, rec)
             /\ released' = [released EXCEPT ![k] = {}]
             /\ signed' = [signed EXCEPT ![k] = {}]
          \/ /\ NotStored(k, rec)
             /\ UNCHANGED <<released, signed>>
    /\ loaded' = TRUE
    /\ UNCHANGED <<unlocked, stash, calls, resetting, resetAll>>

\* Erase of the records module: the row goes first, the cache entry only if
\* that worked.
EraseRecord(k) ==
    /\ unlocked
    /\ loaded' = TRUE
    /\ \/ /\ Cache[k] # NoRecord
          /\ db' = [db EXCEPT ![k] = NoRecord]
          /\ mem' = [Cache EXCEPT ![k] = NoRecord]
          /\ released' = [released EXCEPT ![k] = {}]
          /\ signed' = [signed EXCEPT ![k] = {}]
       \/ /\ mem' = Cache
          /\ UNCHANGED <<db, released, signed>>

\* nonce_erase.
Erase(k) ==
    /\ EraseRecord(k)
    /\ UNCHANGED <<unlocked, stash, calls, resetting, resetAll>>

\* nonce_reset, first part: List and the choice of the records to erase.
ResetList(all) ==
    /\ unlocked
    /\ resetting = {}
    /\ mem' = Cache
    /\ loaded' = TRUE
    /\ resetAll' = all
    /\ resetting' = {k \in Keys : Cache[k] # NoRecord /\ (all \/ ~Cache[k].finalized)}
    /\ UNCHANGED <<db, unlocked, stash, calls, released, signed>>

\* nonce_reset, loop body: Erase, whose failure is only not counted.
ResetErase(k) ==
    /\ k \in resetting
    /\ resetting' = resetting \ {k}
    /\ \/ EraseRecord(k)
       \/ ~unlocked /\ UNCHANGED <<db, mem, loaded, released, signed>>
    /\ UNCHANGED <<unlocked, stash, calls, resetAll>>

\* walletlock / walletpassphrase.
ToggleLock ==
    /\ unlocked' = ~unlocked
    /\ UNCHANGED <<db, mem, loaded, stash, calls, resetting, resetAll, released, signed>>

\* Shutdown or a crash: the caches, the stash and the calls are gone, the rows stay.
Restart ==
    /\ mem' = [k \in Keys |-> NoRecord]
    /\ loaded' = FALSE
    /\ unlocked' \in BOOLEAN
    /\ stash' = [h \in Handles |-> Nothing]
    /\ calls' = [h \in Handles |-> Nothing]
    /\ resetting' = {}
    /\ UNCHANGED <<db, resetAll, released, signed>>

Next ==
    \/ LoadFails
    \/ LoadFromDB
    \/ \E k \in Keys, p \in Nonces : Round1Safe(k, p)
    \/ \E k \in Keys, p \in Nonces : CrashInRound1(k, p)
    \/ \E h \in Handles, g \in Aggs : TakeHandle(h, g)
    \/ \E h \in Handles : AbandonPartialSign(h)
    \/ \E h \in Handles : FinishPartialSign(h)
    \/ \E k \in Keys : MarkFinalized(k)
    \/ \E k \in Keys : Erase(k)
    \/ \E all \in BOOLEAN : ResetList(all)
    \/ \E k \in Keys : ResetErase(k)
    \/ ToggleLock
    \/ Restart

Spec == Init /\ [][Next]_vars

-----------------------------------------------------------------------------
(* Properties. *)

\* BindAggNonceAndCheck: until its record is finalized or erased, a slot signs
\* over one aggregate nonce only, however many handles of the same derived nonce
\* are out, in whatever order their calls bind, and across restarts.
OneAggregatePerSlot == \A k \in Keys : Cardinality(signed[k]) <= 1

\* "Done before signing": the aggregate a slot has signed is the one in its
\* durable row, where the next process finds it.
SignedIsBound ==
    \A k \in Keys : signed[k] # {} => db[k] # NoRecord /\ signed[k] = {db[k].agg}

\* "Persist the commitment BEFORE we expose the pubnonce": the public nonces of
\* an open slot that left the wallet are the one its durable row commits to.
ReleasedIsCommitted ==
    \A k \in Keys : released[k] # {} => db[k] # NoRecord /\ released[k] = {db[k].pubnonce}

\* A failed or refused call leaves the cache as the rows describe it.
CacheMatchesRows ==
    \A k \in Keys : mem[k] = db[k] \/ (~loaded /\ mem[k] = NoRecord)

NoncesOut == INSTANCE NonceSlots WITH Values <- Nonces, used <- released
AggregatesSigned == INSTANCE NonceSlots WITH Values <- Aggs, used <- signed

\* Seen from outside, a slot is a cell: one public nonce leaves the wallet for it and
\* one aggregate is signed with it, however often round 1 is run again, until
\* MarkFinalized or Erase.
Implements == NoncesOut!Spec /\ AggregatesSigned!Spec

\* nonce_reset: "By default only NON-finalized (never-completed) records are
\* erased", so its loop never removes a finalized row unless asked to.
ResetSparesFinalized ==
    [][\A k \in resetting :
        (k \notin resetting' /\ ~resetAll /\ db[k] # NoRecord /\ db[k].finalized)
            => db'[k] # NoRecord]_vars

=============================================================================
