--------------------------- MODULE ClsagNonceRecords ---------------------------
(***************************************************************************)
(* Round-1 nonce records of the cooperative CLSAG signer.                  *)
(*                                                                         *)
(* pricoin_jointspend_round1_safe draws a fresh secret nonce alpha, asks   *)
(* the wallet to write a record for the slot (joint output, ring, role)    *)
(* and hands alpha to the caller only when that record is on disk.  The    *)
(* decision is a pure function of the record already in the slot           *)
(* (clsag_nonce_policy); the wallet tier keeps an in-memory copy of the    *)
(* rows, filled on first use, and rolls it back when a write fails.        *)
(*                                                                         *)
(* One action is one call: every call holds the module's mutex from the    *)
(* first look at the cache to its return.  A write or a load may fail, the *)
(* wallet may be locked and unlocked at any time, and the process may stop *)
(* at any time, also after the row is written and before the call returns. *)
(***************************************************************************)
EXTENDS Naturals, FiniteSets

CONSTANTS
    Keys,       \* record keys (joint_output_id, ring_hash, role)
    Sessions,   \* session ids
    Alphas,     \* round-1 nonces the generator may still produce
    NoRecord    \* the empty slot

ASSUME NoRecordIsNotARecord ==
    NoRecord \notin [session: Sessions, alpha: Alphas, t_published: BOOLEAN]

VARIABLES
    db,         \* rows of the wallet database
    mem,        \* WalletCache.store
    loaded,     \* WalletCache.loaded
    unlocked,   \* RequireUnlocked(wallet)
    drawn,      \* nonces NonceGen has produced so far
    live,       \* per slot: nonces handed out since it was last free or resolved
    signers     \* per slot: sessions a nonce was handed out to since it was last erased

vars == <<db, mem, loaded, unlocked, drawn, live, signers>>

Record == [session: Sessions, alpha: Alphas, t_published: BOOLEAN]
Slot == Record \cup {NoRecord}

NewRecord(s, a) == [session |-> s, alpha |-> a, t_published |-> FALSE]

TypeOK ==
    /\ db \in [Keys -> Slot]
    /\ mem \in [Keys -> Slot]
    /\ loaded \in BOOLEAN
    /\ unlocked \in BOOLEAN
    /\ drawn \in SUBSET Alphas
    /\ live \in [Keys -> SUBSET Alphas]
    /\ signers \in [Keys -> SUBSET Sessions]

Init ==
    /\ db = [k \in Keys |-> NoRecord]
    /\ mem = [k \in Keys |-> NoRecord]
    /\ loaded = FALSE
    /\ unlocked \in BOOLEAN
    /\ drawn = {}
    /\ live = [k \in Keys |-> {}]
    /\ signers = [k \in Keys |-> {}]

-----------------------------------------------------------------------------
(* The policy. *)

\* Bug: the session of the existing record is not compared.
EvaluateCreateIgnoringSession(existing, s) ==
    IF existing = NoRecord \/ existing.t_published THEN "Ok"
    ELSE "ConflictSameSessionInFlight"

\* Bug: a record of the same session is never in the way.
EvaluateCreateIgnoringInFlight(existing, s) ==
    IF existing = NoRecord \/ existing.session = s THEN "Ok"
    ELSE "ConflictDifferentSession"

EvaluateCreate(existing, s) ==
    CASE existing = NoRecord -> "Ok"
      [] existing # NoRecord /\ existing.session # s -> "ConflictDifferentSession"
      [] existing # NoRecord /\ existing.session = s /\ ~existing.t_published
            -> "ConflictSameSessionInFlight"
      [] OTHER -> "Ok"

-----------------------------------------------------------------------------
(* The cache. *)

\* The cache after Store::Replay of the database rows of S.
Replayed(S) == [k \in Keys |-> IF k \in S /\ db[k] # NoRecord THEN db[k] ELSE mem[k]]

\* The cache after EnsureLoadedLocked returned true.
Cache == IF loaded THEN mem ELSE Replayed(Keys)

\* Any call whose load stops at a row that does not decrypt, parse or match
\* its digest: rows replayed before it stay in the cache, which is not marked
\* loaded, and the call fails.
LoadFails ==
    /\ unlocked
    /\ ~loaded
    /\ \E S \in SUBSET Keys : mem' = Replayed(S)
    /\ UNCHANGED <<db, loaded, unlocked, drawn, live, signers>>

\* LoadFromDB, Get, List: a load with no other effect.
LoadFromDB ==
    /\ unlocked
    /\ ~loaded
    /\ mem' = Cache
    /\ loaded' = TRUE
    /\ UNCHANGED <<db, unlocked, drawn, live, signers>>

\* Bug: the failed write leaves the new record in the cache.
RollBackForgotten(m, k, rec) == [m EXCEPT ![k] = rec]

\* The cache m after rec was put into slot k, the write failed, and the prior
\* content of the slot was put back.
RollBack(m, k, rec) == [m EXCEPT ![k] = m[k]]

-----------------------------------------------------------------------------
(* The calls. *)

\* Begin finds the slot taken.
BeginRejected(k, s, a) ==
    /\ EvaluateCreate(Cache[k], s) # "Ok"
    /\ mem' = Cache
    /\ UNCHANGED <<db, live, signers>>

\* Begin writes the record and the caller receives alpha.
BeginOk(k, s, a) ==
    /\ EvaluateCreate(Cache[k], s) = "Ok"
    /\ mem' = [Cache EXCEPT ![k] = NewRecord(s, a)]
    /\ db' = [db EXCEPT ![k] = NewRecord(s, a)]
    /\ live' = [live EXCEPT ![k] = @ \cup {a}]
    /\ signers' = [signers EXCEPT ![k] = @ \cup {s}]

\* Begin cannot write the record; alpha never leaves the wallet.
BeginWriteFailed(k, s, a) ==
    /\ EvaluateCreate(Cache[k], s) = "Ok"
    /\ mem' = RollBack(Cache, k, NewRecord(s, a))
    /\ UNCHANGED <<db, live, signers>>

\* Bug: alpha is handed out although the write failed.
Round1SafeIgnoringWriteFailure(k, s) ==
    /\ unlocked
    /\ \E a \in Alphas \ drawn :
        /\ drawn' = drawn \cup {a}
        /\ \/ BeginRejected(k, s, a)
           \/ BeginOk(k, s, a)
           \/ /\ EvaluateCreate(Cache[k], s) = "Ok"
              /\ mem' = RollBack(Cache, k, NewRecord(s, a))
              /\ live' = [live EXCEPT ![k] = @ \cup {a}]
              /\ signers' = [signers EXCEPT ![k] = @ \cup {s}]
              /\ UNCHANGED db
    /\ loaded' = TRUE
    /\ UNCHANGED unlocked

\* pricoin_jointspend_round1_safe: NonceGen, then Begin.
Round1Safe(k, s) ==
    /\ unlocked
    /\ \E a \in Alphas \ drawn :
        /\ drawn' = drawn \cup {a}
        /\ \/ BeginRejected(k, s, a)
           \/ BeginOk(k, s, a)
           \/ BeginWriteFailed(k, s, a)
    /\ loaded' = TRUE
    /\ UNCHANGED unlocked

\* The process stops after WriteRecordToDB and before the call returns.
CrashInBegin(k, s) ==
    /\ unlocked
    /\ EvaluateCreate(Cache[k], s) = "Ok"
    /\ \E a \in Alphas \ drawn :
        /\ drawn' = drawn \cup {a}
        /\ db' = [db EXCEPT ![k] = NewRecord(s, a)]
    /\ mem' = [j \in Keys |-> NoRecord]
    /\ loaded' = FALSE
    /\ unlocked' \in BOOLEAN
    /\ UNCHANGED <<live, signers>>

\* MarkTPublished: t is on chain, the slot is resolved.
MarkTPublished(k) ==
    /\ unlocked
    /\ Cache[k] # NoRecord
    /\ LET rec == [Cache[k] EXCEPT !.t_published = TRUE]
       IN \/ /\ mem' = [Cache EXCEPT ![k] = rec]
             /\ db' = [db EXCEPT ![k] = rec]
             /\ live' = [live EXCEPT ![k] = {}]
          \/ /\ mem' = RollBack(Cache, k, rec)
             /\ UNCHANGED <<db, live>>
    /\ loaded' = TRUE
    /\ UNCHANGED <<unlocked, drawn, signers>>

\* Erase: the row goes first, the cache entry only if that worked.
Erase(k) ==
    /\ unlocked
    /\ Cache[k] # NoRecord
    /\ \/ /\ db' = [db EXCEPT ![k] = NoRecord]
          /\ mem' = [Cache EXCEPT ![k] = NoRecord]
          /\ live' = [live EXCEPT ![k] = {}]
          /\ signers' = [signers EXCEPT ![k] = {}]
       \/ /\ mem' = Cache
          /\ UNCHANGED <<db, live, signers>>
    /\ loaded' = TRUE
    /\ UNCHANGED <<unlocked, drawn>>

\* walletlock / walletpassphrase.
ToggleLock ==
    /\ unlocked' = ~unlocked
    /\ UNCHANGED <<db, mem, loaded, drawn, live, signers>>

\* Shutdown or a crash: the caches are gone, the rows stay.
Restart ==
    /\ mem' = [k \in Keys |-> NoRecord]
    /\ loaded' = FALSE
    /\ unlocked' \in BOOLEAN
    /\ UNCHANGED <<db, drawn, live, signers>>

Next ==
    \/ LoadFails
    \/ LoadFromDB
    \/ \E k \in Keys, s \in Sessions : Round1Safe(k, s)
    \/ \E k \in Keys, s \in Sessions : CrashInBegin(k, s)
    \/ \E k \in Keys : MarkTPublished(k)
    \/ \E k \in Keys : Erase(k)
    \/ ToggleLock
    \/ Restart

Spec == Init /\ [][Next]_vars

-----------------------------------------------------------------------------
(* Properties. *)

\* Section 4.1a: while a signing is open for a slot, at most one nonce has ever
\* been handed out for it, whatever crashed, failed or was retried in between.
OneNoncePerOpenSlot == \A k \in Keys : Cardinality(live[k]) <= 1

\* Section 4.1a: nonces of one slot go to one session only, until the operator
\* erases the record.
OneSessionPerSlot == \A k \in Keys : Cardinality(signers[k]) <= 1

\* "Persist BEFORE returning": a nonce in use is the one in the durable row, so
\* a restart finds it and the policy sees it.
HandedOutIsDurable ==
    \A k \in Keys : live[k] # {} =>
        /\ db[k] # NoRecord
        /\ live[k] = {db[k].alpha}
        /\ ~db[k].t_published

\* Every failed or refused call leaves the cache as the rows describe it: a
\* loaded cache never answers from a record that is not on disk.
CacheMatchesRows ==
    \A k \in Keys : mem[k] = db[k] \/ (~loaded /\ mem[k] = NoRecord)

NoncesOut == INSTANCE NonceSlots WITH Values <- Alphas, used <- live
SessionsServed == INSTANCE NonceSlots WITH Values <- Sessions, used <- signers

\* Seen from outside, a slot is a cell: it gives out one nonce, to one session, and
\* another nonce only after MarkTPublished or Erase, another session only after Erase.
Implements == NoncesOut!Spec /\ SessionsServed!Spec
=============================================================================
