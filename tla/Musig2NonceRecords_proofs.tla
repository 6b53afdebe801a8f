------------------------ MODULE Musig2NonceRecords_proofs ------------------------
(***************************************************************************)
(* Proofs about Musig2NonceRecords, for any sets of record keys, nonces,   *)
(* aggregates and handles.                                                 *)
(***************************************************************************)
EXTENDS Musig2NonceRecords, FiniteSetTheorems, TLAPS

\* A finalized slot has no nonce out and no signature that still counts, so
\* that the next round 1 may take another nonce.
FinalizedIsClear ==
    \A k \in Keys : db[k] # NoRecord /\ db[k].finalized => released[k] = {} /\ signed[k] = {}

SlotInv == SignedIsBound /\ ReleasedIsCommitted /\ FinalizedIsClear

\* The inductive invariant: the rows, the cache, and what left the wallet.
BindInv == TypeOK /\ CacheMatchesRows /\ SlotInv

\* What a call sees in a slot, once the cache is loaded, is the row.
LEMMA CacheIsRow ==
    ASSUME TypeOK, CacheMatchesRows
    PROVE  Cache = db
  BY DEF TypeOK, CacheMatchesRows, Cache, Replayed

\* A record is not the empty slot.
LEMMA RecordIsRecord == \A e \in Record : e # NoRecord
  BY Distinguished

\* Begin stores an open record of the offered nonce; it replaces nothing, a
\* finalized record, or a record of that nonce, whose binding it keeps.
LEMMA CommittedFacts ==
    ASSUME NEW e \in Slot, NEW p \in Nonces, EvaluateCreate(e, DetSession, p) = "Ok"
    PROVE  LET rec == Committed(e, DetSession, p)
           IN  /\ rec \in Record
               /\ rec.pubnonce = p
               /\ ~rec.finalized
               /\ \/ e = NoRecord
                  \/ e # NoRecord /\ e.finalized
                  \/ e # NoRecord /\ e.pubnonce = p /\ rec.agg = e.agg
<1> DEFINE rec == Committed(e, DetSession, p)
           new == NewRecord(DetSession, p)
<1>1. /\ new \in Record /\ new.pubnonce = p /\ new.finalized = FALSE /\ new.agg = NoAgg
  BY Distinguished DEF NewRecord, Record
<1>2. CASE e = NoRecord
  <2>1. rec = new
    BY <1>2 DEF Committed
  <2> QED
    BY <1>1, <1>2, <2>1
<1>3. CASE e # NoRecord /\ e.pubnonce = p
  <2>1. rec = [new EXCEPT !.agg = e.agg]
    BY <1>3 DEF Committed
  <2>2. e \in Record
    BY <1>3 DEF Slot
  <2> HIDE DEF new, rec
  <2>3. /\ rec \in Record /\ rec.pubnonce = p /\ rec.finalized = FALSE /\ rec.agg = e.agg
    BY <1>1, <2>1, <2>2 DEF Record
  <2> QED
    BY <1>3, <2>3 DEF rec
<1>4. CASE e # NoRecord /\ e.pubnonce # p
  <2>1. rec = new
    BY <1>4 DEF Committed
  <2>2. e \in Record
    BY <1>4 DEF Slot
  <2>3. e.finalized
    BY <1>4, <2>2 DEF EvaluateCreate, Record
  <2> QED
    BY <1>1, <1>4, <2>1, <2>3
<1> QED
  BY <1>2, <1>3, <1>4

\* Every initial state satisfies the invariant.
LEMMA BindInvInit == Init => BindInv
<1> SUFFICES ASSUME Init PROVE BindInv
  OBVIOUS
<1>1. \A s \in Sessions, p \in Nonces :
        NewRecord(s, p) \in Record /\ NewRecord(s, p).finalized = FALSE
  BY Distinguished DEF NewRecord, Record
<1>2. db \in [Keys -> Slot]
  BY <1>1 DEF Init, OlderRecords, Slot
<1>3. mem \in [Keys -> Slot]
  BY DEF Init, Slot
<1>6. stash \in [Handles -> Secnonce \cup {Nothing}] /\ calls \in [Handles -> Call \cup {Nothing}]
  BY DEF Init
<1>7. released \in [Keys -> SUBSET Nonces] /\ signed \in [Keys -> SUBSET Aggs]
  BY DEF Init
<1>8. resetting \in SUBSET Keys /\ loaded = FALSE /\ resetAll = FALSE /\ unlocked \in BOOLEAN
  BY DEF Init
<1>4. CacheMatchesRows
  BY DEF Init, CacheMatchesRows
<1>5. SlotInv
  BY DEF Init, SlotInv, SignedIsBound, ReleasedIsCommitted, FinalizedIsClear
<1> QED
  BY <1>2, <1>3, <1>4, <1>5, <1>6, <1>7, <1>8 DEF BindInv, TypeOK

\* A step that leaves the rows and the history alone keeps the slots' invariant.
LEMMA SlotsUntouched ==
    ASSUME SlotInv, UNCHANGED <<db, released, signed>>
    PROVE  SlotInv'
  BY DEF SlotInv, SignedIsBound, ReleasedIsCommitted, FinalizedIsClear

\* Writing an accepted commitment into slot k, with its nonce handed out or not.
LEMMA SlotCommitted ==
    ASSUME TypeOK, SlotInv, NEW k \in Keys, NEW p \in Nonces,
           EvaluateCreate(db[k], DetSession, p) = "Ok",
           db' = [db EXCEPT ![k] = Committed(db[k], DetSession, p)],
           released' = released \/ released' = [released EXCEPT ![k] = @ \cup {p}],
           UNCHANGED signed
    PROVE  SlotInv' /\ db' \in [Keys -> Slot]
<1> DEFINE rec == Committed(db[k], DetSession, p)
<1>1. db \in [Keys -> Slot] /\ db[k] \in Slot
  BY DEF TypeOK
<1>2. /\ rec \in Record /\ rec.pubnonce = p /\ ~rec.finalized
      /\ \/ db[k] = NoRecord
         \/ db[k] # NoRecord /\ db[k].finalized
         \/ db[k] # NoRecord /\ db[k].pubnonce = p /\ rec.agg = db[k].agg
  BY <1>1, CommittedFacts
<1>3. rec # NoRecord
  BY <1>2, RecordIsRecord
<1>4. db' = [db EXCEPT ![k] = rec]
  OBVIOUS
<1> HIDE DEF rec
<1>5. db' \in [Keys -> Slot]
  BY <1>1, <1>2, <1>4 DEF Slot
<1>6. released[k] \in SUBSET {p}
  BY <1>2 DEF SlotInv, ReleasedIsCommitted, FinalizedIsClear, TypeOK
<1>7. signed[k] = {} \/ signed[k] = {rec.agg}
  BY <1>2 DEF SlotInv, SignedIsBound, FinalizedIsClear, TypeOK
<1>8. SignedIsBound'
  BY <1>1, <1>3, <1>4, <1>7 DEF SlotInv, SignedIsBound, TypeOK
<1>9. ReleasedIsCommitted'
  BY <1>1, <1>2, <1>3, <1>4, <1>6 DEF SlotInv, ReleasedIsCommitted, TypeOK
<1>10. FinalizedIsClear'
  BY <1>1, <1>2, <1>4 DEF SlotInv, FinalizedIsClear, TypeOK
<1> QED
  BY <1>5, <1>8, <1>9, <1>10 DEF SlotInv

\* Every step keeps the invariant.
LEMMA BindInvNext == BindInv /\ [Next]_vars => BindInv'
<1> SUFFICES ASSUME BindInv, [Next]_vars PROVE BindInv'
  OBVIOUS
<1> USE DEF BindInv
<1>c. Cache = db /\ db \in [Keys -> Slot]
  BY CacheIsRow DEF TypeOK
<1>r. \A k \in Keys : \A rec : RollBack(Cache, k, rec) = db
  BY <1>c DEF RollBack
<1>1. CASE LoadFails
  BY <1>1, SlotsUntouched DEF LoadFails, Replayed, TypeOK, CacheMatchesRows
<1>2. CASE LoadFromDB
  BY <1>2, <1>c, SlotsUntouched DEF LoadFromDB, TypeOK, CacheMatchesRows
<1>3. ASSUME NEW k \in Keys, NEW p \in Nonces, Round1Safe(k, p)
      PROVE  BindInv'
  <2> DEFINE rec == Committed(db[k], DetSession, p)
  <2>1. loaded' = TRUE /\ UNCHANGED <<unlocked, calls, resetting, resetAll, signed>>
    BY <1>3 DEF Round1Safe
  <2>2. CASE mem' = db /\ UNCHANGED <<db, stash, released>>
    BY <1>c, <2>1, <2>2, SlotsUntouched DEF TypeOK, CacheMatchesRows
  <2>3. CASE /\ EvaluateCreate(db[k], DetSession, p) = "Ok"
             /\ mem' = [db EXCEPT ![k] = rec] /\ db' = [db EXCEPT ![k] = rec]
             /\ \E h \in Handles : stash' = [stash EXCEPT ![h] = [key |-> k, nonce |-> p]]
             /\ released' = [released EXCEPT ![k] = @ \cup {p}]
    <3>1. SlotInv' /\ db' \in [Keys -> Slot]
      BY <2>1, <2>3, SlotCommitted
    <3>2. mem' = db'
      BY <2>3
    <3>3. stash' \in [Handles -> Secnonce \cup {Nothing}]
      BY <2>3 DEF TypeOK, Secnonce
    <3>4. TypeOK' /\ CacheMatchesRows'
      BY <2>1, <2>3, <3>1, <3>2, <3>3 DEF TypeOK, CacheMatchesRows
    <3> QED
      BY <3>1, <3>4
  <2> QED
    BY <1>3, <1>c, <1>r, <2>2, <2>3 DEF Round1Safe, Stored, NotStored
<1>4. ASSUME NEW k \in Keys, NEW p \in Nonces, CrashInRound1(k, p)
      PROVE  BindInv'
  <2>1. SlotInv' /\ db' \in [Keys -> Slot]
    BY <1>4, <1>c, SlotCommitted DEF CrashInRound1
  <2> QED
    BY <1>4, <2>1 DEF CrashInRound1, TypeOK, CacheMatchesRows, Slot
<1>5. ASSUME NEW h \in Handles, NEW g \in Aggs, TakeHandle(h, g)
      PROVE  BindInv'
  <2>1. stash[h].key \in Keys
    BY <1>5 DEF TakeHandle, TypeOK, Secnonce
  <2> QED
    BY <1>5, <2>1, SlotsUntouched DEF TakeHandle, TypeOK, CacheMatchesRows, Call
<1>6. ASSUME NEW h \in Handles, AbandonPartialSign(h)
      PROVE  BindInv'
  BY <1>6, SlotsUntouched DEF AbandonPartialSign, TypeOK, CacheMatchesRows
<1>7. ASSUME NEW h \in Handles, FinishPartialSign(h)
      PROVE  BindInv'
  <2> DEFINE k == calls[h].key
             g == calls[h].agg
             rec == [db[k] EXCEPT !.agg = g]
  <2>1. k \in Keys /\ g \in Aggs
    BY <1>7 DEF FinishPartialSign, TypeOK, Call
  <2>2. /\ loaded' = TRUE /\ UNCHANGED <<unlocked, stash, resetting, resetAll, released>>
        /\ calls' \in [Handles -> Call \cup {Nothing}]
    BY <1>7 DEF FinishPartialSign, TypeOK
  <2>3. \/ mem' = db /\ db' = db /\ signed' = signed
        \/ /\ db[k] # NoRecord /\ db[k].agg = g /\ mem' = db /\ db' = db
           /\ signed' = IF db[k].finalized THEN signed ELSE [signed EXCEPT ![k] = @ \cup {g}]
        \/ /\ db[k] # NoRecord /\ db[k].agg = NoAgg
           /\ mem' = [db EXCEPT ![k] = rec] /\ db' = [db EXCEPT ![k] = rec]
           /\ signed' = IF db[k].finalized THEN signed ELSE [signed EXCEPT ![k] = @ \cup {g}]
    BY <1>7, <1>c, <1>r, <2>1
       DEF FinishPartialSign, BindAggNonceOk, BindAggNonceRefused, Stored, NotStored
  <2> HIDE DEF k, g
  <2>4. CASE mem' = db /\ db' = db /\ signed' = signed
    BY <1>c, <2>2, <2>4, SlotsUntouched DEF TypeOK, CacheMatchesRows
  <2>5. CASE /\ db[k] # NoRecord /\ db[k].agg = g /\ mem' = db /\ db' = db
             /\ signed' = IF db[k].finalized THEN signed ELSE [signed EXCEPT ![k] = @ \cup {g}]
    <3>1. TypeOK' /\ CacheMatchesRows'
      BY <1>c, <2>1, <2>2, <2>5 DEF TypeOK, CacheMatchesRows
    <3>2. SlotInv'
      BY <1>c, <2>1, <2>2, <2>5
         DEF SlotInv, SignedIsBound, ReleasedIsCommitted, FinalizedIsClear, TypeOK
    <3> QED
      BY <3>1, <3>2
  <2>6. CASE /\ db[k] # NoRecord /\ db[k].agg = NoAgg
             /\ mem' = [db EXCEPT ![k] = rec] /\ db' = [db EXCEPT ![k] = rec]
             /\ signed' = IF db[k].finalized THEN signed ELSE [signed EXCEPT ![k] = @ \cup {g}]
    <3>1. db[k] \in Record
      BY <1>c, <2>1, <2>6 DEF Slot
    <3>2. /\ rec \in Record /\ rec.agg = g /\ rec.pubnonce = db[k].pubnonce
          /\ rec.finalized = db[k].finalized
      BY <2>1, <3>1 DEF Record
    <3>3. rec # NoRecord
      BY <3>2, RecordIsRecord
    <3>4. signed[k] = {}
      BY <2>1, <2>6, Distinguished DEF SlotInv, SignedIsBound, TypeOK
    <3> HIDE DEF rec
    <3>5. TypeOK' /\ CacheMatchesRows'
      BY <1>c, <2>1, <2>2, <2>6, <3>2 DEF TypeOK, CacheMatchesRows, Slot
    <3>6. SignedIsBound'
      BY <1>c, <2>1, <2>6, <3>2, <3>3, <3>4 DEF SlotInv, SignedIsBound, TypeOK
    <3>7. ReleasedIsCommitted' /\ FinalizedIsClear'
      BY <1>c, <2>1, <2>2, <2>6, <3>2, <3>3, <3>4
         DEF SlotInv, ReleasedIsCommitted, FinalizedIsClear, TypeOK
    <3> QED
      BY <3>5, <3>6, <3>7 DEF SlotInv
  <2> QED
    BY <2>3, <2>4, <2>5, <2>6
<1>8. ASSUME NEW k \in Keys, MarkFinalized(k)
      PROVE  BindInv'
  <2> DEFINE rec == [db[k] EXCEPT !.finalized = TRUE]
  <2>1. loaded' = TRUE /\ UNCHANGED <<unlocked, stash, calls, resetting, resetAll>>
    BY <1>8 DEF MarkFinalized
  <2>2. rec \in Record
    BY <1>8, <1>c DEF MarkFinalized, Slot, Record
  <2>3. \/ mem' = db /\ UNCHANGED <<db, released, signed>>
        \/ /\ mem' = [db EXCEPT ![k] = rec] /\ db' = [db EXCEPT ![k] = rec]
           /\ released' = [released EXCEPT ![k] = {}] /\ signed' = [signed EXCEPT ![k] = {}]
    BY <1>8, <1>c, <1>r DEF MarkFinalized, Stored, NotStored
  <2> HIDE DEF rec
  <2>4. TypeOK' /\ CacheMatchesRows'
    BY <1>c, <2>1, <2>2, <2>3 DEF TypeOK, CacheMatchesRows, Slot
  <2>5. SlotInv'
    BY <1>c, <2>3 DEF SlotInv, SignedIsBound, ReleasedIsCommitted, FinalizedIsClear, TypeOK
  <2> QED
    BY <2>4, <2>5
<1>9. ASSUME NEW k \in Keys, EraseRecord(k)
      PROVE  /\ SlotInv' /\ CacheMatchesRows' /\ loaded' \in BOOLEAN
             /\ db' \in [Keys -> Slot] /\ mem' \in [Keys -> Slot]
             /\ released' \in [Keys -> SUBSET Nonces] /\ signed' \in [Keys -> SUBSET Aggs]
  <2>1. \/ mem' = db /\ UNCHANGED <<db, released, signed>>
        \/ /\ mem' = [db EXCEPT ![k] = NoRecord] /\ db' = [db EXCEPT ![k] = NoRecord]
           /\ released' = [released EXCEPT ![k] = {}] /\ signed' = [signed EXCEPT ![k] = {}]
    BY <1>9, <1>c DEF EraseRecord
  <2>2. loaded' = TRUE
    BY <1>9 DEF EraseRecord
  <2>3. SlotInv'
    BY <1>c, <2>1 DEF SlotInv, SignedIsBound, ReleasedIsCommitted, FinalizedIsClear, TypeOK
  <2> QED
    BY <1>c, <2>1, <2>2, <2>3 DEF TypeOK, CacheMatchesRows, Slot
<1>10. ASSUME NEW k \in Keys, Erase(k)
       PROVE  BindInv'
  BY <1>9, <1>10 DEF Erase, TypeOK
<1>11. ASSUME NEW all \in BOOLEAN, ResetList(all)
       PROVE  BindInv'
  BY <1>11, <1>c, SlotsUntouched DEF ResetList, TypeOK, CacheMatchesRows
<1>12. ASSUME NEW k \in Keys, ResetErase(k)
       PROVE  BindInv'
  <2>1. UNCHANGED <<unlocked, stash, calls, resetAll>> /\ resetting' \in SUBSET Keys
    BY <1>12 DEF ResetErase, TypeOK
  <2>2. CASE EraseRecord(k)
    BY <1>9, <2>1, <2>2 DEF TypeOK
  <2>3. CASE UNCHANGED <<db, mem, loaded, released, signed>>
    BY <2>1, <2>3, SlotsUntouched DEF TypeOK, CacheMatchesRows
  <2> QED
    BY <1>12, <2>2, <2>3 DEF ResetErase
<1>13. CASE ToggleLock
  BY <1>13, SlotsUntouched DEF ToggleLock, TypeOK, CacheMatchesRows
<1>14. CASE Restart
  BY <1>14, SlotsUntouched DEF Restart, TypeOK, CacheMatchesRows, Slot
<1>15. CASE UNCHANGED vars
  BY <1>15, SlotsUntouched DEF vars, TypeOK, CacheMatchesRows
<1> QED
  BY <1>1, <1>2, <1>3, <1>4, <1>5, <1>6, <1>7, <1>8, <1>10, <1>11, <1>12, <1>13, <1>14, <1>15
     DEF Next

\* The inductive invariant holds in every reachable state.
THEOREM BindInvariant == Spec => []BindInv
  BY BindInvInit, BindInvNext, PTL DEF Spec

\* Every variable keeps its type.
THEOREM TypeCorrect == Spec => []TypeOK
<1>1. BindInv => TypeOK
  BY DEF BindInv
<1> QED
  BY <1>1, BindInvariant, PTL

\* The rollback of a failed row write (Begin, BindAggNonceAndCheck, MarkFinalized)
\* and the row-first order of Erase leave no difference between the loaded cache
\* and the rows: a restart loses nothing a caller was told.
THEOREM CacheCoherence == Spec => []CacheMatchesRows
<1>1. BindInv => CacheMatchesRows
  BY DEF BindInv
<1> QED
  BY <1>1, BindInvariant, PTL

\* round1_safe returns a public nonce only after its commitment is in the
\* database, so every nonce a counterparty has seen is the one the row names.
THEOREM CommitBeforeRelease == Spec => []ReleasedIsCommitted
<1>1. BindInv => ReleasedIsCommitted
  BY DEF BindInv, SlotInv
<1> QED
  BY <1>1, BindInvariant, PTL

\* partial_sign signs only after BindAggNonceAndCheck has stored the aggregate
\* nonce, so the row always names the aggregate the slot has signed over.
THEOREM BindBeforeSign == Spec => []SignedIsBound
<1>1. BindInv => SignedIsBound
  BY DEF BindInv, SlotInv
<1> QED
  BY <1>1, BindInvariant, PTL

\* No slot signs over two aggregate nonces, whatever the number of keys, nonces,
\* aggregates and handles: a second aggregate under one nonce reveals the key.
THEOREM AggregateUniqueness == Spec => []OneAggregatePerSlot
<1>1. BindInv => OneAggregatePerSlot
  <2> SUFFICES ASSUME BindInv, NEW k \in Keys PROVE Cardinality(signed[k]) <= 1
    BY DEF OneAggregatePerSlot
  <2>1. signed[k] = {} \/ \E g \in Aggs : signed[k] = {g}
    BY DEF BindInv, SlotInv, SignedIsBound, TypeOK
  <2>2. Cardinality({}) = 0
    BY FS_EmptySet
  <2>3. \A g : Cardinality({g}) = 1
    BY FS_Singleton
  <2> QED
    BY <2>1, <2>2, <2>3
<1> QED
  BY <1>1, BindInvariant, PTL

-----------------------------------------------------------------------------
(* The records implement NonceSlots. *)

\* A commitment that is accepted is to the nonce that is out for the slot, if one is.
LEMMA CommittedIsReleased ==
    ASSUME BindInv, NEW k \in Keys, NEW p \in Nonces, EvaluateCreate(db[k], DetSession, p) = "Ok"
    PROVE  released[k] \subseteq {p}
<1>1. db[k] \in Slot
  BY DEF BindInv, TypeOK
<1>2. \/ db[k] = NoRecord
      \/ db[k] # NoRecord /\ db[k].finalized
      \/ db[k] # NoRecord /\ db[k].pubnonce = p
  BY <1>1, CommittedFacts
<1> QED
  BY <1>2 DEF BindInv, SlotInv, ReleasedIsCommitted, FinalizedIsClear, TypeOK

\* An aggregate that can be bound is the one the slot has signed, if there is one.
LEMMA BoundIsSigned ==
    ASSUME BindInv, NEW k \in Keys, NEW g \in Aggs, BindAggNonceOk(k, g)
    PROVE  signed[k] \subseteq {g}
<1>1. Cache = db
  BY CacheIsRow DEF BindInv
<1>2. db[k] # NoRecord /\ db[k].agg \in {NoAgg, g}
  BY <1>1 DEF BindAggNonceOk
<1> QED
  BY <1>2, Distinguished DEF BindInv, SlotInv, SignedIsBound, TypeOK

\* A step uses a slot for the value it is used for, closes one, or is not seen outside.
LEMMA StepUses ==
    ASSUME BindInv, [Next]_vars
    PROVE  /\ UNCHANGED released \/ NoncesOut!Next
           /\ UNCHANGED signed \/ AggregatesSigned!Next
<1> USE DEF NoncesOut!Next, NoncesOut!Use, NoncesOut!Close,
            AggregatesSigned!Next, AggregatesSigned!Use, AggregatesSigned!Close
<1>c. Cache = db
  BY CacheIsRow DEF BindInv
<1>1. ASSUME NEW k \in Keys, NEW p \in Nonces, Round1Safe(k, p)
      PROVE  (UNCHANGED released \/ NoncesOut!Next) /\ UNCHANGED signed
  <2>1. UNCHANGED signed
    BY <1>1 DEF Round1Safe
  <2>2. \/ UNCHANGED released
        \/ /\ EvaluateCreate(db[k], DetSession, p) = "Ok"
           /\ released' = [released EXCEPT ![k] = @ \cup {p}]
    BY <1>1, <1>c DEF Round1Safe
  <2>3. CASE UNCHANGED released
    BY <2>1, <2>3
  <2>4. CASE /\ EvaluateCreate(db[k], DetSession, p) = "Ok"
             /\ released' = [released EXCEPT ![k] = @ \cup {p}]
    <3>1. released[k] \subseteq {p}
      BY <2>4, CommittedIsReleased
    <3>2. released[k] \cup {p} = {p}
      BY <3>1
    <3> QED
      BY <2>1, <2>4, <3>1, <3>2
  <2> QED
    BY <2>2, <2>3, <2>4
<1>2. ASSUME NEW h \in Handles, FinishPartialSign(h)
      PROVE  UNCHANGED released /\ (UNCHANGED signed \/ AggregatesSigned!Next)
  <2> DEFINE k == calls[h].key
             g == calls[h].agg
  <2>1. k \in Keys /\ g \in Aggs
    BY <1>2 DEF FinishPartialSign, BindInv, TypeOK, Call
  <2>2. \/ UNCHANGED signed
        \/ BindAggNonceOk(k, g) /\ signed' = [signed EXCEPT ![k] = @ \cup {g}]
    BY <1>2 DEF FinishPartialSign
  <2>3. UNCHANGED released
    BY <1>2 DEF FinishPartialSign
  <2> HIDE DEF k, g
  <2>4. CASE BindAggNonceOk(k, g) /\ signed' = [signed EXCEPT ![k] = @ \cup {g}]
    <3>1. signed[k] \subseteq {g}
      BY <2>1, <2>4, BoundIsSigned
    <3>2. signed[k] \cup {g} = {g}
      BY <3>1
    <3> QED
      BY <2>1, <2>3, <2>4, <3>1, <3>2
  <2> QED
    BY <2>2, <2>3, <2>4
<1>3. ASSUME NEW k \in Keys, EraseRecord(k)
      PROVE  (UNCHANGED released \/ NoncesOut!Next) /\ (UNCHANGED signed \/ AggregatesSigned!Next)
  BY <1>3 DEF EraseRecord
<1>4. ASSUME NEW k \in Keys, MarkFinalized(k)
      PROVE  (UNCHANGED released \/ NoncesOut!Next) /\ (UNCHANGED signed \/ AggregatesSigned!Next)
  BY <1>4 DEF MarkFinalized
<1>5. CASE (\E k \in Keys : Erase(k)) \/ (\E k \in Keys : ResetErase(k))
  BY <1>3, <1>5 DEF Erase, ResetErase
<1>6. CASE \/ LoadFails \/ LoadFromDB \/ ToggleLock \/ Restart
           \/ \E k \in Keys, p \in Nonces : CrashInRound1(k, p)
           \/ \E h \in Handles, g \in Aggs : TakeHandle(h, g)
           \/ \E h \in Handles : AbandonPartialSign(h)
           \/ \E all \in BOOLEAN : ResetList(all)
  BY <1>6 DEF LoadFails, LoadFromDB, ToggleLock, Restart, CrashInRound1, TakeHandle,
              AbandonPartialSign, ResetList
<1>7. CASE UNCHANGED vars
  BY <1>7 DEF vars
<1> QED
  BY <1>1, <1>2, <1>4, <1>5, <1>6, <1>7 DEF Next

\* Handles of the same derived nonce, restarted ceremonies, failed writes, resets and
\* crashes do not show: one nonce and one aggregate per slot until it is closed.
THEOREM Refinement == Spec => Implements
<1>1. Init => NoncesOut!Init /\ AggregatesSigned!Init
  BY DEF Init, NoncesOut!Init, AggregatesSigned!Init
<1>2. BindInv /\ [Next]_vars => [NoncesOut!Next]_released /\ [AggregatesSigned!Next]_signed
  BY StepUses
<1> QED
  BY <1>1, <1>2, BindInvariant, PTL DEF Spec, Implements, NoncesOut!Spec, AggregatesSigned!Spec

==================================================================================
