------------------------ MODULE ClsagNonceRecords_proofs ------------------------
(***************************************************************************)
(* Proofs about ClsagNonceRecords, for any sets of slots, sessions and     *)
(* nonces.                                                                 *)
(***************************************************************************)
EXTENDS ClsagNonceRecords, FiniteSetTheorems, TLAPS

\* The sessions that hold nonces of a slot are at most the session in its row.
SignersAreInTheRow ==
    \A k \in Keys : signers[k] # {} => db[k] # NoRecord /\ signers[k] = {db[k].session}

\* The inductive invariant: what may be in the cache, in the row and in the
\* hands of the callers of one slot at the same time.
NonceInv == TypeOK /\ CacheMatchesRows /\ HandedOutIsDurable /\ SignersAreInTheRow

\* What a call sees in a slot, once the cache is loaded, is the row.
LEMMA CacheIsRow ==
    ASSUME TypeOK, CacheMatchesRows
    PROVE  /\ Cache = db
           /\ Cache \in [Keys -> Slot]
  BY DEF TypeOK, CacheMatchesRows, Cache, Replayed

\* EvaluateCreate lets a call pass only into an empty slot or into one that
\* the same session resolved.
LEMMA EvaluateCreateOk ==
    ASSUME NEW e \in Slot, NEW s \in Sessions, EvaluateCreate(e, s) = "Ok"
    PROVE  e = NoRecord \/ (e # NoRecord /\ e.session = s /\ e.t_published)
  BY NoRecordIsNotARecord DEF EvaluateCreate, Slot, Record

\* The record Begin writes names its own session and nonce and is unresolved.
LEMMA NewRecordFacts ==
    ASSUME NEW s \in Sessions, NEW a \in Alphas
    PROVE  /\ NewRecord(s, a) \in Record
           /\ NewRecord(s, a) # NoRecord
           /\ NewRecord(s, a).session = s
           /\ NewRecord(s, a).alpha = a
           /\ NewRecord(s, a).t_published = FALSE
<1>1. NewRecord(s, a) \in Record
  BY DEF NewRecord, Record
<1>2. NoRecord \notin Record
  BY NoRecordIsNotARecord DEF Record
<1>3. NewRecord(s, a) # NoRecord
  BY <1>1, <1>2
<1> QED
  BY <1>1, <1>3 DEF NewRecord

\* Every initial state satisfies the invariant.
LEMMA NonceInvInit == Init => NonceInv
  BY DEF Init, NonceInv, TypeOK, CacheMatchesRows, HandedOutIsDurable,
         SignersAreInTheRow, Slot

\* Every step keeps the invariant.
LEMMA NonceInvNext == NonceInv /\ [Next]_vars => NonceInv'
<1> SUFFICES ASSUME NonceInv, [Next]_vars PROVE NonceInv'
  OBVIOUS
<1> USE DEF NonceInv
<1>c. Cache = db /\ Cache \in [Keys -> Slot]
  BY CacheIsRow
<1>1. CASE LoadFails
  BY <1>1 DEF LoadFails, Replayed, TypeOK, CacheMatchesRows, HandedOutIsDurable,
              SignersAreInTheRow
<1>2. CASE LoadFromDB
  BY <1>2, <1>c DEF LoadFromDB, TypeOK, CacheMatchesRows, HandedOutIsDurable,
              SignersAreInTheRow
<1>3. ASSUME NEW k \in Keys, NEW s \in Sessions, Round1Safe(k, s)
      PROVE  NonceInv'
  <2> PICK a \in Alphas \ drawn :
        /\ drawn' = drawn \cup {a}
        /\ BeginRejected(k, s, a) \/ BeginOk(k, s, a) \/ BeginWriteFailed(k, s, a)
    BY <1>3 DEF Round1Safe
  <2> loaded' = TRUE /\ unlocked' = unlocked
    BY <1>3 DEF Round1Safe
  <2> DEFINE rec == NewRecord(s, a)
  <2>0. /\ rec \in Record /\ rec # NoRecord /\ rec.session = s
        /\ rec.alpha = a /\ rec.t_published = FALSE
    BY NewRecordFacts
  <2> HIDE DEF rec
  <2>1. CASE mem' = db /\ UNCHANGED <<db, live, signers>>
    BY <2>1 DEF TypeOK, CacheMatchesRows, HandedOutIsDurable, SignersAreInTheRow
  <2>2. CASE BeginOk(k, s, a)
    <3>1. /\ mem' = [db EXCEPT ![k] = rec] /\ db' = [db EXCEPT ![k] = rec]
          /\ live' = [live EXCEPT ![k] = @ \cup {a}]
          /\ signers' = [signers EXCEPT ![k] = @ \cup {s}]
      BY <2>2, <1>c DEF BeginOk, rec
    <3>2. db[k] = NoRecord \/ (db[k] # NoRecord /\ db[k].session = s /\ db[k].t_published)
      <4>1. db[k] \in Slot /\ EvaluateCreate(db[k], s) = "Ok"
        BY <2>2, <1>c DEF BeginOk, TypeOK
      <4> QED
        BY <4>1, EvaluateCreateOk
    <3>3. live[k] = {} /\ signers[k] \in SUBSET {s}
      BY <3>2 DEF HandedOutIsDurable, SignersAreInTheRow, TypeOK
    <3>4. TypeOK'
      BY <3>1, <2>0 DEF TypeOK, Slot
    <3>5. CacheMatchesRows'
      BY <3>1 DEF CacheMatchesRows
    <3>6. HandedOutIsDurable'
      BY <3>1, <3>3, <2>0 DEF HandedOutIsDurable, TypeOK
    <3>7. SignersAreInTheRow'
      BY <3>1, <3>3, <2>0 DEF SignersAreInTheRow, TypeOK
    <3> QED
      BY <3>4, <3>5, <3>6, <3>7
  <2>3. (mem' = db /\ UNCHANGED <<db, live, signers>>) \/ BeginOk(k, s, a)
    BY <1>c DEF BeginRejected, BeginWriteFailed, RollBack, TypeOK
  <2> QED
    BY <2>1, <2>2, <2>3
<1>4. ASSUME NEW k \in Keys, NEW s \in Sessions, CrashInBegin(k, s)
      PROVE  NonceInv'
  <2> PICK a \in Alphas \ drawn :
        drawn' = drawn \cup {a} /\ db' = [db EXCEPT ![k] = NewRecord(s, a)]
    BY <1>4 DEF CrashInBegin
  <2>1. db[k] = NoRecord \/ (db[k] # NoRecord /\ db[k].session = s /\ db[k].t_published)
    <3>1. db[k] \in Slot /\ EvaluateCreate(db[k], s) = "Ok"
      BY <1>4, <1>c DEF CrashInBegin, TypeOK
    <3> QED
      BY <3>1, EvaluateCreateOk
  <2> DEFINE rec == NewRecord(s, a)
  <2>2. /\ rec \in Record /\ rec # NoRecord /\ rec.session = s
        /\ rec.alpha = a /\ rec.t_published = FALSE
    BY NewRecordFacts
  <2> db' = [db EXCEPT ![k] = rec]
    OBVIOUS
  <2> HIDE DEF rec
  <2>3. live[k] = {} /\ signers[k] \in SUBSET {s}
    BY <2>1 DEF HandedOutIsDurable, SignersAreInTheRow, TypeOK
  <2>4. TypeOK' /\ CacheMatchesRows'
    <3>1. /\ mem' = [j \in Keys |-> NoRecord] /\ loaded' = FALSE /\ unlocked' \in BOOLEAN
          /\ UNCHANGED <<live, signers>>
      BY <1>4 DEF CrashInBegin
    <3>2. db' \in [Keys -> Slot] /\ mem' \in [Keys -> Slot]
      BY <2>2, <3>1 DEF TypeOK, Slot
    <3>3. TypeOK'
      BY <3>1, <3>2 DEF TypeOK
    <3>4. CacheMatchesRows'
      BY <3>1 DEF CacheMatchesRows
    <3> QED
      BY <3>3, <3>4
  <2>5. HandedOutIsDurable' /\ SignersAreInTheRow'
    BY <1>4, <2>2, <2>3 DEF CrashInBegin, HandedOutIsDurable, SignersAreInTheRow, TypeOK
  <2> QED
    BY <2>4, <2>5
<1>5. ASSUME NEW k \in Keys, MarkTPublished(k)
      PROVE  NonceInv'
  <2> DEFINE rec == [db[k] EXCEPT !.t_published = TRUE]
  <2>1. db[k] \in Record /\ rec \in Record /\ rec # NoRecord
        /\ rec.session = db[k].session
    BY <1>5, <1>c, NoRecordIsNotARecord DEF MarkTPublished, TypeOK, Slot, Record
  <2>2. \/ mem' = [db EXCEPT ![k] = rec] /\ db' = [db EXCEPT ![k] = rec]
           /\ live' = [live EXCEPT ![k] = {}]
        \/ mem' = db /\ UNCHANGED <<db, live>>
    BY <1>5, <1>c DEF MarkTPublished, RollBack, TypeOK
  <2>3. loaded' = TRUE /\ UNCHANGED <<unlocked, drawn, signers>>
    BY <1>5 DEF MarkTPublished
  <2> HIDE DEF rec
  <2>4. TypeOK' /\ CacheMatchesRows'
    BY <2>1, <2>2, <2>3 DEF TypeOK, CacheMatchesRows, Slot
  <2>5. HandedOutIsDurable' /\ SignersAreInTheRow'
    BY <2>1, <2>2, <2>3 DEF HandedOutIsDurable, SignersAreInTheRow, TypeOK
  <2> QED
    BY <2>4, <2>5
<1>6. ASSUME NEW k \in Keys, Erase(k)
      PROVE  NonceInv'
  <2>1. TypeOK' /\ CacheMatchesRows'
    BY <1>6, <1>c DEF Erase, TypeOK, CacheMatchesRows, Slot
  <2>2. HandedOutIsDurable' /\ SignersAreInTheRow'
    BY <1>6, <1>c DEF Erase, HandedOutIsDurable, SignersAreInTheRow, TypeOK
  <2> QED
    BY <2>1, <2>2
<1>7. CASE ToggleLock
  BY <1>7 DEF ToggleLock, TypeOK, CacheMatchesRows, HandedOutIsDurable,
              SignersAreInTheRow
<1>8. CASE Restart
  BY <1>8 DEF Restart, TypeOK, CacheMatchesRows, HandedOutIsDurable,
              SignersAreInTheRow, Slot
<1>9. CASE UNCHANGED vars
  BY <1>9 DEF vars, TypeOK, CacheMatchesRows, HandedOutIsDurable, SignersAreInTheRow
<1> QED
  BY <1>1, <1>2, <1>3, <1>4, <1>5, <1>6, <1>7, <1>8, <1>9 DEF Next

\* NonceInv holds in every state the nonce records can reach.
THEOREM NonceInvariant == Spec => []NonceInv
  BY NonceInvInit, NonceInvNext, PTL DEF Spec

\* Type correctness of the nonce records.
THEOREM TypeCorrect == Spec => []TypeOK
<1>1. NonceInv => TypeOK
  BY DEF NonceInv
<1> QED
  BY <1>1, NonceInvariant, PTL

\* A nonce in use is the one in the durable row (round1_safe persists before
\* it returns alpha).
THEOREM PersistBeforeRelease == Spec => []HandedOutIsDurable
<1>1. NonceInv => HandedOutIsDurable
  BY DEF NonceInv
<1> QED
  BY <1>1, NonceInvariant, PTL

\* A loaded cache is the database (the rollbacks of Begin and MarkTPublished).
THEOREM CacheCoherence == Spec => []CacheMatchesRows
<1>1. NonceInv => CacheMatchesRows
  BY DEF NonceInv
<1> QED
  BY <1>1, NonceInvariant, PTL

\* At most one nonce is handed out for an open slot.
THEOREM NonceUniqueness == Spec => []OneNoncePerOpenSlot
<1>1. NonceInv => OneNoncePerOpenSlot
  <2> SUFFICES ASSUME NonceInv, NEW k \in Keys PROVE Cardinality(live[k]) <= 1
    BY DEF OneNoncePerOpenSlot
  <2>1. live[k] = {} \/ live[k] = {db[k].alpha}
    BY DEF NonceInv, HandedOutIsDurable
  <2>2. Cardinality({}) = 0 /\ Cardinality({db[k].alpha}) = 1
    BY FS_EmptySet, FS_Singleton
  <2> QED
    BY <2>1, <2>2
<1> QED
  BY <1>1, NonceInvariant, PTL

\* At most one session receives nonces for a slot, until the slot is erased.
THEOREM SessionUniqueness == Spec => []OneSessionPerSlot
<1>1. NonceInv => OneSessionPerSlot
  <2> SUFFICES ASSUME NonceInv, NEW k \in Keys PROVE Cardinality(signers[k]) <= 1
    BY DEF OneSessionPerSlot
  <2>1. signers[k] = {} \/ signers[k] = {db[k].session}
    BY DEF NonceInv, SignersAreInTheRow
  <2>2. Cardinality({}) = 0 /\ Cardinality({db[k].session}) = 1
    BY FS_EmptySet, FS_Singleton
  <2> QED
    BY <2>1, <2>2
<1> QED
  BY <1>1, NonceInvariant, PTL

-----------------------------------------------------------------------------
(* The records implement NonceSlots. *)

\* When Begin succeeds, no nonce is out for the slot and no other session has had one.
LEMMA BeginOkIsFirst ==
    ASSUME NonceInv, NEW k \in Keys, NEW s \in Sessions, NEW a, BeginOk(k, s, a)
    PROVE  live[k] = {} /\ signers[k] \subseteq {s}
<1>1. Cache = db
  BY CacheIsRow DEF NonceInv
<1>2. db[k] \in Slot /\ EvaluateCreate(db[k], s) = "Ok"
  BY <1>1 DEF BeginOk, NonceInv, TypeOK
<1>3. db[k] = NoRecord \/ (db[k] # NoRecord /\ db[k].session = s /\ db[k].t_published)
  BY <1>2, EvaluateCreateOk
<1> QED
  BY <1>3 DEF NonceInv, HandedOutIsDurable, SignersAreInTheRow, TypeOK

\* A step uses a free slot, closes one, or is not seen outside.
LEMMA StepUses ==
    ASSUME NonceInv, [Next]_vars
    PROVE  /\ UNCHANGED live \/ NoncesOut!Next
           /\ UNCHANGED signers \/ SessionsServed!Next
<1> USE DEF NoncesOut!Next, NoncesOut!Use, NoncesOut!Close,
            SessionsServed!Next, SessionsServed!Use, SessionsServed!Close
<1>1. ASSUME NEW k \in Keys, NEW s \in Sessions, Round1Safe(k, s)
      PROVE  (UNCHANGED live \/ NoncesOut!Next) /\ (UNCHANGED signers \/ SessionsServed!Next)
  <2>1. PICK a \in Alphas :
          BeginRejected(k, s, a) \/ BeginOk(k, s, a) \/ BeginWriteFailed(k, s, a)
    BY <1>1 DEF Round1Safe
  <2>2. CASE BeginOk(k, s, a)
    <3>1. live[k] = {} /\ signers[k] \subseteq {s}
      BY <2>2, BeginOkIsFirst
    <3>2. live[k] \cup {a} = {a} /\ signers[k] \cup {s} = {s}
      BY <3>1
    <3>3. live' = [live EXCEPT ![k] = {a}] /\ signers' = [signers EXCEPT ![k] = {s}]
      BY <2>2, <3>2 DEF BeginOk
    <3> QED
      BY <3>1, <3>3
  <2> QED
    BY <2>1, <2>2 DEF BeginRejected, BeginWriteFailed
<1>2. ASSUME NEW k \in Keys, MarkTPublished(k)
      PROVE  (UNCHANGED live \/ NoncesOut!Next) /\ UNCHANGED signers
  BY <1>2 DEF MarkTPublished
<1>3. ASSUME NEW k \in Keys, Erase(k)
      PROVE  (UNCHANGED live \/ NoncesOut!Next) /\ (UNCHANGED signers \/ SessionsServed!Next)
  BY <1>3 DEF Erase
<1>4. CASE \/ LoadFails \/ LoadFromDB \/ ToggleLock \/ Restart
           \/ \E k \in Keys, s \in Sessions : CrashInBegin(k, s)
  BY <1>4 DEF LoadFails, LoadFromDB, ToggleLock, Restart, CrashInBegin
<1>5. CASE UNCHANGED vars
  BY <1>5 DEF vars
<1> QED
  BY <1>1, <1>2, <1>3, <1>4, <1>5 DEF Next

\* Cache, failed writes and loads, lock, crashes and restarts do not show: for any keys,
\* sessions and nonces, what round1_safe hands out is a cell per slot.
THEOREM Refinement == Spec => Implements
<1>1. Init => NoncesOut!Init /\ SessionsServed!Init
  BY DEF Init, NoncesOut!Init, SessionsServed!Init
<1>2. NonceInv /\ [Next]_vars => [NoncesOut!Next]_live /\ [SessionsServed!Next]_signers
  BY StepUses
<1> QED
  BY <1>1, <1>2, NonceInvariant, PTL DEF Spec, Implements, NoncesOut!Spec, SessionsServed!Spec

=============================================================================
