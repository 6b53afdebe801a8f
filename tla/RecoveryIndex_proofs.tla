--------------------------- MODULE RecoveryIndex_proofs ---------------------------
(***************************************************************************)
(* Proofs about the cache of confidential outputs: every variable keeps    *)
(* its type, and what the index holds is what the chain up to the block    *)
(* scanned last holds for the wallet, for every block tree, set of outputs *)
(* and set of seeds.                                                       *)
(***************************************************************************)
EXTENDS RecoveryIndex, FiniteSetTheorems, TLAPS

(***************************************************************************)
(* The block tree.                                                         *)
(***************************************************************************)

\* The height of a block is a natural number, as nHeight of a CBlockIndex.
LEMMA HeightIsNat == ASSUME NEW b \in Blocks PROVE Height(b) \in Nat
<1>1. IsFiniteSet(Anc[b]) /\ Anc[b] # {}
  BY BlockTree
<1>2. Cardinality(Anc[b]) \in Nat /\ Cardinality(Anc[b]) # 0
  BY <1>1, FS_CardinalityType, FS_EmptySet
<1> QED
  BY <1>2 DEF Height

\* An ancestor is not higher than the block, and as high only if it is the block.
LEMMA AncestorHeight ==
  ASSUME NEW b \in Blocks, NEW a \in Anc[b]
  PROVE  /\ Height(a) <= Height(b)
         /\ Height(a) = Height(b) => a = b
<1>1. /\ a \in Blocks /\ b \in Anc[b]
      /\ IsFiniteSet(Anc[b]) /\ Anc[a] \in SUBSET Anc[b]
      /\ b \in Anc[a] => a = b
  BY BlockTree
<1>2. /\ Cardinality(Anc[a]) <= Cardinality(Anc[b])
      /\ Cardinality(Anc[b]) = Cardinality(Anc[a]) => Anc[b] = Anc[a]
  BY <1>1, FS_Subset
<1>3. Cardinality(Anc[a]) \in Nat /\ Cardinality(Anc[b]) \in Nat
  BY <1>1, FS_CardinalityType, BlockTree
<1> QED
  BY <1>1, <1>2, <1>3 DEF Height

\* No two blocks of one chain have the same height.
LEMMA OneBlockPerHeight ==
  ASSUME NEW b \in Blocks, NEW a \in Anc[b], NEW c \in Anc[b], Height(a) = Height(c)
  PROVE  a = c
<1>1. a \in Blocks /\ c \in Blocks /\ (a \in Anc[c] \/ c \in Anc[a])
  BY BlockTree
<1> QED
  BY <1>1, AncestorHeight

\* A chain has a block at every height up to that of its tip: the heights of its
\* blocks are as many different numbers as there are heights.
LEMMA BlockAtHeight ==
  ASSUME NEW b \in Blocks, NEW h \in 0..Height(b)
  PROVE  \E a \in Anc[b] : Height(a) = h
<1> DEFINE f == [a \in Anc[b] |-> Height(a)]
           H == 0..Height(b)
<1>1. Height(b) \in Nat /\ Cardinality(Anc[b]) = Height(b) + 1
  <2>1. Cardinality(Anc[b]) \in Nat
    BY FS_CardinalityType, BlockTree
  <2> QED
    BY <2>1, HeightIsNat DEF Height
<1>2. f \in Injection(Anc[b], H)
  <2>1. ASSUME NEW a \in Anc[b] PROVE Height(a) \in H
    BY <1>1, BlockTree, HeightIsNat, AncestorHeight
  <2>2. f \in [Anc[b] -> H]
    BY <2>1
  <2>3. ASSUME NEW a \in Anc[b], NEW c \in Anc[b], f[a] = f[c] PROVE a = c
    BY <2>3, OneBlockPerHeight
  <2> QED
    BY <2>2, <2>3 DEF Injection, IsInjective
<1>3. IsFiniteSet(H) /\ Cardinality(H) = Height(b) + 1
  BY <1>1, FS_Interval
<1>4. f \in Surjection(Anc[b], H)
  BY <1>1, <1>2, <1>3, FS_Injection, Zenon
<1> QED
  BY <1>4 DEF Surjection

\* The chain up to a block is the chain up to its parent and the block.
LEMMA ChainOfChild ==
  ASSUME NEW b \in Blocks, NEW a \in Anc[b], Height(b) = Height(a) + 1
  PROVE  Anc[b] = Anc[a] \cup {b}
<1>1. /\ a \in Blocks /\ b \in Anc[b]
      /\ IsFiniteSet(Anc[a]) /\ IsFiniteSet(Anc[b]) /\ Anc[a] \subseteq Anc[b]
  BY BlockTree
<1>2. Cardinality(Anc[a]) \in Nat /\ Cardinality(Anc[b]) \in Nat
  BY <1>1, FS_CardinalityType
<1>3. b \notin Anc[a]
  BY <1>1, HeightIsNat, AncestorHeight
<1>4. Cardinality(Anc[a] \cup {b}) = Cardinality(Anc[b])
  <2>1. Cardinality(Anc[a] \cup {b}) = Cardinality(Anc[a]) + 1
    BY <1>1, <1>3, FS_AddElement
  <2> QED
    BY <1>2, <2>1 DEF Height
<1>5. Anc[a] \cup {b} \in SUBSET Anc[b]
  BY <1>1
<1> QED
  BY <1>1, <1>4, <1>5, FS_Subset

\* A block of height zero has no ancestor but itself.
LEMMA ChainOfRoot ==
  ASSUME NEW b \in Blocks, Height(b) = 0
  PROVE  Anc[b] = {b}
<1>1. IsFiniteSet(Anc[b]) /\ {b} \in SUBSET Anc[b]
  BY BlockTree
<1>2. Cardinality(Anc[b]) \in Nat /\ Cardinality({b}) = 1
  BY <1>1, FS_CardinalityType, FS_Singleton
<1> QED
  BY <1>1, <1>2, FS_Subset DEF Height

\* A set of numbers with an upper bound has a greatest one, as the subaddress
\* indices found in one block.
LEMMA GreatestExists ==
  ASSUME NEW S \in SUBSET Nat, S # {}, NEW n \in Nat, \A s \in S : s <= n
  PROVE  \E m \in S : \A s \in S : s <= m
<1> DEFINE R == {ss \in Nat \X Nat : ss[1] < ss[2]}
           T == {n - s : s \in S}
<1>1. IsWellFoundedOn(R, Nat)
  BY NatLessThanWellFounded, Zenon DEF OpToRel
<1>2. T \subseteq Nat /\ T # {}
  <2>1. ASSUME NEW s \in S PROVE n - s \in Nat
    OBVIOUS
  <2>2. PICK s \in S : TRUE
    OBVIOUS
  <2>3. n - s \in T
    OBVIOUS
  <2> QED
    BY <2>1, <2>3
<1>3. \E x \in T : \A y \in T : ~ (<<y, x>> \in R)
  BY <1>1, <1>2, WFMin, Zenon
<1>4. PICK x \in T : \A y \in T : ~ (<<y, x>> \in R)
  BY <1>3
<1>5. PICK m \in S : x = n - m
  OBVIOUS
<1>6. ASSUME NEW s \in S PROVE s <= m
  <2>1. n - s \in T /\ n - s \in Nat /\ x \in Nat
    BY <1>2
  <2>2. ~ (n - s < x)
    BY <1>4, <2>1
  <2> QED
    BY <1>5, <2>2
<1> QED
  BY <1>6

(***************************************************************************)
(* Types.                                                                  *)
(***************************************************************************)

\* getBlockHash returns the block of the active chain at the height asked for.
LEMMA BlockOfActiveChain ==
  ASSUME TypeOK, NEW h \in 0..Height(tip)
  PROVE  /\ getBlockHash(h) \in Anc[tip]
         /\ getBlockHash(h) \in Blocks
         /\ Height(getBlockHash(h)) = h
<1>1. tip \in Blocks
  BY DEF TypeOK
<1>2. \E a \in Anc[tip] : Height(a) = h
  BY <1>1, BlockAtHeight
<1>3. getBlockHash(h) \in Anc[tip] /\ Height(getBlockHash(h)) = h
  BY <1>2 DEF getBlockHash
<1> QED
  BY <1>1, <1>3, BlockTree

\* The index of a new process is one.
LEMMA EmptyIsIndex == Empty \in Index
<1>1. <<>> \in [{} -> Heights]
  OBVIOUS
<1>2. <<>> \in UNION {[S -> Heights] : S \in SUBSET Outputs}
  BY <1>1
<1> QED
  BY <1>2 DEF Empty, Index

\* The block that the walk reads is one of the active chain, above the last one.
LEMMA NextBlock ==
  ASSUME TypeOK, ~Asserts(index.height + 1)
  PROVE  /\ index.height + 1 \in 0..Height(tip)
         /\ getBlockHash(index.height + 1) \in Blocks
         /\ getBlockHash(index.height + 1) \in Anc[tip]
         /\ Height(getBlockHash(index.height + 1)) = index.height + 1
<1>1. index.height \in {-1} \cup Heights /\ tip \in Blocks
  BY DEF TypeOK, Index
<1>2. index.height + 1 \in Nat /\ Height(tip) \in Nat
  BY <1>1, HeightIsNat DEF Heights
<1>3. index.height + 1 \in 0..Height(tip)
  BY <1>2 DEF Asserts
<1> QED
  BY <1>3, BlockOfActiveChain

\* A record with too many entries still loads as an index, without them.
LEMMA DeserializedIsIndex ==
  ASSUME NEW r \in Index PROVE DeserializeRecoveryIndex(r) \in Index
<1>1. <<>> \in UNION {[S -> Heights] : S \in SUBSET Outputs}
  BY EmptyIsIndex DEF Empty, Index
<1>2. [r EXCEPT !.entries = <<>>] \in Index
  BY <1>1 DEF Index
<1> QED
  BY <1>2 DEF DeserializeRecoveryIndex

\* The walk extends an index to an index.
LEMMA ScannedIsIndex ==
  ASSUME TypeOK, NEW ix \in Index, NEW b \in Blocks, NEW outs \in findBlock(b)
  PROVE  Scanned(ix, b, outs) \in Index
<1> DEFINE found == TryRecoverCTOutput(outs)
           new == [o \in DOMAIN ix.entries \cup found |->
                     IF o \in found THEN Height(b) ELSE ix.entries[o]]
<1>1. PICK S \in SUBSET Outputs : ix.entries \in [S -> Heights]
  BY DEF Index
<1>2. found \in SUBSET Outputs
  BY OutputsTyped DEF TryRecoverCTOutput, findBlock
<1>3. Height(b) \in Heights
  BY DEF Heights
<1>4. new \in [S \cup found -> Heights]
  BY <1>1, <1>3
<1>5. S \cup found \in SUBSET Outputs
  BY <1>1, <1>2
<1>6. new \in UNION {[U -> Heights] : U \in SUBSET Outputs}
  BY <1>4, <1>5
<1>7. ix.intact \in BOOLEAN /\ (ix.intact /\ (ix.height >= 0 => ix.hash \in Anc[b])) \in BOOLEAN
  BY DEF Index
<1>8. ix.unread \in SUBSET Blocks /\ ix.unread \cup {b} \in SUBSET Blocks
  BY DEF Index
<1> QED
  BY <1>3, <1>6, <1>7, <1>8 DEF Scanned, Index

\* After PersistRecoveryIndex the file holds no index, the one before, or the one saved.
LEMMA RowTyped ==
  ASSUME TypeOK, NEW ix \in Index, PersistRecoveryIndex(ix)
  PROVE  row' = <<>> \/ (row' = <<row'[1]>> /\ row'[1] \in Index)
<1>1. row' = row \/ row' = <<ix>>
  BY DEF PersistRecoveryIndex, TypeOK
<1> QED
  BY <1>1 DEF TypeOK

\* The indices that a block reveals are those of outputs, and one is the greatest.
LEMMA NotedTyped ==
  ASSUME TypeOK, NEW b \in Blocks, NEW outs \in findBlock(b), NoteSubaddressDiscovered(outs)
  PROVE  maxUsed' \in {-1} \cup Indices /\ maxUsedRow' \in Indices
<1> DEFINE beyond == {SubIndex[o] : o \in TryRecoverCTOutput(outs)} \ 0..maxUsed
           top == CHOOSE m \in beyond : \A n \in beyond : n <= m
<1>1. \A o \in TryRecoverCTOutput(outs) :
        o \in Outputs /\ SubIndex[o] \in Nat /\ SubIndex[o] <= sync.ceiling
  BY OutputsTyped DEF TryRecoverCTOutput, findBlock
<1>2. beyond \in SUBSET Nat /\ beyond \subseteq Indices /\ \A n \in beyond : n <= sync.ceiling
  BY <1>1 DEF Indices
<1>3. sync.ceiling \in Nat /\ maxUsed \in {-1} \cup Indices /\ maxUsedRow \in Indices
  BY DEF TypeOK
<1>4. CASE beyond = {}
  BY <1>3, <1>4 DEF NoteSubaddressDiscovered
<1>5. CASE beyond # {}
  <2>1. \E m \in beyond : \A n \in beyond : n <= m
    BY <1>2, <1>3, <1>5, GreatestExists
  <2>2. top \in beyond
    BY <2>1
  <2>3. maxUsed' = top /\ (maxUsedRow' = maxUsedRow \/ maxUsedRow' \in beyond)
    <3>1. /\ maxUsed' = top
          /\ maxUsedRow' \in (CASE locked -> {maxUsedRow}
                                [] ~locked /\ calm -> {top}
                                [] ~locked /\ ~calm -> beyond \cup {maxUsedRow})
      BY <1>5 DEF NoteSubaddressDiscovered
    <3>2. locked \in BOOLEAN /\ calm \in BOOLEAN
      BY DEF TypeOK
    <3> QED
      BY <2>2, <3>1, <3>2
  <2> QED
    BY <1>2, <1>3, <2>2, <2>3
<1> QED
  BY <1>4, <1>5

\* A sync, a new seed and a restart leave every variable with its type, and so
\* does whatever the chain or the wallet's owner does meanwhile.
LEMMA TypeStep == TypeOK /\ [Next]_vars => TypeOK'
<1> SUFFICES ASSUME TypeOK, [Next]_vars PROVE TypeOK'
  OBVIOUS
<1> USE DEF chainVars, keyVars, fileVars
<1>h. /\ Height(tip) \in Heights /\ Idle \in [at: {"idle", "check", "scan", "drop"},
            to: {-1} \cup Heights, ceiling: Nat]
      /\ \A i \in Indices : i \in Nat
  BY OutputsTyped DEF TypeOK, Heights, Idle, Indices
<1>1. CASE SyncBegin
  <2>1. index' \in Index
    <3>1. CASE tried
      BY <1>1, <3>1 DEF SyncBegin, TypeOK
    <3>2. CASE ~tried
      <4>1. index' \in LoadPersistedRecoveryIndex
        BY <1>1, <3>2 DEF SyncBegin
      <4>2. index' = Empty \/ (row # <<>> /\ index' = DeserializeRecoveryIndex(row[1]))
        BY <4>1 DEF LoadPersistedRecoveryIndex
      <4> QED
        BY <4>2, EmptyIsIndex, DeserializedIsIndex DEF TypeOK
    <3> QED
      BY <3>1, <3>2
  <2> QED
    BY <1>1, <1>h, <2>1 DEF SyncBegin, TypeOK, Idle
<1>2. CASE SyncCheck
  <2>1. index' \in Index
    BY <1>2, EmptyIsIndex DEF SyncCheck, Rescan, TypeOK
  <2>2. LoadSubaddressState \in Indices /\ LoadSubaddressState + kSubaddressGapLimit \in Nat
    BY <1>h, OutputsTyped DEF LoadSubaddressState, TypeOK
  <2>3. CASE index'.height >= sync.to \/ LookupThrows
    BY <1>2, <1>h, <2>1, <2>3 DEF SyncCheck, TypeOK
  <2>4. CASE ~(index'.height >= sync.to \/ LookupThrows)
    BY <1>2, <2>1, <2>2, <2>4 DEF SyncCheck, TypeOK
  <2> QED
    BY <2>3, <2>4
<1>3. CASE SyncScan
  <2> DEFINE b == getBlockHash(index.height + 1)
  <2>1. b \in Blocks /\ index \in Index
    BY <1>3, NextBlock DEF SyncScan, TypeOK
  <2>2. PICK outs \in findBlock(b) : ScanBlock(b, outs)
    BY <1>3 DEF SyncScan
  <2>3. QED
    <3>1. index' \in Index
      BY <2>1, <2>2, ScannedIsIndex DEF ScanBlock
    <3>2. maxUsed' \in {-1} \cup Indices /\ maxUsedRow' \in Indices
      BY <2>1, <2>2, NotedTyped DEF ScanBlock
    <3>3. row' = <<>> \/ (row' = <<row'[1]>> /\ row'[1] \in Index)
      BY <2>2, <3>1, RowTyped DEF ScanBlock, TypeOK
    <3>4. sync' = Idle \/ sync' = sync
      BY <2>2 DEF ScanBlock
    <3> QED
      BY <1>3, <1>h, <3>1, <3>2, <3>3, <3>4 DEF SyncScan, TypeOK
<1>4. ASSUME NEW s \in Seeds, SetSeed(s) PROVE TypeOK'
  <2>1. row # <<>> => [row[1] EXCEPT !.intact = @ /\ s = seed] \in Index
    BY DEF TypeOK, Index
  <2>2. row' = <<>> \/ (row' = <<row'[1]>> /\ row'[1] \in Index)
    BY <1>4, <2>1 DEF SetSeed
  <2> QED
    BY <1>4, <1>h, <2>2 DEF SetSeed, TypeOK, Idle
<1>5. CASE DropCTRecoveryCache
  <2>1. row' = <<>> \/ row' = row
    BY <1>5 DEF DropCTRecoveryCache
  <2> QED
    BY <1>5, <1>h, <2>1, EmptyIsIndex DEF DropCTRecoveryCache, TypeOK
<1>6. CASE GetOrCreate
  BY <1>6 DEF GetOrCreate, TypeOK
<1>7. ASSUME NEW b \in Blocks, ChainMoves(b) PROVE TypeOK'
  BY <1>7 DEF ChainMoves, TypeOK
<1>8. CASE Restarted
  BY <1>8, <1>h, EmptyIsIndex DEF Restarted, TypeOK
<1>9. ASSUME NEW on \in BOOLEAN, Passphrase(on) PROVE TypeOK'
  BY <1>9 DEF Passphrase, TypeOK
<1>10. CASE CalmBegins
  BY <1>10 DEF CalmBegins, TypeOK
<1>11. CASE UNCHANGED vars
  BY <1>11 DEF vars, TypeOK
<1> QED
  BY <1>1, <1>2, <1>3, <1>4, <1>5, <1>6, <1>7, <1>8, <1>9, <1>10, <1>11
     DEF Next, Crash, AssertFails

\* Every variable keeps its type, for every block tree and set of outputs.
THEOREM TypeCorrect == Spec => []TypeOK
<1>1. Init => TypeOK
  <2>1. Genesis \in Blocks
    BY BlockTree
  <2>2. Idle \in [at: {"idle", "check", "scan", "drop"}, to: {-1} \cup Heights,
                  ceiling: Nat]
    BY DEF Idle
  <2> QED
    BY <2>1, <2>2, EmptyIsIndex DEF Init, TypeOK, Indices
<1> QED
  BY <1>1, TypeStep, PTL DEF Spec

(***************************************************************************)
(* Where the index stands: at the height of its last block, in memory and  *)
(* in the wallet file alike, for the saved one comes back after a restart. *)
(***************************************************************************)
Placed(ix) ==
    IF ix.height = -1 THEN ix.hash = NoBlock /\ ix.entries = <<>>
    ELSE ix.hash \in Blocks /\ Height(ix.hash) = ix.height

PlaceInv ==
    /\ Placed(index)
    /\ row # <<>> => Placed(row[1])
    /\ ~tried => index = Empty /\ sync.at \notin {"check", "scan"}

\* No step moves an index away from its last block.
LEMMA PlaceStep == TypeOK /\ PlaceInv /\ [Next]_vars => PlaceInv'
<1> SUFFICES ASSUME TypeOK, PlaceInv, [Next]_vars PROVE PlaceInv'
  OBVIOUS
<1> USE DEF chainVars, keyVars, fileVars
<1>e. Placed(Empty)
  BY DEF Placed, Empty
<1>1. CASE SyncBegin
  <2>1. index' = index \/ index' = Empty \/ (row # <<>> /\ index' = DeserializeRecoveryIndex(row[1]))
    BY <1>1 DEF SyncBegin, LoadPersistedRecoveryIndex
  <2>2. row # <<>> => Placed(DeserializeRecoveryIndex(row[1]))
    BY DEF DeserializeRecoveryIndex, Placed, PlaceInv, TypeOK, Index
  <2> QED
    BY <1>1, <1>e, <2>1, <2>2 DEF SyncBegin, PlaceInv
<1>2. CASE SyncCheck
  <2>1. Placed(index') /\ tried /\ UNCHANGED <<tried, row>>
    BY <1>2, <1>e DEF SyncCheck, Rescan, PlaceInv
  <2> QED
    BY <2>1 DEF PlaceInv
<1>3. CASE SyncScan
  <2> DEFINE b == getBlockHash(index.height + 1)
  <2>1. b \in Blocks /\ Height(b) = index.height + 1 /\ tried /\ tried' = tried
    BY <1>3, NextBlock DEF SyncScan, PlaceInv
  <2>2. PICK outs \in findBlock(b) : ScanBlock(b, outs)
    BY <1>3 DEF SyncScan
  <2>3. Placed(index')
    BY <2>1, <2>2, HeightIsNat DEF ScanBlock, Scanned, Placed
  <2>4. row' = row \/ row' = <<index'>>
    BY <2>2 DEF ScanBlock, PersistRecoveryIndex, TypeOK
  <2> QED
    BY <2>1, <2>3, <2>4 DEF PlaceInv
<1>4. ASSUME NEW s \in Seeds, SetSeed(s) PROVE PlaceInv'
  <2>1. row # <<>> => Placed([row[1] EXCEPT !.intact = @ /\ s = seed])
    BY DEF PlaceInv, Placed, TypeOK, Index
  <2> QED
    BY <1>4, <2>1 DEF SetSeed, Idle, PlaceInv
<1>5. CASE DropCTRecoveryCache
  <2>1. row' = <<>> \/ row' = row
    BY <1>5 DEF DropCTRecoveryCache
  <2> QED
    BY <1>5, <1>e, <2>1 DEF DropCTRecoveryCache, Idle, PlaceInv
<1>6. CASE Restarted
  BY <1>6, <1>e DEF Restarted, Idle, PlaceInv
<1>7. CASE UNCHANGED <<index, tried, row, sync>>
  BY <1>7 DEF PlaceInv
<1> QED
  BY <1>1, <1>2, <1>3, <1>4, <1>5, <1>6, <1>7
     DEF Next, Crash, AssertFails, GetOrCreate, ChainMoves, Passphrase, CalmBegins, vars

\* An index stands at its last block, and a process that has not tried to load the
\* saved one has an empty index.
LEMMA PlaceInvariant == Spec => []PlaceInv
<1>1. Init => PlaceInv
  BY DEF Init, Idle, Placed, Empty, PlaceInv
<1> QED
  BY <1>1, PlaceStep, TypeCorrect, PTL DEF Spec

(***************************************************************************)
(* What the index holds.  The next block of the walk extends exactly the   *)
(* chain that the index covers, because the index stands at its last       *)
(* block; the lookup it is read with is that of the seed on record and     *)
(* reaches at least the gap limit; and the saved index is exact as well.   *)
(***************************************************************************)
ExactInv ==
    /\ id \in {NoSeed, seed}
    /\ sync.at = "scan" => id = seed /\ sync.ceiling >= kSubaddressGapLimit
    /\ IndexIsExact
    /\ row # <<>> => Exact(row[1], seed)

\* No chain holds more outputs for one seed than DeserializeRecoveryIndex accepts.
WithinLimit ==
    \A b \in Blocks, s \in Seeds :
        IsFiniteSet(Paid(Anc[b], s)) /\ Cardinality(Paid(Anc[b], s)) <= MaxEntries

\* The index that the walk extends by the next block covers the chain up to it.
LEMMA ScannedExact ==
  ASSUME TypeOK, PlaceInv, ExactInv, sync.at = "scan",
         NEW b \in Blocks, Height(b) = index.height + 1, NEW outs \in findBlock(b)
  PROVE  Exact(Scanned(index, b, outs), seed)
<1> DEFINE found == TryRecoverCTOutput(outs)
           new == Scanned(index, b, outs)
<1>1. /\ index.height \in {-1} \cup Nat /\ Height(b) \in Nat
      /\ index \in Index
  BY HeightIsNat DEF TypeOK, Index, Heights
<1>3. SUFFICES ASSUME index.intact, index.height >= 0 => index.hash \in Anc[b]
               PROVE  /\ Owed(Anc[b] \ new.unread, seed) \subseteq DOMAIN new.entries
                      /\ \A o \in DOMAIN new.entries :
                            /\ Payee[o] = seed
                            /\ \E a \in Anc[b] : o \in OutputsOf[a] /\ Height(a) = new.entries[o]
  BY DEF Exact, Scanned
<1>4. /\ DOMAIN new.entries = DOMAIN index.entries \cup found
      /\ \A o \in found : new.entries[o] = Height(b)
      /\ \A o \in (DOMAIN index.entries) \ found : new.entries[o] = index.entries[o]
      /\ index.unread \subseteq new.unread
      /\ b \notin new.unread => outs = OutputsOf[b]
  BY DEF Scanned
<1>5. ASSUME b \notin new.unread, NEW o \in OutputsOf[b],
             Payee[o] = seed, SubIndex[o] <= kSubaddressGapLimit
      PROVE  o \in found
  BY <1>4, <1>5, OutputsTyped DEF ExactInv, TypeOK, TryRecoverCTOutput
<1>6. b \in Anc[b] /\ \A o \in found : Payee[o] = seed /\ o \in OutputsOf[b]
  BY BlockTree DEF ExactInv, TryRecoverCTOutput, findBlock
<1>7. CASE index.height = -1
  <2>1. Anc[b] = {b} /\ DOMAIN index.entries = {}
    BY <1>7, ChainOfRoot DEF PlaceInv, Placed
  <2>2. Owed(Anc[b] \ new.unread, seed) \subseteq found
    BY <1>5, <2>1 DEF Owed, Paid
  <2> QED
    BY <1>4, <1>6, <2>1, <2>2
<1>8. CASE index.height >= 0
  <2>1. /\ index.hash \in Blocks /\ Height(index.hash) = index.height
        /\ index.hash \in Anc[b]
    BY <1>1, <1>3, <1>8 DEF PlaceInv, Placed
  <2>2. Anc[b] = Anc[index.hash] \cup {b}
    BY <2>1, ChainOfChild
  <2>3. /\ Owed(Anc[index.hash] \ index.unread, seed) \subseteq DOMAIN index.entries
        /\ \A o \in DOMAIN index.entries :
              /\ Payee[o] = seed
              /\ \E a \in Anc[index.hash] : o \in OutputsOf[a] /\ Height(a) = index.entries[o]
    BY <1>3, <1>8 DEF ExactInv, IndexIsExact, Exact
  <2>4. Owed(Anc[b] \ new.unread, seed) \subseteq Owed(Anc[index.hash] \ index.unread, seed) \cup found
    BY <1>4, <1>5, <2>2 DEF Owed, Paid
  <2>5. Owed(Anc[b] \ new.unread, seed) \subseteq DOMAIN new.entries
    BY <1>4, <2>3, <2>4
  <2>6. ASSUME NEW o \in DOMAIN new.entries
        PROVE  /\ Payee[o] = seed
               /\ \E a \in Anc[b] : o \in OutputsOf[a] /\ Height(a) = new.entries[o]
    <3>1. CASE o \in found
      BY <1>4, <1>6, <3>1
    <3>2. CASE o \in (DOMAIN index.entries) \ found
      BY <1>4, <2>2, <2>3, <3>2
    <3> QED
      BY <1>4, <3>1, <3>2
  <2> QED
    BY <2>5, <2>6
<1>9. index.height = -1 \/ index.height >= 0
  BY <1>1
<1> QED
  BY <1>7, <1>8, <1>9, Zenon

\* An index that was exact when it was saved is loaded with all its entries.
LEMMA LoadedExact ==
  ASSUME WithinLimit, NEW r \in Index, NEW s \in Seeds, Placed(r), Exact(r, s)
  PROVE  Exact(DeserializeRecoveryIndex(r), s)
<1> DEFINE cut == [r EXCEPT !.entries = <<>>]
<1>1. CASE Cardinality(DOMAIN r.entries) > MaxEntries
  <2>1. DeserializeRecoveryIndex(r) = cut
    BY <1>1 DEF DeserializeRecoveryIndex
  <2>2. cut.height = r.height /\ cut.hash = r.hash /\ cut.entries = <<>>
        /\ cut.intact = r.intact /\ cut.unread = r.unread
    BY DEF Index
  <2>3. ~(r.intact /\ r.height >= 0)
    <3>1. SUFFICES ASSUME r.intact, r.height >= 0 PROVE FALSE
      OBVIOUS
    <3>2. r.hash \in Blocks /\ DOMAIN r.entries \in SUBSET Paid(Anc[r.hash], s)
      BY <3>1 DEF Placed, Exact, Paid
    <3>3. /\ IsFiniteSet(Paid(Anc[r.hash], s))
          /\ Cardinality(Paid(Anc[r.hash], s)) <= MaxEntries
      BY <3>2 DEF WithinLimit
    <3>4. /\ IsFiniteSet(DOMAIN r.entries)
          /\ Cardinality(DOMAIN r.entries) <= Cardinality(Paid(Anc[r.hash], s))
      BY <3>2, <3>3, FS_Subset
    <3>5. Cardinality(DOMAIN r.entries) \in Nat /\ Cardinality(Paid(Anc[r.hash], s)) \in Nat
      BY <3>3, <3>4, FS_CardinalityType
    <3> QED
      BY <1>1, <3>3, <3>4, <3>5, OutputsTyped
  <2> QED
    BY <2>1, <2>2, <2>3 DEF Exact
<1>2. CASE ~(Cardinality(DOMAIN r.entries) > MaxEntries)
  BY <1>2 DEF DeserializeRecoveryIndex
<1> QED
  BY <1>1, <1>2

\* An empty index is exact.
LEMMA EmptyExact == ASSUME NEW s PROVE Exact(Empty, s)
  BY DEF Exact, Empty

\* Whatever happens to the chain, the wallet file or the process, the index in
\* memory and the one on file stay exact for the seed they were built with.
LEMMA ExactStep ==
  ASSUME WithinLimit PROVE TypeOK /\ PlaceInv /\ ExactInv /\ [Next]_vars => ExactInv'
<1> SUFFICES ASSUME TypeOK, PlaceInv, ExactInv, [Next]_vars PROVE ExactInv'
  OBVIOUS
<1> USE DEF chainVars, keyVars, fileVars
<1>e. Exact(Empty, seed) /\ Exact(Empty, seed')
  BY EmptyExact
<1>1. CASE SyncBegin
  <2>1. Exact(index', seed)
    <3>1. CASE tried
      BY <1>1, <3>1 DEF SyncBegin, ExactInv, IndexIsExact
    <3>2. CASE ~tried
      <4>1. index' \in LoadPersistedRecoveryIndex
        BY <1>1, <3>2 DEF SyncBegin
      <4>2. index' = Empty \/ (row # <<>> /\ index' = DeserializeRecoveryIndex(row[1]))
        BY <4>1 DEF LoadPersistedRecoveryIndex
      <4> QED
        BY <1>e, <4>2, LoadedExact DEF TypeOK, PlaceInv, ExactInv
    <3> QED
      BY <3>1, <3>2
  <2>2. UNCHANGED <<seed, id, row>> /\ sync'.at = "check"
    BY <1>1 DEF SyncBegin, Idle
  <2> QED
    BY <2>1, <2>2 DEF ExactInv, IndexIsExact
<1>2. CASE SyncCheck
  <2>1. Exact(index', seed)
    BY <1>2, <1>e DEF SyncCheck, Rescan, ExactInv, IndexIsExact
  <2>2. UNCHANGED <<seed, row>>
    BY <1>2 DEF SyncCheck
  <2>3. id' \in {NoSeed, seed} /\ (sync'.at = "scan" => id' = seed /\ sync'.ceiling >= kSubaddressGapLimit)
    <3>1. LoadSubaddressState \in Nat
      BY OutputsTyped DEF LoadSubaddressState, TypeOK, Indices
    <3>2. CASE index'.height >= sync.to \/ LookupThrows
      BY <1>2, <3>2 DEF SyncCheck, Idle, ExactInv
    <3>3. CASE ~(index'.height >= sync.to \/ LookupThrows)
      <4>1. /\ id' = IF id = NoSeed THEN seed ELSE id
            /\ sync'.ceiling = LoadSubaddressState + kSubaddressGapLimit
        BY <1>2, <3>3 DEF SyncCheck, TypeOK
      <4> QED
        BY <3>1, <4>1, OutputsTyped DEF ExactInv
    <3> QED
      BY <3>2, <3>3
  <2> QED
    BY <2>1, <2>2, <2>3 DEF ExactInv, IndexIsExact
<1>3. CASE SyncScan
  <2> DEFINE b == getBlockHash(index.height + 1)
  <2>1. sync.at = "scan" /\ UNCHANGED <<seed, id>>
    BY <1>3 DEF SyncScan
  <2>2. b \in Blocks /\ Height(b) = index.height + 1
    BY <1>3, NextBlock DEF SyncScan
  <2>3. PICK outs \in findBlock(b) : ScanBlock(b, outs)
    BY <1>3 DEF SyncScan
  <2>4. Exact(index', seed)
    BY <2>1, <2>2, <2>3, ScannedExact DEF ScanBlock
  <2>5. row' = row \/ row' = <<index'>>
    BY <2>3 DEF ScanBlock, PersistRecoveryIndex, TypeOK
  <2>6. row' # <<>> => Exact(row'[1], seed)
    BY <2>4, <2>5 DEF ExactInv
  <2>7. sync'.at = "scan" => sync'.ceiling >= kSubaddressGapLimit
    BY <2>1, <2>3 DEF ScanBlock, Idle, ExactInv, TypeOK
  <2> QED
    BY <2>1, <2>4, <2>6, <2>7 DEF ExactInv, IndexIsExact
<1>4. ASSUME NEW s \in Seeds, SetSeed(s) PROVE ExactInv'
  <2>1. row' # <<>> => Exact(row'[1], s)
    <3>1. SUFFICES ASSUME row # <<>>
                   PROVE  row' # <<>> => Exact(row'[1], s)
      BY <1>4 DEF SetSeed
    <3>2. /\ row'[1].height = row[1].height /\ row'[1].hash = row[1].hash
          /\ row'[1].entries = row[1].entries /\ row'[1].unread = row[1].unread
          /\ row'[1].intact => row[1].intact /\ s = seed
      BY <1>4, <3>1 DEF SetSeed, TypeOK, Index
    <3> QED
      BY <3>1, <3>2 DEF ExactInv, Exact
  <2> QED
    BY <1>4, <2>1 DEF SetSeed, Idle, ExactInv, IndexIsExact
<1>5. CASE DropCTRecoveryCache
  <2>1. row' = <<>> \/ row' = row
    BY <1>5 DEF DropCTRecoveryCache
  <2> QED
    BY <1>5, <1>e, <2>1 DEF DropCTRecoveryCache, Idle, ExactInv, IndexIsExact
<1>6. CASE GetOrCreate
  BY <1>6 DEF GetOrCreate, ExactInv, IndexIsExact
<1>7. ASSUME NEW b \in Blocks, ChainMoves(b) PROVE ExactInv'
  BY <1>7 DEF ChainMoves, ExactInv, IndexIsExact
<1>8. CASE Restarted
  BY <1>8, <1>e DEF Restarted, Idle, ExactInv, IndexIsExact
<1>9. ASSUME NEW on \in BOOLEAN, Passphrase(on) PROVE ExactInv'
  BY <1>9 DEF Passphrase, ExactInv, IndexIsExact
<1>10. CASE CalmBegins
  BY <1>10 DEF CalmBegins, ExactInv, IndexIsExact
<1>11. CASE UNCHANGED vars
  BY <1>11 DEF vars, ExactInv, IndexIsExact
<1> QED
  BY <1>1, <1>2, <1>3, <1>4, <1>5, <1>6, <1>7, <1>8, <1>9, <1>10, <1>11
     DEF Next, Crash, AssertFails

\* The inductive invariant holds.
LEMMA ExactInvariant == ASSUME WithinLimit PROVE Spec => []ExactInv
<1>1. Init => ExactInv
  BY EmptyExact DEF Init, Idle, ExactInv, IndexIsExact
<1> QED
  BY <1>1, ExactStep, PlaceInvariant, TypeCorrect, PTL DEF Spec

\* As long as no chain holds more outputs for one seed than a saved index may
\* have, readers of the index find exactly what the chain up to the block scanned
\* last holds for the wallet's seed, blocks that came back without data excepted.
THEOREM IndexExact == ASSUME WithinLimit PROVE Spec => []IndexIsExact
<1>1. ExactInv => IndexIsExact
  BY DEF ExactInv
<1> QED
  BY <1>1, ExactInvariant, PTL

\* A chain at rest has one block at the height of its tip, so that a call that
\* finds the index there neither empties it nor walks.
THEOREM IndexStaysAtTip == Spec => StaysAtTip
<1>1. TypeOK /\ PlaceInv /\ [Next]_vars => [AtTip => AtTip' /\ index' = index]_vars
  <2> SUFFICES ASSUME TypeOK, PlaceInv, Next, AtTip PROVE AtTip' /\ index' = index
    OBVIOUS
  <2> USE DEF chainVars, keyVars
  <2>1. /\ calm /\ tip \in Blocks /\ index.hash = tip /\ index.height = Height(tip)
        /\ Height(tip) \in Nat /\ tried
    BY BlockTree, HeightIsNat DEF AtTip, TypeOK, PlaceInv, Placed, Empty
  <2>2. getBlockHash(Height(tip)) = tip
    BY <2>1, BlockTree, BlockOfActiveChain, OneBlockPerHeight
  <2>3. CASE SyncBegin
    BY <2>1, <2>3 DEF SyncBegin, Idle, AtTip
  <2>4. CASE SyncCheck
    <3>1. sync.to = Height(tip)
      BY <2>4 DEF SyncCheck, AtTip
    <3>2. ~LeftChain(index, sync.to)
      BY <2>1, <2>2, <3>1 DEF LeftChain
    <3>3. index' = index /\ sync' = Idle /\ UNCHANGED <<tip, calm>>
      BY <2>1, <2>4, <3>1, <3>2 DEF SyncCheck
    <3> QED
      BY <3>3 DEF AtTip, Idle
  <2>5. CASE GetOrCreate
    BY <2>5 DEF GetOrCreate, AtTip
  <2>6. ~AssertFails
    BY <2>1 DEF AssertFails, Asserts, AtTip
  <2>7. /\ ~SyncScan /\ ~DropCTRecoveryCache
        /\ \A s \in Seeds : ~SetSeed(s)
        /\ \A b \in Blocks : ~ChainMoves(b)
        /\ \A on \in BOOLEAN : ~Passphrase(on)
        /\ ~Crash /\ ~CalmBegins
    BY <2>1 DEF SyncScan, DropCTRecoveryCache, SetSeed, ChainMoves, Passphrase, Crash, CalmBegins, AtTip
  <2> QED
    BY <2>3, <2>4, <2>5, <2>6, <2>7 DEF Next
<1> QED
  BY <1>1, TypeCorrect, PlaceInvariant, PTL DEF Spec, StaysAtTip

-----------------------------------------------------------------------------
(* The walk gets to the tip.                                               *)
(*                                                                         *)
(* What CatchesUp needs beside fairness: the step that a call is about to  *)
(* take brings it closer, and no other step takes it back.                 *)

\* A call that started after the chain came to rest and has not reached its tip.
UnderWay ==
    /\ calm /\ sync.to = Height(tip)
    /\ \/ sync.at = "check"
       \/ sync.at = "scan" /\ index.height < Height(tip)

\* From the check the call goes on to the walk, each round of the walk scans the next
\* block, and the last one leaves the index at the tip; only a locked wallet ends the
\* call before.  A step that is not the call's leaves index and call as they are.
Advances ==
    [][UnderWay =>
        \/ UnderWay' /\ sync.at = "check" /\ sync'.at = "scan"
        \/ UnderWay' /\ sync.at = "scan" /\ sync'.at = "scan" /\ index'.height = index.height + 1
        \/ AtTip'
        \/ sync.at = "check" /\ locked /\ sync' = Idle
        \/ UnderWay' /\ UNCHANGED <<index, sync>>]_vars

\* An index whose block is on the active chain, at the height of the tip, is at the tip.
LEMMA HeightOfTip ==
  ASSUME TypeOK
  PROVE  Height(tip) \in Nat /\ getBlockHash(Height(tip)) = tip
<1>1. tip \in Blocks /\ tip \in Anc[tip] /\ Height(tip) \in Nat
  BY BlockTree, HeightIsNat DEF TypeOK
<1>2. getBlockHash(Height(tip)) \in Anc[tip] /\ Height(getBlockHash(Height(tip))) = Height(tip)
  BY <1>1, BlockOfActiveChain
<1> QED
  BY <1>1, <1>2, OneBlockPerHeight

\* The call's steps bring it to the tip, for every block tree.
THEOREM WalkReachesTip == Spec => Advances
<1> DEFINE Closer ==
      \/ UnderWay' /\ sync.at = "check" /\ sync'.at = "scan"
      \/ UnderWay' /\ sync.at = "scan" /\ sync'.at = "scan" /\ index'.height = index.height + 1
      \/ AtTip'
      \/ sync.at = "check" /\ locked /\ sync' = Idle
      \/ UnderWay' /\ UNCHANGED <<index, sync>>
<1>1. TypeOK /\ PlaceInv /\ [Next]_vars => [UnderWay => Closer]_vars
  <2> SUFFICES ASSUME TypeOK, PlaceInv, Next, UnderWay PROVE Closer
    OBVIOUS
  <2> USE DEF chainVars, keyVars
  <2>1. /\ calm /\ sync.to = Height(tip) /\ Height(tip) \in Nat
        /\ getBlockHash(Height(tip)) = tip
        /\ index.height \in {-1} \cup Nat
        /\ index \in Index
    BY HeightOfTip, HeightIsNat DEF UnderWay, TypeOK, Index, Heights
  <2>2. CASE SyncCheck
    <3>1. sync.at = "check" /\ UNCHANGED <<tip, calm, locked>>
      BY <2>2 DEF SyncCheck
    <3>2. index'.height \in {-1} \cup Nat /\ index'.height <= Height(tip)
      BY <2>1, <2>2 DEF SyncCheck, LeftChain, Rescan, Empty
    <3>3. CASE index'.height >= sync.to
      <4>1. index' = index /\ index.height = Height(tip) /\ sync' = Idle
        BY <2>1, <2>2, <3>2, <3>3 DEF SyncCheck, Rescan, Empty
      <4>2. ~LeftChain(index, sync.to)
        BY <2>1, <2>2, <3>3 DEF SyncCheck, Rescan, Empty
      <4>3. index.hash = tip
        BY <2>1, <4>1, <4>2 DEF LeftChain
      <4> QED
        BY <2>1, <3>1, <4>1, <4>3 DEF AtTip, Idle
    <3>4. CASE index'.height < sync.to /\ LookupThrows
      BY <2>2, <3>1, <3>4 DEF SyncCheck, LookupThrows
    <3>5. CASE index'.height < sync.to /\ ~LookupThrows
      <4>1. ~(index'.height >= sync.to)
        BY <2>1, <3>2, <3>5
      <4>2. sync'.at = "scan" /\ sync'.to = sync.to
        BY <2>2, <3>5, <4>1 DEF SyncCheck, TypeOK
      <4> QED
        BY <2>1, <3>1, <3>5, <4>2 DEF UnderWay
    <3> QED
      BY <2>1, <3>2, <3>3, <3>4, <3>5
  <2>3. CASE SyncScan
    <3> DEFINE b == getBlockHash(index.height + 1)
    <3>1. sync.at = "scan" /\ UNCHANGED <<tip, calm>>
      BY <2>3 DEF SyncScan
    <3>2. Height(b) = index.height + 1 /\ index.height < Height(tip)
      BY <2>3, <3>1, NextBlock DEF SyncScan, UnderWay
    <3>3. PICK outs \in findBlock(b) : ScanBlock(b, outs)
      BY <2>3 DEF SyncScan
    <3>4. index'.height = index.height + 1 /\ index'.hash = b
      BY <3>2, <3>3 DEF ScanBlock, Scanned
    <3>5. CASE Height(b) = sync.to
      <4>1. b = tip /\ sync' = Idle
        BY <2>1, <3>2, <3>3, <3>5 DEF ScanBlock
      <4> QED
        BY <2>1, <3>1, <3>4, <4>1 DEF AtTip, Idle
    <3>6. CASE Height(b) # sync.to
      <4>1. sync'.at = "scan" /\ sync'.to = sync.to
        BY <3>1, <3>3, <3>6 DEF ScanBlock, TypeOK
      <4>2. index'.height < Height(tip)
        BY <2>1, <3>2, <3>4, <3>6
      <4> QED
        BY <2>1, <3>1, <3>4, <4>1, <4>2 DEF UnderWay
    <3> QED
      BY <3>5, <3>6
  <2>4. CASE GetOrCreate
    BY <2>1, <2>4 DEF GetOrCreate, UnderWay
  <2>5. ~AssertFails
    BY <2>1 DEF AssertFails, Asserts, UnderWay
  <2>6. /\ ~SyncBegin /\ ~DropCTRecoveryCache
        /\ \A s \in Seeds : ~SetSeed(s)
        /\ \A c \in Blocks : ~ChainMoves(c)
        /\ \A on \in BOOLEAN : ~Passphrase(on)
        /\ ~Crash /\ ~CalmBegins
    BY DEF SyncBegin, DropCTRecoveryCache, SetSeed, ChainMoves, Passphrase, Crash, CalmBegins, UnderWay
  <2> QED
    BY <2>2, <2>3, <2>4, <2>5, <2>6 DEF Next
<1> QED
  BY <1>1, TypeCorrect, PlaceInvariant, PTL DEF Spec, Advances

===================================================================================
