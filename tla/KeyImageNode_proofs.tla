-------------------------- MODULE KeyImageNode_proofs --------------------------
(***************************************************************************)
(* Proofs about KeyImageNode.                                              *)
(*                                                                         *)
(* The store and the file are each a disjoint union of buckets that hold   *)
(* no image their block does not have, whatever was appended, cut, pruned  *)
(* or loaded.  The two prunes of initload then leave nothing of a block    *)
(* off the active chain, and from there on what is connected and what is   *)
(* disconnected keeps it so: a block that looks like a double spend is one.*)
(***************************************************************************)
EXTENDS KeyImageNode, FiniteSetTheorems, TLAPS

Buckets == [Hashes -> SUBSET KeyImages]

Disjoint(B) == \A g, h \in Hashes : g # h => B[g] \cap B[h] = {}

\* The bucket of a block holds images of that block only.
OfBlocks(B) == \A h \in Blocks : B[h] \subseteq KIs(h)

\* Only blocks of the chain that ends in b have images.
OnChain(B, b) == \A h \in Hashes : B[h] # {} => h \in Anc[b]

GoodStore(st) == st \in Store /\ WellFormed(st) /\ OfBlocks(st.bucket)

GoodFile(f) ==
    /\ f \in File
    /\ Disjoint(f.bucket) /\ OfBlocks(f.bucket)
    /\ \A h \in Hashes \ f.named : f.bucket[h] = {}

\* The images a walk adds: each to one block, which has it.
GoodNew(New) == New \in Buckets /\ Disjoint(New) /\ OfBlocks(New)

-----------------------------------------------------------------------------
(* Blocks. *)

\* The images of a block are key images.
LEMMA ImagesTyped == \A b \in Blocks : KIs(b) \subseteq KeyImages
BY BlockContents DEF KIs

\* A block that is not genesis adds itself to the chain of its parent.
LEMMA Chain ==
    ASSUME NEW b \in Blocks, b # Genesis
    PROVE  Parent[b] \in Blocks /\ Anc[b] = Anc[Parent[b]] \cup {b} /\ b \notin Anc[Parent[b]]
BY BlockTree

\* Ancestors are blocks.
LEMMA Ancestors == \A b \in Blocks : Anc[b] \subseteq Blocks /\ b \in Anc[b]
BY BlockTree

\* What holds of the images of a chain holds of every part of it.
LEMMA ValidBelow ==
    ASSUME NEW b \in Blocks, NEW a \in Anc[b], Valid(b)
    PROVE  Valid(a)
<1>1. Anc[a] \subseteq Anc[b]
  BY BlockTree
<1> QED BY <1>1 DEF Valid

\* Heights are positive numbers, and so is the depth of a check a number.
LEMMA DepthIsNat ==
    ASSUME NEW b \in Blocks
    PROVE  Height(b) \in Nat \ {0} /\ \A n \in Nat : Depth(b, n) \in Nat
<1>1. IsFiniteSet(Anc[b]) /\ Anc[b] # {}
  BY BlockTree
<1>2. Height(b) \in Nat \ {0}
  BY <1>1, FS_CardinalityType, FS_EmptySet DEF Height
<1> QED BY <1>2 DEF Depth

\* A deeper check covers the blocks of a shallower one.
LEMMA LastBlocksGrow ==
    ASSUME NEW b \in Blocks, NEW m \in Nat, NEW n \in 0..m
    PROVE  LastBlocks(b, n) \subseteq LastBlocks(b, m)
<1>1. \A a \in Anc[b] : Height(a) \in Nat
  BY Ancestors, DepthIsNat
<1>2. Height(b) \in Nat
  BY DepthIsNat
<1> QED BY <1>1, <1>2 DEF LastBlocks

-----------------------------------------------------------------------------
(* The store. *)

\* The image a store holds is in a bucket.
LEMMA HeldIn ==
    ASSUME NEW st, GoodStore(st), NEW k \in st.set
    PROVE  \E h \in Hashes : k \in st.bucket[h]
BY DEF GoodStore, WellFormed, Held

\* UncommitBlockKIs and PruneOrphanedKeyImages remove what the dropped buckets held
\* and nothing else.
LEMMA DropSound ==
    ASSUME NEW st, GoodStore(st), NEW D \in SUBSET Hashes
    PROVE  /\ GoodStore(DropBuckets(st, D))
           /\ \A h \in Hashes : DropBuckets(st, D).bucket[h] = IF h \in D THEN {} ELSE st.bucket[h]
           /\ DropBuckets(st, D).set \subseteq st.set
<1> DEFINE r == DropBuckets(st, D)
<1>0. /\ st.set \in SUBSET KeyImages /\ st.bucket \in Buckets /\ st.named \in SUBSET Hashes
      /\ st.set = Held(st.bucket) /\ Disjoint(st.bucket) /\ OfBlocks(st.bucket)
      /\ \A h \in Hashes \ st.named : st.bucket[h] = {}
  BY DEF GoodStore, WellFormed, Store, Buckets, Disjoint
<1>1. /\ r.set = st.set \ UNION {st.bucket[h] : h \in D}
      /\ r.bucket = [h \in Hashes |-> IF h \in D THEN {} ELSE st.bucket[h]]
      /\ r.named = st.named \ D
      /\ r = [set |-> r.set, bucket |-> r.bucket, named |-> r.named]
  BY DEF DropBuckets
<1> HIDE DEF r
<1>2. \A h \in Hashes : r.bucket[h] = IF h \in D THEN {} ELSE st.bucket[h]
  BY <1>1
<1>3. r \in Store
  <2>1. r.bucket \in [Hashes -> SUBSET KeyImages]
    BY <1>0, <1>1 DEF Buckets
  <2> QED BY <1>0, <1>1, <2>1 DEF Store
<1>4. r.set = Held(r.bucket)
  <2>1. ASSUME NEW k \in r.set PROVE k \in Held(r.bucket)
    <3>1. PICK h \in Hashes : k \in st.bucket[h]
      BY <1>0, <1>1 DEF Held
    <3>2. h \notin D
      BY <1>1, <3>1
    <3> QED BY <1>2, <3>1, <3>2 DEF Held
  <2>2. ASSUME NEW k \in Held(r.bucket) PROVE k \in r.set
    <3>1. PICK h \in Hashes : k \in r.bucket[h]
      BY DEF Held
    <3>2. h \notin D /\ k \in st.bucket[h]
      BY <1>2, <3>1
    <3>3. k \in st.set
      BY <1>0, <3>2 DEF Held
    <3>4. \A g \in D : k \notin st.bucket[g]
      BY <1>0, <3>2 DEF Disjoint
    <3> QED BY <1>1, <3>3, <3>4
  <2> QED BY <2>1, <2>2
<1>5. \A g, h \in Hashes : g # h => r.bucket[g] \cap r.bucket[h] = {}
  BY <1>0, <1>2 DEF Disjoint
<1>6. \A h \in Hashes \ r.named : r.bucket[h] = {}
  BY <1>0, <1>1, <1>2
<1>7. OfBlocks(r.bucket)
  BY <1>0, <1>2 DEF OfBlocks, Hashes
<1>8. GoodStore(r)
  BY <1>3, <1>4, <1>5, <1>6, <1>7 DEF GoodStore, WellFormed
<1> QED BY <1>1, <1>2, <1>8 DEF r

\* The store with the images of New.
Grown(st, New, N) ==
    [set |-> st.set \cup Held(New),
     bucket |-> [h \in Hashes |-> st.bucket[h] \cup New[h]],
     named |-> st.named \cup N]

\* Images that are new to the store are added to it.
LEMMA GrowSound ==
    ASSUME NEW st, GoodStore(st), NEW New, GoodNew(New), NEW N \in SUBSET Hashes,
           \A h \in Hashes : New[h] # {} => h \in N,
           \A h \in Hashes : New[h] \cap st.set = {}
    PROVE  GoodStore(Grown(st, New, N))
<1> DEFINE r == Grown(st, New, N)
<1>0. /\ st.set \in SUBSET KeyImages /\ st.bucket \in Buckets /\ st.named \in SUBSET Hashes
      /\ st.set = Held(st.bucket) /\ Disjoint(st.bucket) /\ OfBlocks(st.bucket)
      /\ \A h \in Hashes \ st.named : st.bucket[h] = {}
  BY DEF GoodStore, WellFormed, Store, Buckets, Disjoint
<1>1. /\ r.set = st.set \cup Held(New)
      /\ r.bucket = [h \in Hashes |-> st.bucket[h] \cup New[h]]
      /\ r.named = st.named \cup N
      /\ r = [set |-> r.set, bucket |-> r.bucket, named |-> r.named]
  BY DEF Grown
<1> HIDE DEF r
<1>2. \A h \in Hashes : r.bucket[h] = st.bucket[h] \cup New[h]
  BY <1>1
<1>3. r \in Store
  <2>1. r.bucket \in [Hashes -> SUBSET KeyImages]
    BY <1>0, <1>1 DEF Buckets, GoodNew
  <2>2. Held(New) \subseteq KeyImages
    BY DEF Held, GoodNew, Buckets
  <2> QED BY <1>0, <1>1, <2>1, <2>2 DEF Store
<1>4. r.set = Held(r.bucket)
  BY <1>0, <1>1, <1>2 DEF Held
<1>5. \A g, h \in Hashes : g # h => r.bucket[g] \cap r.bucket[h] = {}
  <2>1. \A h \in Hashes : st.bucket[h] \subseteq st.set
    BY <1>0 DEF Held
  <2>2. \A g, h \in Hashes : st.bucket[g] \cap New[h] = {}
    BY <2>1
  <2> QED BY <1>0, <1>2, <2>2 DEF Disjoint, GoodNew
<1>6. \A h \in Hashes \ r.named : r.bucket[h] = {}
  BY <1>0, <1>1, <1>2
<1>7. OfBlocks(r.bucket)
  BY <1>0, <1>2 DEF OfBlocks, Hashes, GoodNew
<1> QED BY <1>3, <1>4, <1>5, <1>6, <1>7 DEF GoodStore, WellFormed, r

-----------------------------------------------------------------------------
(* The file. *)

\* A file that RewriteFile leaves holds what the store holds.
LEMMA RewriteSound ==
    ASSUME NEW st, GoodStore(st), NEW f, GoodFile(f), NEW g \in RewriteFile(f, st)
    PROVE  GoodFile(g)
<1> DEFINE r == FileOf(st)
<1>0. st.bucket \in [Hashes -> SUBSET KeyImages] /\ Disjoint(st.bucket) /\ OfBlocks(st.bucket)
  BY DEF GoodStore, WellFormed, Store, Disjoint
<1>1. r \in File /\ r.bucket = st.bucket /\ r.named = {h \in Hashes : st.bucket[h] # {}}
  BY <1>0 DEF FileOf, File
<1> HIDE DEF r
<1>2. GoodFile(r)
  BY <1>0, <1>1 DEF GoodFile
<1> QED BY <1>2 DEF RewriteFile, r

\* Entries appended to a file keep what was there.
LEMMA EntriesSound ==
    ASSUME NEW f, GoodFile(f), NEW New, GoodNew(New)
    PROVE  GoodFile(WithEntries(f, New))
<1>0. /\ f \in File /\ f.format \in {"none", "raw", "v2"}
      /\ f.bucket \in [Hashes -> SUBSET KeyImages] /\ f.named \in SUBSET Hashes
      /\ f.torn \in BOOLEAN
      /\ Disjoint(f.bucket) /\ OfBlocks(f.bucket)
      /\ \A h \in Hashes \ f.named : f.bucket[h] = {}
  BY DEF GoodFile, File
<1> DEFINE o == Opened(f)
<1>1. /\ o \in File /\ o.bucket = f.bucket /\ o.named = f.named /\ o.torn = f.torn
      /\ o.format \in {"none", "raw", "v2"}
  BY <1>0 DEF Opened, File
<1> HIDE DEF o
<1>2. GoodFile(o)
  BY <1>0, <1>1 DEF GoodFile
<1>3. CASE f.torn
  BY <1>2, <1>3 DEF WithEntries, o
<1>4. CASE ~f.torn
  <2> DEFINE B == [h \in Hashes |-> f.bucket[h] \cup (New[h] \ Held(f.bucket))]
             N == f.named \cup {h \in Hashes : New[h] # {}}
             r == WithEntries(f, New)
  <2>1. r = [o EXCEPT !.bucket = B, !.named = N]
    BY <1>1, <1>4 DEF WithEntries, o
  <2>2. \A h \in Hashes : B[h] = f.bucket[h] \cup (New[h] \ Held(f.bucket))
    OBVIOUS
  <2>3. B \in [Hashes -> SUBSET KeyImages] /\ N \in SUBSET Hashes
    BY <1>0 DEF GoodNew, Buckets
  <2>4. \A h \in Hashes \ N : B[h] = {}
    BY <1>0, <2>2
  <2> HIDE DEF B, N, r
  <2>5. r \in File /\ r.bucket = B /\ r.named = N
    BY <1>1, <2>1, <2>3, Zenon DEF File
  <2>6. Disjoint(B)
    <3>1. \A h \in Hashes : f.bucket[h] \subseteq Held(f.bucket)
      BY DEF Held
    <3> QED BY <1>0, <2>2, <3>1 DEF Disjoint, GoodNew
  <2>7. OfBlocks(B)
    BY <1>0, <2>2 DEF OfBlocks, GoodNew, Hashes
  <2>8. GoodFile(r)
    BY <2>4, <2>5, <2>6, <2>7 DEF GoodFile
  <2> QED BY <2>8 DEF r
<1> QED BY <1>0, <1>3, <1>4

\* Whatever part of an append reaches the file, the last entry cut or not.
LEMMA AppendSound ==
    ASSUME NEW f, GoodFile(f), NEW New, GoodNew(New), NEW g \in AppendBlockEntries(f, New)
    PROVE  GoodFile(g)
<1> DEFINE Part(P) == WithEntries(f, Kept(New, P))
<1>1. ASSUME NEW P PROVE GoodFile(Part(P))
  <2>1. \A h \in Hashes : Kept(New, P)[h] = {k \in New[h] : <<h, k>> \in P}
    BY DEF Kept
  <2>2. Kept(New, P) \in Buckets
    BY DEF Kept, GoodNew, Buckets
  <2>3. GoodNew(Kept(New, P))
    BY <2>1, <2>2, Zenon DEF GoodNew, Disjoint, OfBlocks, Hashes
  <2> QED BY <2>3, EntriesSound
<1>2. ASSUME NEW P PROVE GoodFile([Part(P) EXCEPT !.torn = TRUE])
  <2> DEFINE w == Part(P)
             r == [w EXCEPT !.torn = TRUE]
  <2>1. GoodFile(w)
    BY <1>1
  <2> HIDE DEF w
  <2>2. r \in File /\ r.bucket = w.bucket /\ r.named = w.named
    BY <2>1, Zenon DEF GoodFile, File
  <2> HIDE DEF r
  <2>3. GoodFile(r)
    BY <2>1, <2>2 DEF GoodFile
  <2> QED BY <2>3 DEF r, w
<1>3. g = f \/ (\E P : g = Part(P)) \/ (\E P : g = [Part(P) EXCEPT !.torn = TRUE])
  BY DEF AppendBlockEntries
<1> HIDE DEF Part
<1> QED BY <1>1, <1>2, <1>3

\* UncommitBlockKIs leaves a file of the same kind.
LEMMA UncommitFilesSound ==
    ASSUME NEW st, GoodStore(st), NEW f, GoodFile(f), NEW D \in SUBSET Hashes,
           NEW g \in UncommitFiles(f, st, D)
    PROVE  GoodFile(g)
<1>1. GoodStore(DropBuckets(st, D))
  BY DropSound
<1> QED BY <1>1, RewriteSound DEF UncommitFiles

\* PruneOrphanedKeyImages leaves the buckets to keep, and a file of the same kind.
LEMMA PruneSound ==
    ASSUME NEW st, GoodStore(st), NEW f, GoodFile(f), NEW Keep \in SUBSET Hashes,
           NEW g \in PruneFiles(f, st, Keep)
    PROVE  /\ GoodStore(PruneOrphanedKeyImages(st, Keep)) /\ GoodFile(g)
           /\ \A h \in Hashes : PruneOrphanedKeyImages(st, Keep).bucket[h] # {} =>
                 h \in Keep /\ st.bucket[h] # {}
<1> DEFINE D == st.named \ Keep
           r == PruneOrphanedKeyImages(st, Keep)
<1>1. D \in SUBSET Hashes /\ r = DropBuckets(st, D)
  BY DEF GoodStore, Store, PruneOrphanedKeyImages
<1>2. \A h \in Hashes \ st.named : st.bucket[h] = {}
  BY DEF GoodStore, WellFormed
<1>3. \A h \in Hashes : h \notin Keep /\ st.bucket[h] # {} => h \in D
  BY <1>2
<1> HIDE DEF D, r
<1>4. GoodStore(r) /\ \A h \in Hashes : r.bucket[h] = IF h \in D THEN {} ELSE st.bucket[h]
  BY <1>1, DropSound
<1>5. GoodFile(g)
  BY <1>4, RewriteSound DEF PruneFiles, r
<1> QED BY <1>3, <1>4, <1>5 DEF r

\* No images at all.
LEMMA EmptySound == GoodStore(EmptyStore) /\ GoodFile(NoFile)
<1>1. NoBuckets \in [Hashes -> SUBSET KeyImages] /\ \A h \in Hashes : NoBuckets[h] = {}
  BY DEF NoBuckets
<1>2. Held(NoBuckets) = {} /\ Disjoint(NoBuckets) /\ OfBlocks(NoBuckets)
  BY <1>1 DEF Held, Disjoint, OfBlocks, Hashes
<1>3. /\ EmptyStore \in Store /\ EmptyStore.set = {} /\ EmptyStore.bucket = NoBuckets
      /\ NoFile \in File /\ NoFile.bucket = NoBuckets
  BY <1>1 DEF EmptyStore, NoFile, Store, File
<1> QED BY <1>1, <1>2, <1>3 DEF GoodStore, GoodFile, WellFormed, Disjoint

\* InitKeyImageStore makes a store of any file, cut or without magic.
LEMMA LoadSound ==
    ASSUME NEW f, GoodFile(f), NEW r \in InitKeyImageStore(f)
    PROVE  GoodStore(r[1]) /\ GoodFile(r[2])
<1>0. f \in File /\ f.format \in {"none", "raw", "v2"}
  BY DEF GoodFile, File
<1>1. CASE f.format = "none"
  <2>1. r = <<EmptyStore, f>>
    BY <1>1 DEF InitKeyImageStore
  <2> QED BY <2>1, EmptySound
<1>2. CASE f.format = "v2"
  <2> DEFINE st == ParsedV2(f)
  <2>1. r = <<st, f>>
    BY <1>2 DEF InitKeyImageStore
  <2>2. /\ f.bucket \in [Hashes -> SUBSET KeyImages] /\ f.named \in SUBSET Hashes
        /\ Disjoint(f.bucket) /\ OfBlocks(f.bucket)
        /\ \A h \in Hashes \ f.named : f.bucket[h] = {}
    BY DEF GoodFile, File
  <2>3. Held(f.bucket) \in SUBSET KeyImages
    BY <2>2 DEF Held
  <2>4. st \in Store /\ st.set = Held(f.bucket) /\ st.bucket = f.bucket /\ st.named = f.named
    BY <2>2, <2>3 DEF ParsedV2, Store
  <2> HIDE DEF st
  <2>5. GoodStore(st)
    BY <2>2, <2>4 DEF GoodStore, WellFormed, Disjoint
  <2> QED BY <2>1, <2>5
<1>3. CASE f.format = "raw"
  <2>1. PICK st \in ParsedV1(f) : \E g \in RewriteFile(f, st) : r = <<st, g>>
    BY <1>3 DEF InitKeyImageStore
  <2>2. PICK J \in SUBSET Held(f.bucket) :
          st = [set |-> J, bucket |-> [NoBuckets EXCEPT ![NullHash] = J], named |-> {NullHash}]
    BY DEF ParsedV1
  <2>3. J \in SUBSET KeyImages /\ NullHash \in Hashes
    BY DEF GoodFile, File, Held, Hashes
  <2> DEFINE B == [NoBuckets EXCEPT ![NullHash] = J]
  <2>4. B \in [Hashes -> SUBSET KeyImages] /\ \A h \in Hashes : B[h] = IF h = NullHash THEN J ELSE {}
    BY <2>3 DEF NoBuckets
  <2>5. st \in Store /\ st.set = J /\ st.bucket = B /\ st.named = {NullHash}
    BY <2>2, <2>3, <2>4 DEF Store
  <2> HIDE DEF B
  <2>6. Held(B) = J
    BY <2>3, <2>4 DEF Held
  <2>7. OfBlocks(B)
    BY <2>4, NullHashIsNoBlock DEF OfBlocks, Hashes
  <2>8. GoodStore(st)
    BY <2>4, <2>5, <2>6, <2>7 DEF GoodStore, WellFormed
  <2> QED BY <2>1, <2>8, RewriteSound
<1> QED BY <1>0, <1>1, <1>2, <1>3

-----------------------------------------------------------------------------
(* Commits, the check of the chain and the rebuild walk. *)

\* CommitBlockKIs of a block that passes adds its images, to its own bucket.
LEMMA CommitSound ==
    ASSUME NEW st, GoodStore(st), NEW f, GoodFile(f), NEW b \in Blocks,
           KIs(b) \cap st.set = {}, NEW g \in CommitFiles(f, st, b, KIs(b))
    PROVE  /\ GoodStore(CommitBlockKIs(st, b, KIs(b))) /\ GoodFile(g)
           /\ \A h \in Hashes : CommitBlockKIs(st, b, KIs(b)).bucket[h] =
                 IF h = b THEN st.bucket[h] \cup KIs(b) ELSE st.bucket[h]
<1> DEFINE K == KIs(b)
           New == [NoBuckets EXCEPT ![b] = K \ st.set]
           r == CommitBlockKIs(st, b, K)
<1>0. K \subseteq KeyImages /\ K \cap st.set = {} /\ b \in Hashes /\ K \ st.set = K
  BY ImagesTyped DEF Hashes
<1>1. New \in Buckets /\ \A h \in Hashes : New[h] = IF h = b THEN K ELSE {}
  BY <1>0 DEF NoBuckets, Buckets
<1>2. g \in AppendBlockEntries(f, New)
  BY DEF CommitFiles
<1> HIDE DEF New
<1>3. GoodNew(New)
  BY <1>1, NullHashIsNoBlock DEF GoodNew, Disjoint, OfBlocks, Hashes
<1>4. GoodFile(g)
  BY <1>2, <1>3, AppendSound
<1>5. CASE K = {}
  <2>1. r = st
    BY <1>5 DEF CommitBlockKIs
  <2> QED BY <1>4, <1>5, <2>1
<1>6. CASE K # {}
  <2>1. st.bucket \in [Hashes -> SUBSET KeyImages]
    BY DEF GoodStore, Store
  <2>2. Held(New) = K
    BY <1>0, <1>1 DEF Held
  <2>3. r = [set |-> st.set \cup K,
             bucket |-> [st.bucket EXCEPT ![b] = st.bucket[b] \cup (K \ st.set)],
             named |-> st.named \cup {b}]
    BY <1>6 DEF CommitBlockKIs
  <2>4. [st.bucket EXCEPT ![b] = st.bucket[b] \cup (K \ st.set)]
          = [h \in Hashes |-> st.bucket[h] \cup New[h]]
    BY <1>0, <1>1, <2>1, Zenon
  <2>5. r = Grown(st, New, {b})
    BY <2>2, <2>3, <2>4, Zenon DEF Grown
  <2>6. GoodStore(r)
    BY <1>0, <1>1, <1>3, <2>5, GrowSound
  <2>7. r.bucket = [h \in Hashes |-> st.bucket[h] \cup New[h]]
    BY <2>3, <2>4
  <2>8. \A h \in Hashes : r.bucket[h] = IF h = b THEN st.bucket[h] \cup K ELSE st.bucket[h]
    BY <1>1, <2>7
  <2> QED BY <1>4, <2>6, <2>8
<1> QED BY <1>5, <1>6

\* The blocks that level 4 reconnects repeat no image, of the store or of each other.
LEMMA ReconnectSound ==
    ASSUME NEW st, GoodStore(st), NEW b \in Blocks, NEW W \in SUBSET Anc[b],
           NEW R, R = Reconnected(st, W)
    PROVE  /\ GoodStore(ConnectedStore(st, R)) /\ GoodNew(BucketsOf(R))
           /\ \A h \in Hashes : ConnectedStore(st, R).bucket[h] # {} =>
                 st.bucket[h] # {} \/ h \in Anc[b]
           /\ \A h \in Hashes \ W : ConnectedStore(st, R).bucket[h] = st.bucket[h]
<1> DEFINE New == BucketsOf(R)
           N == {a \in R : KIs(a) # {}}
<1>1. R \subseteq W /\ R \subseteq Blocks /\ R \subseteq Anc[b]
  BY Ancestors, Zenon DEF Reconnected
<1>2. \A h \in Hashes : New[h] = IF h \in R THEN KIs(h) ELSE {}
  BY Zenon DEF BucketsOf
<1>3. \A a \in R : \A c \in W \cap Anc[a] :
        KIs(c) \cap st.set = {} /\ \A d \in (W \cap Anc[c]) \ {c} : KIs(c) \cap KIs(d) = {}
  BY Zenon DEF Reconnected
<1>4. \A a \in R : KIs(a) \cap st.set = {}
  BY <1>1, <1>3, Ancestors, Zenon
<1>5. ASSUME NEW a \in R, NEW c \in R, a # c
      PROVE  KIs(a) \cap KIs(c) = {}
  <2>1. a \in Anc[c] \/ c \in Anc[a]
    BY <1>1, BlockTree, Zenon
  <2>2. a \in Anc[a] /\ c \in Anc[c] /\ a \in W /\ c \in W
    BY <1>1, Ancestors, Zenon
  <2>3. CASE a \in Anc[c]
    BY <1>3, <1>5, <2>2, <2>3, Zenon
  <2>4. CASE c \in Anc[a]
    BY <1>3, <1>5, <2>2, <2>4, Zenon
  <2> QED BY <2>1, <2>3, <2>4, Zenon
<1>6. New \in Buckets
  BY <1>1, ImagesTyped, Zenon DEF BucketsOf, Buckets
<1>7. ConnectedStore(st, R) = Grown(st, New, N)
  <2>1. Held(New) = UNION {KIs(a) : a \in R}
    BY <1>1, <1>2 DEF Held, Hashes
  <2> QED BY <2>1, Zenon DEF ConnectedStore, Grown
<1>8. N \in SUBSET Hashes /\ \A h \in Hashes : New[h] # {} => h \in N
  BY <1>1, <1>2, Zenon DEF Hashes
<1> HIDE DEF New, N
<1>9. GoodNew(New)
  BY <1>2, <1>5, <1>6, Zenon DEF GoodNew, Disjoint, OfBlocks, Hashes
<1>10. GoodStore(Grown(st, New, N))
  BY <1>2, <1>4, <1>8, <1>9, GrowSound, Zenon
<1>11. \A h \in Hashes : Grown(st, New, N).bucket[h] = st.bucket[h] \cup New[h]
  BY Zenon DEF Grown
<1> QED BY <1>1, <1>2, <1>7, <1>9, <1>10, <1>11, Zenon DEF New

\* VerifyDB leaves a store and a file of the same kind, with no image of a block off
\* the chain it went over; it touches the buckets of the blocks it checks only, and
\* none below level 3.
LEMMA VerifySound ==
    ASSUME GoodStore(store), GoodFile(file), tip \in Blocks,
           NEW level, NEW depth \in Nat, NEW ok, VerifyDB(level, depth, ok)
    PROVE  /\ GoodStore(store') /\ GoodFile(file')
           /\ OnChain(store.bucket, tip) => OnChain(store'.bucket, tip)
           /\ ~(level >= 3) /\ level # 4 => UNCHANGED <<store, file>>
           /\ \A h \in Hashes \ LastBlocks(tip, depth) : store'.bucket[h] = store.bucket[h]
<1>0. \A n : LastBlocks(tip, n) \in SUBSET Hashes /\ LastBlocks(tip, n) \in SUBSET Anc[tip]
  BY Ancestors, Zenon DEF LastBlocks, Hashes
<1>a. ASSUME NEW n PROVE \A f \in DisconnectFiles(n) : GoodFile(f)
  BY <1>0, UncommitFilesSound DEF DisconnectFiles
<1>b. ASSUME NEW n
      PROVE  LET r == UncommitBlockKIs(store, LastBlocks(tip, n))
             IN  /\ GoodStore(r)
                 /\ \A h \in Hashes : r.bucket[h] = IF h \in LastBlocks(tip, n) THEN {} ELSE store.bucket[h]
  BY <1>0, DropSound DEF UncommitBlockKIs
<1>1. CASE UNCHANGED <<store, file>>
  BY <1>1, Zenon
<1>2. CASE level >= 3 /\ \E n \in 0..depth :
                            /\ store' = UncommitBlockKIs(store, LastBlocks(tip, n))
                            /\ file' \in DisconnectFiles(n)
  <2>1. PICK n \in 0..depth :
          store' = UncommitBlockKIs(store, LastBlocks(tip, n)) /\ file' \in DisconnectFiles(n)
    BY <1>2, Zenon
  <2>2. GoodStore(store') /\ GoodFile(file')
    BY <1>a, <1>b, <2>1, Zenon
  <2>3. \A h \in Hashes : store'.bucket[h] = IF h \in LastBlocks(tip, n) THEN {} ELSE store.bucket[h]
    BY <1>b, <2>1, Zenon
  <2>4. LastBlocks(tip, n) \subseteq LastBlocks(tip, depth)
    BY LastBlocksGrow
  <2> QED BY <1>2, <2>2, <2>3, <2>4, Zenon DEF OnChain
<1>3. CASE level = 4 /\ LET W == LastBlocks(tip, depth)
                            cut == UncommitBlockKIs(store, W)
                            R == Reconnected(cut, W)
                        IN  /\ store' = ConnectedStore(cut, R)
                            /\ \E f \in DisconnectFiles(depth) :
                                 file' \in AppendBlockEntries(f, BucketsOf(R))
  <2> DEFINE W == LastBlocks(tip, depth)
             cut == UncommitBlockKIs(store, W)
             R == Reconnected(cut, W)
  <2>1. W \in SUBSET Anc[tip]
    BY <1>0, Zenon
  <2>2. GoodStore(cut) /\ \A h \in Hashes : cut.bucket[h] = IF h \in W THEN {} ELSE store.bucket[h]
    BY <1>b, Zenon
  <2>3. PICK f \in DisconnectFiles(depth) : file' \in AppendBlockEntries(f, BucketsOf(R))
    BY <1>3, Zenon
  <2>4. GoodFile(f)
    BY <1>a, Zenon
  <2>5. store' = ConnectedStore(cut, R)
    BY <1>3, Zenon
  <2> HIDE DEF cut, W, R
  <2>r. R = Reconnected(cut, W)
    BY DEF R
  <2>6. /\ GoodStore(store') /\ GoodNew(BucketsOf(R))
        /\ \A h \in Hashes : store'.bucket[h] # {} => cut.bucket[h] # {} \/ h \in Anc[tip]
        /\ \A h \in Hashes \ W : store'.bucket[h] = cut.bucket[h]
    BY <2>1, <2>2, <2>5, <2>r, ReconnectSound, SMT
  <2>7. GoodFile(file')
    BY <2>3, <2>4, <2>6, AppendSound, Zenon
  <2>8. \A h \in Hashes \ W : store'.bucket[h] = store.bucket[h]
    BY <2>2, <2>6, Zenon
  <2>9. OnChain(store.bucket, tip) => OnChain(store'.bucket, tip)
    BY <2>2, <2>6, Zenon DEF OnChain
  <2> QED BY <1>3, <2>6, <2>7, <2>8, <2>9, Zenon DEF W
<1> QED BY <1>1, <1>2, <1>3, Zenon DEF VerifyDB

\* The rebuild walk adds to a store that holds images of the chain only, and over a
\* chain that repeats no image it leaves every block with all of its own.
LEMMA RebuildSound ==
    ASSUME NEW st, GoodStore(st), NEW b \in Blocks, OnChain(st.bucket, b)
    PROVE  /\ GoodStore(Rebuilt(st, b)) /\ GoodNew(Missing(st, b))
           /\ OnChain(Rebuilt(st, b).bucket, b)
           /\ Valid(b) => \A h \in Hashes :
                 Rebuilt(st, b).bucket[h] = IF h \in Anc[b] THEN KIs(h) ELSE {}
<1> DEFINE New == Missing(st, b)
           N == {a \in Anc[b] : KIs(a) # {}}
           Below(h) == UNION {KIs(c) : c \in Anc[h] \ {h}}
<1>1. \A h \in Hashes : New[h] = IF h \in Anc[b] THEN KIs(h) \ (st.set \cup Below(h)) ELSE {}
  BY Zenon DEF Missing
<1>2. Anc[b] \subseteq Blocks /\ Blocks \subseteq Hashes
  BY Ancestors, Zenon DEF Hashes
<1>3. New \in Buckets
  BY <1>2, ImagesTyped, Zenon DEF Missing, Buckets
<1>4. Rebuilt(st, b) = Grown(st, New, N)
  BY Zenon DEF Rebuilt, Grown
<1> HIDE DEF New
<1>5. ASSUME NEW g \in Hashes, NEW h \in Hashes, g # h PROVE New[g] \cap New[h] = {}
  <2>1. CASE g \in Anc[b] /\ h \in Anc[b]
    <3>1. g \in Anc[h] \/ h \in Anc[g]
      BY <2>1, BlockTree, Zenon
    <3>2. g \in Anc[h] => KIs(g) \subseteq Below(h)
      BY <1>5, Zenon
    <3>3. h \in Anc[g] => KIs(h) \subseteq Below(g)
      BY <1>5, Zenon
    <3> HIDE DEF Below
    <3> QED BY <1>1, <2>1, <3>1, <3>2, <3>3, Zenon
  <2> QED BY <1>1, <2>1, Zenon
<1>6. GoodNew(New)
  <2>1. OfBlocks(New)
    BY <1>1, <1>2, Zenon DEF OfBlocks
  <2> QED BY <1>3, <1>5, <2>1, Zenon DEF GoodNew, Disjoint
<1>7. N \in SUBSET Hashes /\ \A h \in Hashes : New[h] # {} => h \in N
  BY <1>1, <1>2, Zenon
<1>8. \A h \in Hashes : New[h] \cap st.set = {}
  BY <1>1, Zenon
<1> HIDE DEF N
<1>9. GoodStore(Grown(st, New, N))
  BY <1>6, <1>7, <1>8, GrowSound, Zenon
<1>10. \A h \in Hashes : Grown(st, New, N).bucket[h] = st.bucket[h] \cup New[h]
  BY Zenon DEF Grown
<1>11. OnChain(Grown(st, New, N).bucket, b)
  BY <1>1, <1>10, Zenon DEF OnChain
<1>12. ASSUME Valid(b), NEW h \in Hashes
       PROVE  st.bucket[h] \cup New[h] = IF h \in Anc[b] THEN KIs(h) ELSE {}
  <2>1. CASE h \notin Anc[b]
    BY <1>1, <2>1, Zenon DEF OnChain
  <2>2. CASE h \in Anc[b]
    <3>1. Below(h) \cap KIs(h) = {}
      <4>1. Anc[h] \subseteq Anc[b]
        BY <2>2, BlockTree, Zenon
      <4> QED BY <1>12, <2>2, <4>1, Zenon DEF Valid
    <3>2. st.bucket[h] \subseteq KIs(h)
      BY <1>2, <2>2, Zenon DEF GoodStore, OfBlocks
    <3>3. ASSUME NEW k \in KIs(h), k \in st.set PROVE k \in st.bucket[h]
      <4>1. PICK g \in Hashes : k \in st.bucket[g]
        BY <3>3, HeldIn, Zenon
      <4>2. g \in Anc[b] /\ k \in KIs(g)
        BY <1>2, <4>1, Zenon DEF OnChain, GoodStore, OfBlocks
      <4>3. g = h
        BY <1>12, <2>2, <3>3, <4>2, Zenon DEF Valid
      <4> QED BY <4>1, <4>3, Zenon
    <3> HIDE DEF Below
    <3> QED BY <1>1, <2>2, <3>1, <3>2, <3>3, Zenon
  <2> QED BY <2>1, <2>2, Zenon
<1> QED BY <1>4, <1>6, <1>9, <1>10, <1>11, <1>12, Zenon DEF New

-----------------------------------------------------------------------------
(* The inductive invariant. *)

\* Until initload starts, the tip is the one the coins database has.
AtRest ==
    phase \in {"down", "loaded", "checked"} =>
        tip = (IF durable = NoBlock THEN Genesis ELSE durable)

\* ActivateBestChain runs only when cs_main can be had.
StepsWhenOpen == goal # NoBlock => phase \in Open

\* The prunes have done their work.
Pruned ==
    (phase \in {"rebuild", "running"} \/ (phase \in Open /\ ~skipped)) =>
        OnChain(store.bucket, tip)

\* Marks, those on disk included, are right.
MarksRight == skipped \/ \A b \in failed \cup index.failed : ~Valid(b)

\* The types but those of the store and the file.
OtherTypes ==
    /\ known \in SUBSET Blocks /\ failed \in SUBSET Blocks /\ tip \in Blocks
    /\ index \in [known: SUBSET Blocks, failed: SUBSET Blocks]
    /\ durable \in Blocks \cup {NoBlock} /\ rollback \in SUBSET Blocks
    /\ start \in Blocks \cup {NoBlock} /\ goal \in Blocks \cup {NoBlock}
    /\ phase \in Phases
    /\ mempool \in SUBSET Txs /\ disconnectpool \in SUBSET Txs
    /\ restarts \in Nat /\ skipped \in BOOLEAN /\ sound \in BOOLEAN
    /\ walked \in SUBSET Blocks

NodeInv ==
    /\ OtherTypes /\ GoodStore(store) /\ GoodFile(file)
    /\ AtRest /\ StepsWhenOpen /\ Pruned /\ MarksRight
    /\ MempoolHasNoConflict

\* A new data directory satisfies it.
LEMMA InitSound ==
    ASSUME Init
    PROVE  NodeInv
<1>1. OtherTypes
  BY BlockTree, Zenon DEF Init, OtherTypes, Phases
<1>2. GoodStore(store) /\ GoodFile(file)
  BY EmptySound, Zenon DEF Init
<1>3. AtRest /\ StepsWhenOpen /\ Pruned
  BY Zenon DEF Init, AtRest, StepsWhenOpen, Pruned, Open
<1>4. MarksRight /\ MempoolHasNoConflict
  BY Zenon DEF Init, MarksRight, MempoolHasNoConflict
<1> QED BY <1>1, <1>2, <1>3, <1>4, Zenon DEF NodeInv

\* The invariant gives the types.
LEMMA Typed ==
    ASSUME NodeInv
    PROVE  TypeOK /\ StoreWellFormed
BY Zenon DEF NodeInv, OtherTypes, TypeOK, GoodStore, GoodFile, StoreWellFormed

\* A block that fails the checks repeats an image on its own chain, if the store holds
\* images of that chain only.
LEMMA RejectedIsInvalid ==
    ASSUME GoodStore(store), tip \in Blocks, OnChain(store.bucket, tip),
           NEW b \in Blocks \ {Genesis}, Parent[b] = tip, ~BlockPasses(b),
           NEW c \in Blocks, b \in Anc[c]
    PROVE  ~Valid(c)
<1>1. Anc[b] = Anc[tip] \cup {b} /\ b \notin Anc[tip] /\ Anc[b] \subseteq Anc[c]
  BY Chain, BlockTree, Zenon
<1>2. CASE ~NoRepeat(b)
  BY <1>2, Zenon DEF Valid
<1>3. CASE KIs(b) \cap store.set # {}
  <2>1. PICK k \in KIs(b) : k \in store.set
    BY <1>3, Zenon
  <2>2. PICK h \in Hashes : k \in store.bucket[h]
    BY <2>1, HeldIn, Zenon
  <2>3. h \in Anc[tip] /\ h \in Blocks
    BY <2>2, Ancestors, Zenon DEF OnChain
  <2>4. k \in KIs(h)
    BY <2>2, <2>3, Zenon DEF GoodStore, OfBlocks
  <2> QED BY <1>1, <2>1, <2>3, <2>4, Zenon DEF Valid
<1> QED BY <1>2, <1>3, Zenon DEF BlockPasses

\* ConnectTip keeps the invariant, whether the block passes or is marked.
LEMMA ConnectSound ==
    ASSUME NodeInv, NEW b \in Blocks, ConnectTip(b)
    PROVE  NodeInv'
<1>0. /\ OtherTypes /\ GoodStore(store) /\ GoodFile(file)
      /\ AtRest /\ StepsWhenOpen /\ Pruned /\ MarksRight /\ MempoolHasNoConflict
  BY Zenon DEF NodeInv
<1>1. b \in Blocks \ {Genesis} /\ Parent[b] = tip /\ phase \in Open /\ tip \in Blocks
  BY <1>0, Zenon DEF ConnectTip, StepsWhenOpen, OtherTypes
<1>2. Anc[b] = Anc[tip] \cup {b} /\ b \notin Anc[tip]
  BY <1>1, Chain, Zenon
<1>3. UNCHANGED <<known, index, durable, rollback, start, goal, phase, history>>
  BY Zenon DEF ConnectTip
<1>4. AtRest' /\ StepsWhenOpen'
  BY <1>0, <1>1, <1>3, Zenon DEF AtRest, StepsWhenOpen, Open
<1>5. CASE /\ BlockPasses(b)
           /\ store' = CommitBlockKIs(store, b, KIs(b))
           /\ file' \in CommitFiles(file, store, b, KIs(b))
           /\ mempool' = RemoveForBlock(b)
           /\ disconnectpool' = disconnectpool \ BlockTxs[b]
           /\ tip' = b
           /\ UNCHANGED failed
  <2>1. /\ GoodStore(store') /\ GoodFile(file')
        /\ \A h \in Hashes : store'.bucket[h] =
              IF h = b THEN store.bucket[h] \cup KIs(b) ELSE store.bucket[h]
    BY <1>0, <1>1, <1>5, CommitSound DEF BlockPasses
  <2>2. OnChain(store.bucket, tip) => OnChain(store'.bucket, b)
    BY <1>2, <2>1, Zenon DEF OnChain
  <2>3. Pruned'
    BY <1>0, <1>3, <1>5, <2>2, Zenon DEF Pruned, history
  <2>4. MarksRight'
    BY <1>0, <1>3, <1>5, Zenon DEF MarksRight, history
  <2>5. OtherTypes' /\ MempoolHasNoConflict'
    BY <1>0, <1>1, <1>3, <1>5, Zenon DEF OtherTypes, MempoolHasNoConflict, RemoveForBlock, history
  <2> QED BY <1>4, <2>1, <2>3, <2>4, <2>5, Zenon DEF NodeInv
<1>6. CASE /\ ~BlockPasses(b)
           /\ failed' = failed \cup {c \in known : b \in Anc[c]}
           /\ UNCHANGED <<tip, store, file, poolVars>>
  <2>1. ~skipped => \A c \in known : b \in Anc[c] => ~Valid(c)
    BY <1>0, <1>1, <1>6, RejectedIsInvalid, Zenon DEF Pruned, OtherTypes
  <2>2. MarksRight'
    BY <1>0, <1>3, <1>6, <2>1, Zenon DEF MarksRight, history
  <2>3. OtherTypes' /\ MempoolHasNoConflict'
    BY <1>0, <1>3, <1>6, Zenon DEF OtherTypes, MempoolHasNoConflict, history, poolVars
  <2>4. Pruned'
    BY <1>0, <1>3, <1>6, Zenon DEF Pruned, history
  <2> QED BY <1>0, <1>4, <1>6, <2>2, <2>3, <2>4, Zenon DEF NodeInv
<1> QED BY <1>5, <1>6, Zenon DEF ConnectTip

\* DisconnectTip keeps the invariant.
LEMMA DisconnectSound ==
    ASSUME NodeInv, DisconnectTip
    PROVE  NodeInv'
<1>0. /\ OtherTypes /\ GoodStore(store) /\ GoodFile(file)
      /\ AtRest /\ StepsWhenOpen /\ Pruned /\ MarksRight /\ MempoolHasNoConflict
  BY Zenon DEF NodeInv
<1>1. tip \in Blocks /\ tip # Genesis /\ phase \in Open
  BY <1>0, BlockTree, Zenon DEF DisconnectTip, StepsWhenOpen, OtherTypes
<1>2. Parent[tip] \in Blocks /\ Anc[tip] = Anc[Parent[tip]] \cup {tip}
  BY <1>1, Chain, Zenon
<1>3. /\ UNCHANGED <<known, failed, index, durable, rollback, start, goal, phase, mempool, history>>
      /\ tip' = Parent[tip] /\ disconnectpool' = disconnectpool \cup BlockTxs[tip]
      /\ store' = DropBuckets(store, {tip}) /\ file' \in UncommitFiles(file, store, {tip})
  BY Zenon DEF DisconnectTip, UncommitBlockKIs
<1>4. {tip} \in SUBSET Hashes
  BY <1>1, Zenon DEF Hashes
<1>5. /\ GoodStore(store') /\ GoodFile(file')
      /\ \A h \in Hashes : store'.bucket[h] = IF h = tip THEN {} ELSE store.bucket[h]
  BY <1>0, <1>3, <1>4, DropSound, UncommitFilesSound
<1>6. OnChain(store.bucket, tip) => OnChain(store'.bucket, tip')
  BY <1>2, <1>3, <1>5, Zenon DEF OnChain
<1>7. Pruned' /\ MarksRight'
  BY <1>0, <1>3, <1>6, Zenon DEF Pruned, MarksRight, history
<1>8. AtRest' /\ StepsWhenOpen'
  BY <1>0, <1>1, <1>3, Zenon DEF AtRest, StepsWhenOpen, Open
<1>9. OtherTypes' /\ MempoolHasNoConflict'
  BY <1>0, <1>1, <1>2, <1>3, BlockContents, Zenon DEF OtherTypes, MempoolHasNoConflict, history
<1> QED BY <1>5, <1>7, <1>8, <1>9, Zenon DEF NodeInv

\* The steps of a start keep the invariant; the prunes establish what they are for.
LEMMA StartUpSound ==
    ASSUME NodeInv, StartUpStep
    PROVE  NodeInv'
<1>0. /\ OtherTypes /\ GoodStore(store) /\ GoodFile(file)
      /\ AtRest /\ StepsWhenOpen /\ Pruned /\ MarksRight /\ MempoolHasNoConflict
  BY Zenon DEF NodeInv
<1>a. UNCHANGED <<chainVars, skipped>> => MarksRight'
  BY <1>0 DEF MarksRight, chainVars
<1>b. UNCHANGED poolVars => MempoolHasNoConflict'
  BY <1>0, Zenon DEF MempoolHasNoConflict, poolVars
<1>1. CASE StartUp
  <2>1. GoodStore(store') /\ GoodFile(file')
    BY <1>0, <1>1, LoadSound, Zenon DEF StartUp
  <2>2. OtherTypes'
    BY <1>0, <1>1 DEF StartUp, OtherTypes, Phases, chainVars, poolVars
  <2>3. AtRest' /\ StepsWhenOpen' /\ Pruned'
    BY <1>0, <1>1, Zenon DEF StartUp, AtRest, StepsWhenOpen, Pruned, Open, chainVars
  <2> QED BY <1>a, <1>b, <1>1, <2>1, <2>2, <2>3, Zenon DEF NodeInv, StartUp
<1>2. CASE StartUpReindexing
  <2>1. GoodStore(store') /\ GoodFile(file')
    BY <1>2, EmptySound, Zenon DEF StartUpReindexing
  <2>2. OtherTypes'
    BY <1>0, <1>2, BlockTree DEF StartUpReindexing, OtherTypes, Phases, poolVars
  <2>3. AtRest' /\ StepsWhenOpen' /\ Pruned'
    BY <1>0, <1>2, Zenon DEF StartUpReindexing, AtRest, StepsWhenOpen, Pruned, Open
  <2>4. MarksRight'
    BY <1>0, <1>2, Zenon DEF StartUpReindexing, MarksRight
  <2> QED BY <1>b, <1>2, <2>1, <2>2, <2>3, <2>4, Zenon DEF NodeInv, StartUpReindexing
<1>3. CASE ReplayBlocks
  <2>1. rollback \in SUBSET Hashes
    BY <1>0, Zenon DEF OtherTypes, Hashes
  <2>2. GoodStore(store') /\ GoodFile(file')
    BY <1>0, <1>3, <2>1, DropSound, UncommitFilesSound, Zenon DEF ReplayBlocks, UncommitBlockKIs
  <2>3. OtherTypes'
    BY <1>0, <1>3, Zenon DEF ReplayBlocks, OtherTypes, poolVars, history
  <2>4. AtRest' /\ StepsWhenOpen' /\ Pruned'
    BY <1>0, <1>3, Zenon DEF ReplayBlocks, AtRest, StepsWhenOpen, Pruned, Open
  <2>5. MarksRight'
    BY <1>0, <1>3, Zenon DEF ReplayBlocks, MarksRight, history
  <2> QED BY <1>b, <1>3, <2>2, <2>3, <2>4, <2>5, Zenon DEF NodeInv, ReplayBlocks
<1>4. CASE VerifyLoadedChainstate
  <2>1. PICK level \in CheckLevels : \E ok \in BOOLEAN :
          VerifyDB(level, Depth(tip, CheckBlocks), ok) /\ phase' = IF ok THEN "checked" ELSE "down"
    BY <1>4, Zenon DEF VerifyLoadedChainstate
  <2>2. phase = "loaded" /\ phase' \in {"checked", "down"} /\ UNCHANGED <<chainVars, poolVars, history>>
    BY <1>4, <2>1, Zenon DEF VerifyLoadedChainstate
  <2>3. GoodStore(store') /\ GoodFile(file')
    <3>1. tip \in Blocks /\ Depth(tip, CheckBlocks) \in Nat
      BY <1>0, DepthIsNat, Options, Zenon DEF OtherTypes
    <3> QED BY <1>0, <2>1, <3>1, VerifySound, Zenon
  <2>4. OtherTypes'
    BY <1>0, <2>2, Zenon DEF OtherTypes, Phases, chainVars, poolVars, history
  <2>5. AtRest' /\ StepsWhenOpen' /\ Pruned'
    BY <1>0, <2>2, Zenon DEF AtRest, StepsWhenOpen, Pruned, Open, chainVars
  <2> QED BY <1>a, <1>b, <2>2, <2>3, <2>4, <2>5, Zenon DEF NodeInv, history
<1>5. CASE PrePrune
  <2>1. /\ phase = "checked" /\ phase' = "import" /\ skipped' \in BOOLEAN
        /\ UNCHANGED <<chainVars, poolVars, restarts, sound, walked>>
    BY <1>0, <1>5, Zenon DEF PrePrune, OtherTypes
  <2>2. OtherTypes'
    BY <1>0, <2>1, Zenon DEF OtherTypes, Phases, chainVars, poolVars
  <2>3. AtRest' /\ StepsWhenOpen'
    BY <1>0, <2>1, Zenon DEF AtRest, StepsWhenOpen, Open, chainVars
  <2>4. skipped => skipped'
    BY <1>5, Zenon DEF PrePrune
  <2>5. MarksRight'
    BY <1>0, <2>1, <2>4, Zenon DEF MarksRight, chainVars
  <2>6. GoodStore(store') /\ GoodFile(file') /\ (~skipped' => OnChain(store'.bucket, tip))
    <3>1. CASE durable = NoBlock
      <4>1. UNCHANGED <<store, file>> /\ (~skipped' => store.set = {})
        BY <1>5, <3>1, Zenon DEF PrePrune
      <4>2. \A h \in Hashes : store.bucket[h] \subseteq store.set
        BY <1>0, Zenon DEF GoodStore, WellFormed, Held
      <4> QED BY <1>0, <4>1, <4>2, Zenon DEF OnChain
    <3>2. CASE durable # NoBlock
      <4> DEFINE Keep == Anc[durable] \cup {NullHash}
      <4>1. /\ store' = PruneOrphanedKeyImages(store, Keep) /\ file' \in PruneFiles(file, store, Keep)
            /\ ~skipped' => store.bucket[NullHash] = {}
        BY <1>5, <3>2, Zenon DEF PrePrune
      <4>2. tip = durable /\ durable \in Blocks
        BY <1>0, <2>1, <3>2, Zenon DEF AtRest, OtherTypes
      <4>3. Keep \in SUBSET Hashes
        BY <4>2, Ancestors, Zenon DEF Hashes
      <4> HIDE DEF Keep
      <4>4. /\ GoodStore(store') /\ GoodFile(file')
            /\ \A h \in Hashes : store'.bucket[h] # {} => h \in Keep /\ store.bucket[h] # {}
        BY <1>0, <4>1, <4>3, PruneSound
      <4> QED BY <4>1, <4>2, <4>4, Zenon DEF OnChain, Keep
    <3> QED BY <3>1, <3>2, Zenon
  <2>7. Pruned'
    BY <2>1, <2>6, Zenon DEF Pruned, chainVars
  <2> QED BY <1>b, <2>1, <2>2, <2>3, <2>5, <2>6, <2>7, Zenon DEF NodeInv
<1>6. CASE ImportBlocks
  <2>1. OtherTypes'
    BY <1>0, <1>6, Zenon DEF ImportBlocks, OtherTypes, Phases, chainVars, poolVars, history
  <2>2. AtRest' /\ StepsWhenOpen' /\ Pruned'
    BY <1>0, <1>6, Zenon DEF ImportBlocks, AtRest, StepsWhenOpen, Pruned, Open, chainVars, history
  <2> QED BY <1>0, <1>a, <1>b, <1>6, <2>1, <2>2, Zenon DEF NodeInv, ImportBlocks, history
<1>7. CASE SelfHeal
  <2>1. phase = "heal" /\ phase' = "rebuild" /\ UNCHANGED <<chainVars, poolVars, history>>
    BY <1>7, Zenon DEF SelfHeal
  <2>2. tip \in Blocks /\ Anc[tip] \in SUBSET Hashes
    BY <1>0, Ancestors, Zenon DEF OtherTypes, Hashes
  <2>3. GoodStore(store') /\ GoodFile(file') /\ OnChain(store'.bucket, tip)
    BY <1>0, <1>7, <2>2, PruneSound, Zenon DEF SelfHeal, OnChain
  <2>4. OtherTypes'
    BY <1>0, <2>1, Zenon DEF OtherTypes, Phases, chainVars, poolVars, history
  <2>5. AtRest' /\ StepsWhenOpen' /\ Pruned'
    BY <1>0, <2>1, <2>3, Zenon DEF AtRest, StepsWhenOpen, Pruned, Open, chainVars
  <2> QED BY <1>a, <1>b, <2>1, <2>3, <2>4, <2>5, Zenon DEF NodeInv, history
<1>8. CASE Rebuild
  <2>1. /\ phase = "rebuild" /\ phase' = "running" /\ sound' = Valid(tip)
        /\ UNCHANGED <<chainVars, poolVars, restarts, skipped, walked>>
    BY <1>8, Zenon DEF Rebuild
  <2>2. tip \in Blocks /\ OnChain(store.bucket, tip)
    BY <1>0, <2>1, Zenon DEF OtherTypes, Pruned
  <2>3. GoodStore(store') /\ GoodFile(file') /\ OnChain(store'.bucket, tip)
    BY <1>0, <1>8, <2>2, RebuildSound, AppendSound, Zenon DEF Rebuild
  <2>4. sound' \in BOOLEAN
    BY <2>1, Zenon DEF Valid
  <2>5. OtherTypes'
    BY <1>0, <2>1, <2>4, Zenon DEF OtherTypes, Phases, chainVars, poolVars
  <2>6. AtRest' /\ StepsWhenOpen' /\ Pruned'
    BY <1>0, <2>1, <2>3, Zenon DEF AtRest, StepsWhenOpen, Pruned, Open, chainVars
  <2> QED BY <1>a, <1>b, <2>1, <2>3, <2>5, <2>6, Zenon DEF NodeInv
<1> QED BY <1>1, <1>2, <1>3, <1>4, <1>5, <1>6, <1>7, <1>8, Zenon DEF StartUpStep

\* Every step keeps the invariant.
LEMMA StepSound ==
    ASSUME NodeInv, [Next]_vars
    PROVE  NodeInv'
<1>0. /\ OtherTypes /\ GoodStore(store) /\ GoodFile(file)
      /\ AtRest /\ StepsWhenOpen /\ Pruned /\ MarksRight /\ MempoolHasNoConflict
  BY Zenon DEF NodeInv
<1>1. CASE StartUpStep
  BY <1>1, StartUpSound, Zenon
<1>2. CASE DisconnectTip
  BY <1>2, DisconnectSound, Zenon
<1>3. CASE \E b \in Blocks : ConnectTip(b)
  BY <1>3, ConnectSound, Zenon
<1>4. CASE \E b \in Blocks : ActivateBestChain(b)
  <2>1. PICK b \in Blocks : ActivateBestChain(b)
    BY <1>4, Zenon
  <2>2. OtherTypes'
    BY <1>0, <2>1, Zenon DEF ActivateBestChain, OtherTypes, poolVars, history
  <2>3. AtRest' /\ StepsWhenOpen' /\ Pruned' /\ MarksRight'
    BY <1>0, <2>1, Zenon DEF ActivateBestChain, Quiet, AtRest, StepsWhenOpen, Pruned, MarksRight, history
  <2>4. MempoolHasNoConflict' /\ GoodStore(store') /\ GoodFile(file')
    BY <1>0, <2>1, Zenon DEF ActivateBestChain, MempoolHasNoConflict, poolVars
  <2> QED BY <2>2, <2>3, <2>4, Zenon DEF NodeInv
<1>5. CASE EndStep
  <2>1. /\ phase \in Open /\ disconnectpool' = {}
        /\ UNCHANGED <<known, failed, tip, index, durable, rollback, phase, store, file, history>>
    BY <1>0, <1>5, Zenon DEF EndStep, StepsWhenOpen
  <2>2. goal' \in Blocks \cup {NoBlock} /\ start' \in Blocks \cup {NoBlock}
    <3>1. BestCandidates \subseteq known
      BY Zenon DEF BestCandidates
    <3> QED BY <1>0, <1>5, <3>1, Zenon DEF EndStep, OtherTypes
  <2>3. PICK R \in Readmissible : mempool' = mempool \cup R
    BY <1>5, Zenon DEF EndStep
  <2>4. R \in SUBSET Txs
    BY <1>0, Zenon DEF Readmissible, OtherTypes
  <2>5. MempoolHasNoConflict'
    BY <1>0, <2>3, Zenon DEF Readmissible, MempoolHasNoConflict
  <2>6. OtherTypes'
    BY <1>0, <2>1, <2>2, <2>3, <2>4, Zenon DEF OtherTypes, history
  <2>7. AtRest' /\ StepsWhenOpen' /\ Pruned' /\ MarksRight'
    BY <1>0, <2>1, Zenon DEF AtRest, StepsWhenOpen, Pruned, MarksRight, history
  <2> QED BY <1>0, <2>1, <2>5, <2>6, <2>7, Zenon DEF NodeInv
<1>6. CASE \E b \in Blocks : ReceiveBlock(b)
  <2>1. PICK b \in Blocks : ReceiveBlock(b)
    BY <1>6, Zenon
  <2>2. OtherTypes'
    BY <1>0, <2>1, Zenon DEF ReceiveBlock, OtherTypes, poolVars, history
  <2>3. AtRest' /\ StepsWhenOpen' /\ Pruned' /\ MarksRight'
    BY <1>0, <2>1, Zenon DEF ReceiveBlock, AtRest, StepsWhenOpen, Pruned, MarksRight, history
  <2>4. MempoolHasNoConflict' /\ GoodStore(store') /\ GoodFile(file')
    BY <1>0, <2>1, Zenon DEF ReceiveBlock, MempoolHasNoConflict, poolVars
  <2> QED BY <2>2, <2>3, <2>4, Zenon DEF NodeInv
<1>7. CASE \E t \in RelayedTxs : AcceptToMemoryPool(t)
  <2>1. PICK t \in RelayedTxs : AcceptToMemoryPool(t)
    BY <1>7, Zenon
  <2>2. t \in Txs
    BY BlockContents, Zenon
  <2>3. MempoolHasNoConflict'
    BY <1>0, <2>1, Zenon DEF AcceptToMemoryPool, KeyImageConflicts, MempoolHasNoConflict
  <2>4. OtherTypes'
    BY <1>0, <2>1, <2>2, Zenon DEF AcceptToMemoryPool, OtherTypes, chainVars, history
  <2>5. AtRest' /\ StepsWhenOpen' /\ Pruned' /\ MarksRight'
    BY <1>0, <2>1, Zenon DEF AcceptToMemoryPool, AtRest, StepsWhenOpen, Pruned, MarksRight, chainVars, history
  <2> QED BY <1>0, <2>1, <2>3, <2>4, <2>5, Zenon DEF NodeInv, AcceptToMemoryPool
<1>8. CASE \E level \in RpcCheckLevels : VerifyChain(level)
  <2> DEFINE depth == Depth(tip, RpcCheckBlocks)
  <2>1. PICK level \in RpcCheckLevels : \E ok \in BOOLEAN : VerifyDB(level, depth, ok)
    BY <1>8, Zenon DEF VerifyChain
  <2>2. /\ UNCHANGED <<chainVars, phase, poolVars, restarts, skipped, sound>>
        /\ walked' \in SUBSET Blocks
    <3>1. LastBlocks(tip, depth) \subseteq Blocks
      BY <1>0, Ancestors, Zenon DEF OtherTypes, LastBlocks
    <3> QED BY <1>0, <1>8, <3>1, Zenon DEF VerifyChain, OtherTypes
  <2>3. /\ GoodStore(store') /\ GoodFile(file')
        /\ OnChain(store.bucket, tip) => OnChain(store'.bucket, tip)
    <3>1. tip \in Blocks /\ depth \in Nat
      BY <1>0, DepthIsNat, Options, Zenon DEF OtherTypes
    <3> QED BY <1>0, <2>1, <3>1, VerifySound, Zenon
  <2>4. OtherTypes' /\ MempoolHasNoConflict'
    BY <1>0, <2>2, Zenon DEF OtherTypes, MempoolHasNoConflict, chainVars, poolVars
  <2>5. AtRest' /\ StepsWhenOpen' /\ Pruned' /\ MarksRight'
    BY <1>0, <2>2, <2>3, Zenon DEF AtRest, StepsWhenOpen, Pruned, MarksRight, chainVars
  <2> QED BY <2>3, <2>4, <2>5, Zenon DEF NodeInv
<1>9. CASE Flush
  <2>1. OtherTypes'
    BY <1>0, <1>9, Zenon DEF Flush, OtherTypes, poolVars, history
  <2>2. AtRest' /\ StepsWhenOpen' /\ Pruned' /\ MarksRight'
    BY <1>0, <1>9, Zenon DEF Flush, AtRest, StepsWhenOpen, Pruned, MarksRight, Open, history
  <2>3. MempoolHasNoConflict' /\ GoodStore(store') /\ GoodFile(file')
    BY <1>0, <1>9, Zenon DEF Flush, MempoolHasNoConflict, poolVars
  <2> QED BY <2>1, <2>2, <2>3, Zenon DEF NodeInv
<1>10. CASE Crash
  <2>1. /\ phase' = "down" /\ goal' = NoBlock /\ start' = NoBlock /\ store' = EmptyStore
        /\ mempool' = {} /\ disconnectpool' = {} /\ walked' = {}
        /\ UNCHANGED <<file, restarts, skipped, sound>>
        /\ known' = index'.known /\ failed' = index'.failed
        /\ tip' = (IF durable' = NoBlock THEN Genesis ELSE durable')
    BY <1>10, Zenon DEF Crash
  <2>2. index' \in {index, [known |-> known, failed |-> failed]} /\ durable' \in {durable, tip}
    BY <1>10, Zenon DEF Crash
  <2>3. rollback' \in SUBSET Blocks
    <3>1. durable # NoBlock => Anc[durable] \subseteq Blocks
      BY <1>0, Ancestors, Zenon DEF OtherTypes
    <3> QED BY <1>0, <1>10, <3>1, Zenon DEF Crash, OtherTypes
  <2>4. index' \in [known: SUBSET Blocks, failed: SUBSET Blocks]
    BY <1>0, <2>2 DEF OtherTypes
  <2>5. durable' \in Blocks \cup {NoBlock} /\ tip' \in Blocks
    BY <1>0, <2>1, <2>2, BlockTree DEF OtherTypes
  <2>6. OtherTypes'
    BY <1>0, <2>1, <2>3, <2>4, <2>5, Zenon DEF OtherTypes, Phases
  <2>7. AtRest' /\ StepsWhenOpen' /\ Pruned' /\ MempoolHasNoConflict'
    BY <2>1, Zenon DEF AtRest, StepsWhenOpen, Pruned, Open, MempoolHasNoConflict
  <2>8. MarksRight'
    BY <1>0, <2>1, <2>2 DEF MarksRight
  <2> QED BY <1>0, <2>1, <2>6, <2>7, <2>8, EmptySound, Zenon DEF NodeInv
<1>11. CASE UNCHANGED vars
  <2>1. OtherTypes' /\ MempoolHasNoConflict'
    BY <1>0, <1>11, Zenon DEF vars, OtherTypes, MempoolHasNoConflict, chainVars, poolVars, history
  <2>2. AtRest' /\ StepsWhenOpen' /\ Pruned' /\ MarksRight'
    BY <1>0, <1>11, Zenon DEF vars, AtRest, StepsWhenOpen, Pruned, MarksRight, chainVars, history
  <2> QED BY <1>0, <1>11, <2>1, <2>2, Zenon DEF NodeInv, vars
<1> QED
  BY <1>1, <1>2, <1>3, <1>4, <1>5, <1>6, <1>7, <1>8, <1>9, <1>10, <1>11, Zenon DEF Next, ChainStep

-----------------------------------------------------------------------------
(* A node that runs. *)

\* The store holds what the blocks of the chain that ends in b have spent, except for
\* those of W.
Mirrors(B, b, W) == \A h \in Anc[b] \ W : B[h] = KIs(h)

\* The chain that ends in b repeats no image but one of a block of W.
ValidBut(b, W) ==
    \A c \in Anc[b] :
        /\ NoRepeat(c)
        /\ \A d \in Anc[b] \ {c} : KIs(c) \cap KIs(d) # {} => {c, d} \cap W # {}

SyncInv ==
    (phase = "running" /\ sound) => ValidBut(tip, walked) /\ Mirrors(store.bucket, tip, walked)

\* The images of the blocks the store mirrors are in it, so that neither a block nor a
\* transaction that is checked against it repeats one.
LEMMA MirroredIsHeld ==
    ASSUME GoodStore(store), tip \in Blocks, NEW W, Mirrors(store.bucket, tip, W)
    PROVE  \A c \in Anc[tip] \ W : KIs(c) \subseteq store.set
<1>1. \A c \in Anc[tip] \ W : c \in Hashes /\ store.bucket[c] = KIs(c)
  BY Ancestors, Zenon DEF Mirrors, Hashes
<1> QED BY <1>1 DEF GoodStore, WellFormed, Held

\* A block that passes on top of such a chain repeats no image of a mirrored block.
LEMMA PassesIsValid ==
    ASSUME GoodStore(store), tip \in Blocks, NEW W, ValidBut(tip, W), Mirrors(store.bucket, tip, W),
           NEW b \in Blocks \ {Genesis}, Parent[b] = tip, BlockPasses(b)
    PROVE  ValidBut(b, W) /\ Anc[b] = Anc[tip] \cup {b} /\ b \notin Anc[tip]
<1>1. Anc[b] = Anc[tip] \cup {b} /\ b \notin Anc[tip]
  BY Chain, Zenon
<1>2. \A c \in Anc[tip] \ W : KIs(c) \cap KIs(b) = {}
  BY MirroredIsHeld, Zenon DEF BlockPasses
<1>3. NoRepeat(b)
  BY Zenon DEF BlockPasses
<1> QED BY <1>1, <1>2, <1>3 DEF ValidBut

\* Every step keeps store and chain together; what verifychain takes out of the store
\* is among the blocks it has walked.
LEMMA SyncStep ==
    ASSUME NodeInv, SyncInv, [Next]_vars
    PROVE  SyncInv'
<1>0. OtherTypes /\ GoodStore(store) /\ GoodFile(file) /\ StepsWhenOpen /\ Pruned
  BY Zenon DEF NodeInv
<1>a. UNCHANGED <<tip, store, phase, sound, walked>> => SyncInv'
  BY Zenon DEF SyncInv
<1>1. CASE Rebuild
  <2>1. phase = "rebuild" /\ sound' = Valid(tip) /\ tip' = tip /\ store' = Rebuilt(store, tip)
    BY <1>1, Zenon DEF Rebuild, chainVars
  <2>2. tip \in Blocks /\ OnChain(store.bucket, tip) /\ Anc[tip] \subseteq Hashes
    BY <1>0, <2>1, Ancestors, Zenon DEF OtherTypes, Pruned, Hashes
  <2>3. Valid(tip) => Mirrors(store'.bucket, tip, walked')
    BY <1>0, <2>1, <2>2, RebuildSound, Zenon DEF Mirrors
  <2>4. Valid(tip) => ValidBut(tip, walked')
    BY Zenon DEF Valid, ValidBut
  <2> QED BY <2>1, <2>3, <2>4, Zenon DEF SyncInv
<1>2. CASE StartUpStep /\ ~Rebuild
  <2>1. phase' # "running"
    BY <1>2, Zenon DEF StartUpStep, StartUp, StartUpReindexing, ReplayBlocks, VerifyLoadedChainstate,
                PrePrune, ImportBlocks, SelfHeal
  <2> QED BY <2>1, Zenon DEF SyncInv
<1>3. CASE DisconnectTip
  <2>1. tip \in Blocks /\ tip # Genesis
    BY <1>0, <1>3, BlockTree, Zenon DEF DisconnectTip, OtherTypes
  <2>2. /\ Parent[tip] \in Blocks /\ Anc[tip] = Anc[Parent[tip]] \cup {tip}
        /\ tip \notin Anc[Parent[tip]] /\ Anc[Parent[tip]] \subseteq Hashes
    BY <2>1, Chain, Ancestors, Zenon DEF Hashes
  <2>3. /\ tip' = Parent[tip] /\ UNCHANGED <<phase, sound, walked>>
        /\ \A h \in Hashes : store'.bucket[h] = IF h = tip THEN {} ELSE store.bucket[h]
    <3>1. {tip} \in SUBSET Hashes
      BY <2>1, Zenon DEF Hashes
    <3>2. /\ tip' = Parent[tip] /\ UNCHANGED <<phase, sound, walked>>
          /\ store' = UncommitBlockKIs(store, {tip})
      BY <1>3, Zenon DEF DisconnectTip, history
    <3>3. \A h \in Hashes : UncommitBlockKIs(store, {tip}).bucket[h] =
              IF h \in {tip} THEN {} ELSE store.bucket[h]
      BY <1>0, <3>1, DropSound DEF UncommitBlockKIs
    <3> QED BY <3>2, <3>3, Zenon
  <2>4. ValidBut(tip, walked) => ValidBut(Parent[tip], walked)
    BY <2>2, Zenon DEF ValidBut
  <2>5. Mirrors(store.bucket, tip, walked) => Mirrors(store'.bucket, Parent[tip], walked)
    BY <2>2, <2>3, Zenon DEF Mirrors
  <2> QED BY <2>3, <2>4, <2>5, Zenon DEF SyncInv
<1>4. CASE \E b \in Blocks : ConnectTip(b)
  <2>1. PICK b \in Blocks : ConnectTip(b)
    BY <1>4, Zenon
  <2>2. /\ b \in Blocks \ {Genesis} /\ Parent[b] = tip /\ tip \in Blocks
        /\ Anc[tip] \subseteq Hashes /\ b \in Hashes
        /\ UNCHANGED <<phase, sound, walked>>
    BY <1>0, <2>1, Ancestors, Zenon DEF ConnectTip, OtherTypes, Hashes, history
  <2>3. CASE UNCHANGED <<tip, store>>
    BY <1>a, <2>2, <2>3, Zenon
  <2>4. CASE /\ BlockPasses(b) /\ store' = CommitBlockKIs(store, b, KIs(b))
             /\ file' \in CommitFiles(file, store, b, KIs(b)) /\ tip' = b
    <3>1. \A h \in Hashes : store'.bucket[h] =
              IF h = b THEN store.bucket[h] \cup KIs(b) ELSE store.bucket[h]
      BY <1>0, <2>4, CommitSound, Zenon DEF BlockPasses
    <3>2. store.bucket[b] \subseteq KIs(b)
      BY <1>0, Zenon DEF GoodStore, OfBlocks
    <3>3. ASSUME ValidBut(tip, walked), Mirrors(store.bucket, tip, walked)
          PROVE  ValidBut(b, walked) /\ Mirrors(store'.bucket, b, walked)
      <4>1. ValidBut(b, walked) /\ Anc[b] = Anc[tip] \cup {b} /\ b \notin Anc[tip]
        BY <1>0, <2>2, <2>4, <3>3, PassesIsValid, Zenon
      <4>2. store'.bucket[b] = KIs(b)
        BY <2>2, <3>1, <3>2
      <4> QED BY <2>2, <3>1, <3>3, <4>1, <4>2, Zenon DEF Mirrors
    <3> QED BY <2>2, <2>4, <3>3, Zenon DEF SyncInv
  <2> QED BY <2>1, <2>3, <2>4, Zenon DEF ConnectTip
<1>5. CASE \/ \E b \in Blocks : ActivateBestChain(b)
           \/ EndStep
           \/ \E b \in Blocks : ReceiveBlock(b)
           \/ \E t \in RelayedTxs : AcceptToMemoryPool(t)
           \/ Flush
           \/ UNCHANGED vars
  BY <1>a, <1>5, Zenon DEF ActivateBestChain, EndStep, ReceiveBlock, AcceptToMemoryPool, Flush,
                    vars, chainVars, history
<1>6. CASE \E level \in RpcCheckLevels : VerifyChain(level)
  <2> DEFINE depth == Depth(tip, RpcCheckBlocks)
             L == LastBlocks(tip, depth)
  <2>1. PICK level \in RpcCheckLevels : VerifyChain(level)
    BY <1>6, Zenon
  <2>2. PICK ok \in BOOLEAN : VerifyDB(level, depth, ok)
    BY <2>1, Zenon DEF VerifyChain
  <2>3. tip \in Blocks /\ depth \in Nat /\ Anc[tip] \subseteq Hashes
    BY <1>0, DepthIsNat, Options, Ancestors, Zenon DEF OtherTypes, Hashes
  <2>4. /\ ~(level >= 3) /\ level # 4 => UNCHANGED <<store, file>>
        /\ \A h \in Hashes \ L : store'.bucket[h] = store.bucket[h]
    BY <1>0, <2>2, <2>3, VerifySound, Zenon
  <2>5. /\ UNCHANGED <<tip, phase, sound>>
        /\ walked' = IF level >= 3 /\ phase = "running" THEN walked \cup L ELSE walked
    BY <2>1, Zenon DEF VerifyChain, chainVars
  <2>6. CASE ~(level >= 3)
    <3>1. level # 4
      BY <2>6
    <3> QED BY <1>a, <2>4, <2>5, <2>6, <3>1, Zenon
  <2>7. CASE phase # "running"
    BY <2>5, <2>7, Zenon DEF SyncInv
  <2>8. CASE level >= 3 /\ phase = "running"
    <3>1. walked' = walked \cup L
      BY <2>5, <2>8, Zenon
    <3>2. ValidBut(tip, walked) => ValidBut(tip, walked')
      BY <3>1 DEF ValidBut
    <3>3. Mirrors(store.bucket, tip, walked) => Mirrors(store'.bucket, tip, walked')
      BY <2>3, <2>4, <3>1 DEF Mirrors
    <3> QED BY <2>5, <3>2, <3>3, Zenon DEF SyncInv
  <2> QED BY <2>6, <2>7, <2>8, Zenon
<1>7. CASE Crash
  BY <1>7, Zenon DEF Crash, SyncInv
<1> QED
  BY <1>1, <1>2, <1>3, <1>4, <1>5, <1>6, <1>7, Zenon DEF Next, ChainStep

\* The inductive invariant holds throughout.
LEMMA Invariance == Spec => []NodeInv
<1>1. Init => NodeInv
  BY InitSound, Zenon
<1>2. NodeInv /\ [Next]_vars => NodeInv'
  BY StepSound, Zenon
<1> QED BY <1>1, <1>2, PTL DEF Spec

\* So does the second part.
LEMMA Synchrony == Spec => []SyncInv
<1>1. Init => SyncInv
  BY Zenon DEF Init, SyncInv
<1>2. NodeInv /\ SyncInv /\ [Next]_vars => SyncInv'
  BY SyncStep, Zenon
<1> QED BY <1>1, <1>2, Invariance, PTL DEF Spec

-----------------------------------------------------------------------------
(* Theorems. *)

\* Every variable of the node keeps its type.
THEOREM TypeCorrect == Spec => []TypeOK
<1>1. NodeInv => TypeOK
  BY Typed, Zenon
<1> QED BY <1>1, Invariance, PTL

\* g_key_images is the disjoint union of the buckets of g_kis_by_block, for every
\* block tree, every load of a cut or unmarked file and every level of the chain check.
THEOREM StoreStaysWellFormed == Spec => []StoreWellFormed
<1>1. NodeInv => StoreWellFormed
  BY Typed, Zenon
<1> QED BY <1>1, Invariance, PTL

\* No two transactions of the mempool spend the same key image.
THEOREM MempoolStaysConflictFree == Spec => []MempoolHasNoConflict
<1>1. NodeInv => MempoolHasNoConflict
  BY Zenon DEF NodeInv
<1> QED BY <1>1, Invariance, PTL

\* No block of a valid chain is marked failed, in memory or on disk, by a node whose
\* starts had a coins tip to prune to and no untagged images.
THEOREM FailedIsInvalid == Spec => []ValidNeverFailedAfterPrune
<1>1. NodeInv => ValidNeverFailedAfterPrune
  BY Zenon DEF NodeInv, MarksRight, ValidNeverFailedAfterPrune, ValidNeverFailed
<1> QED BY <1>1, Invariance, PTL

\* Once the rebuild walk is done, the store holds nothing but images of the active
\* chain, and all of them except for blocks that verifychain walked.
THEOREM StoreMirrorsChain == Spec => []InSyncWhenRunning
<1>1. NodeInv /\ SyncInv => InSyncWhenRunning
  <2> SUFFICES ASSUME NodeInv, SyncInv, phase = "running", NEW h \in Hashes
               PROVE  /\ store.bucket[h] \subseteq IF h \in Anc[tip] THEN KIs(h) ELSE {}
                      /\ sound /\ h \in Anc[tip] \ walked => store.bucket[h] = KIs(h)
    BY Zenon DEF InSyncWhenRunning
  <2>1. /\ Anc[tip] \subseteq Blocks /\ OfBlocks(store.bucket)
        /\ OnChain(store.bucket, tip)
    BY Ancestors, Zenon DEF NodeInv, OtherTypes, GoodStore, Pruned
  <2>2. store.bucket[h] \subseteq IF h \in Anc[tip] THEN KIs(h) ELSE {}
    BY <2>1 DEF OfBlocks, OnChain
  <2>3. sound /\ h \in Anc[tip] \ walked => store.bucket[h] = KIs(h)
    BY Zenon DEF SyncInv, Mirrors
  <2> QED BY <2>2, <2>3, Zenon
<1> QED BY <1>1, Invariance, Synchrony, PTL

\* A running node never moves to a chain that repeats a key image, unless verifychain
\* walked one of the two blocks.
THEOREM RunningChainIsValid == Spec => []RunningKeepsChainValid
<1>1. SyncInv => RunningKeepsChainValid
  BY Zenon DEF SyncInv, ValidBut, RunningKeepsChainValid
<1> QED BY <1>1, Synchrony, PTL

\* A running node's mempool stays free of what its chain has spent: a transaction is
\* accepted, or taken back after a reorganisation, only if the store does not have its
\* image, the store has those of the chain, and a new block puts out the spends of its own.
THEOREM MempoolSpendable == Spec => MempoolStaysSpendable
<1> DEFINE Stays == phase = "running" /\ phase' = "running" /\ sound /\ Spendable => Spendable'
<1>1. NodeInv /\ SyncInv /\ [Next]_vars => [Stays]_vars
  <2> SUFFICES ASSUME NodeInv, SyncInv, Next, phase = "running", phase' = "running", sound, Spendable
               PROVE  Spendable'
    BY Zenon
  <2>0. tip \in Blocks /\ GoodStore(store)
    BY Zenon DEF NodeInv, OtherTypes
  <2>1. \A c \in Anc[tip] \ walked : KIs(c) \subseteq store.set
    BY <2>0, MirroredIsHeld, Zenon DEF SyncInv
  <2>2. CASE \E t \in RelayedTxs : AcceptToMemoryPool(t)
    <3>1. PICK t \in RelayedTxs : AcceptToMemoryPool(t)
      BY <2>2, Zenon
    <3>2. /\ KeyImageOf[t] \notin store.set /\ UNCHANGED <<tip, walked>>
          /\ \A u \in mempool' : u \in mempool \/ u = t
      BY <3>1 DEF AcceptToMemoryPool, chainVars, history
    <3> QED BY <2>1, <3>2, Zenon DEF Spendable
  <2>3. CASE EndStep
    <3>1. PICK R \in Readmissible : mempool' = mempool \cup R
      BY <2>3, Zenon DEF EndStep
    <3>2. UNCHANGED <<tip, walked>> /\ \A t \in R : KeyImageOf[t] \notin store.set
      BY <2>3, Zenon DEF EndStep, Readmissible, history
    <3> QED BY <2>1, <3>1, <3>2, Zenon DEF Spendable
  <2>4. CASE DisconnectTip
    <3>1. tip # Genesis
      BY <2>0, <2>4, BlockTree, Zenon DEF DisconnectTip, NodeInv, OtherTypes
    <3>2. Anc[tip'] \subseteq Anc[tip] /\ UNCHANGED <<mempool, walked>>
      BY <2>0, <2>4, <3>1, Chain, Zenon DEF DisconnectTip, history
    <3> QED BY <3>2, Zenon DEF Spendable
  <2>5. CASE \E b \in Blocks : ConnectTip(b)
    <3>1. PICK b \in Blocks : ConnectTip(b)
      BY <2>5, Zenon
    <3>2. Anc[b] = Anc[tip] \cup {b} /\ walked' = walked
      BY <3>1, Chain, Zenon DEF ConnectTip, history
    <3>3. CASE mempool' = RemoveForBlock(b) /\ tip' = b
      BY <3>2, <3>3, Zenon DEF RemoveForBlock, Spendable
    <3>4. CASE UNCHANGED <<tip, poolVars>>
      BY <3>2, <3>4, Zenon DEF poolVars, Spendable
    <3> QED BY <3>1, <3>3, <3>4, Zenon DEF ConnectTip
  <2>6. CASE \E level \in RpcCheckLevels : VerifyChain(level)
    <3>1. UNCHANGED <<tip, mempool>> /\ walked \subseteq walked'
      BY <2>6, Zenon DEF VerifyChain, chainVars, poolVars
    <3> QED BY <3>1, Zenon DEF Spendable
  <2>7. CASE UNCHANGED <<tip, mempool, walked>>
    BY <2>7, Zenon DEF Spendable
  <2>8. ~StartUpStep /\ ~Crash
    BY Zenon DEF StartUpStep, StartUp, StartUpReindexing, ReplayBlocks, VerifyLoadedChainstate,
         PrePrune, ImportBlocks, SelfHeal, Rebuild, Crash
  <2> QED
    BY <2>2, <2>3, <2>4, <2>5, <2>6, <2>7, <2>8, Zenon
       DEF Next, ChainStep, ActivateBestChain, ReceiveBlock, Flush, poolVars, history
<1> QED BY <1>1, Invariance, Synchrony, PTL DEF Spec, MempoolStaysSpendable
=============================================================================
