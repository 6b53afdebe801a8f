----------------------------- MODULE KeyImageStore -----------------------------
(***************************************************************************)
(* The key-image store: g_key_images, g_kis_by_block and the file          *)
(* pricoin_keyimages.dat, as values and the functions on them that the     *)
(* store's entry points compute.  KeyImageNode applies them.               *)
(*                                                                         *)
(* A store is the in-memory state:                                         *)
(*    set     g_key_images                                                 *)
(*    bucket  g_kis_by_block; an absent bucket is the empty one            *)
(*    named   the hashes g_kis_by_block has an entry for                   *)
(*                                                                         *)
(* A file is described by what a later load makes of it:                   *)
(*    format  "none" (no file), "v2" (magic present), "raw" (no magic)     *)
(*    bucket, named   the whole entries a v2 parse reads, in file order,   *)
(*                    an image that occurs twice being kept by the first   *)
(*    torn    an incomplete entry ends the readable part; whatever is      *)
(*            appended behind it is not read as an entry again             *)
(*                                                                         *)
(* Writes to the file may fail or stop part-way: the code ignores the      *)
(* result of fopen, fwrite, fflush and rename.  The operators that touch   *)
(* the file therefore give the set of possible files.                      *)
(***************************************************************************)
EXTENDS FiniteSets

CONSTANTS
    Blocks,      \* block hashes
    KeyImages,   \* key images of ring inputs
    NullHash,    \* uint256{}: the bucket of untagged (v1) key images
    LongRawFile  \* whether a file without magic may have grown to eleven entries

ASSUME NullHashIsNoBlock == NullHash \notin Blocks

ASSUME LongRawFileIsBoolean == LongRawFile \in BOOLEAN

Hashes == Blocks \cup {NullHash}

Store == [set: SUBSET KeyImages,
          bucket: [Hashes -> SUBSET KeyImages],
          named: SUBSET Hashes]

File == [format: {"none", "raw", "v2"},
         bucket: [Hashes -> SUBSET KeyImages],
         named: SUBSET Hashes,
         torn: BOOLEAN]

NoBuckets == [h \in Hashes |-> {}]

EmptyStore == [set |-> {}, bucket |-> NoBuckets, named |-> {}]

NoFile == [format |-> "none", bucket |-> NoBuckets, named |-> {}, torn |-> FALSE]

\* The key images of all buckets.
Held(bucket) == UNION {bucket[h] : h \in Hashes}

-----------------------------------------------------------------------------
(* The file. *)

\* The file f after opening it for appending; a new file gets no magic.
Opened(f) == [f EXCEPT !.format = IF @ = "none" THEN "raw" ELSE @]

\* The file f with an entry (h, New[h]) for every h with New[h] # {}.
WithEntries(f, New) ==
    IF f.torn THEN Opened(f)
    ELSE [Opened(f) EXCEPT
            !.bucket = [h \in Hashes |-> f.bucket[h] \cup (New[h] \ Held(f.bucket))],
            !.named = @ \cup {h \in Hashes : New[h] # {}}]

\* The images of New that a set of (hash, image) pairs leaves.
Kept(New, P) == [h \in Hashes |-> {k \in New[h] : <<h, k>> \in P}]

\* AppendBlockEntry for the entries of New in turn: an entry is written whole
\* or not at all, or the last one that is written is cut.
AppendBlockEntries(f, New) ==
    LET Pairs == UNION {{h} \X New[h] : h \in Hashes}
        Whole(P) == \A h \in Hashes : Kept(New, P)[h] \in {{}, New[h]}
    IN IF New = NoBuckets THEN {f}
       ELSE {f} \cup
            {WithEntries(f, Kept(New, P)) : P \in {Q \in SUBSET Pairs : Whole(Q)}} \cup
            {[WithEntries(f, Kept(New, P)) EXCEPT !.torn = TRUE] : P \in SUBSET Pairs}

\* Bug: the rewritten file is tagged with the old format.
FileOfOldFormat(st) == [format |-> "v1", bucket |-> st.bucket,
                        named |-> {h \in Hashes : st.bucket[h] # {}}, torn |-> FALSE]

\* The file RewriteFile produces when it succeeds.
FileOf(st) == [format |-> "v2", bucket |-> st.bucket,
               named |-> {h \in Hashes : st.bucket[h] # {}}, torn |-> FALSE]

\* RewriteFile: the temporary file replaces the old one, or the old one stays.
RewriteFile(f, st) == {f, FileOf(st)}

-----------------------------------------------------------------------------
(* The entry points. *)

\* CommitBlockKIs: insert what is new, and attribute it to the block.
CommitBlockKIs(st, b, K) ==
    IF K = {} THEN st
    ELSE [set |-> st.set \cup K,
          bucket |-> [st.bucket EXCEPT ![b] = @ \cup (K \ st.set)],
          named |-> st.named \cup {b}]

\* The files CommitBlockKIs may leave: it appends what was new.
CommitFiles(f, st, b, K) == AppendBlockEntries(f, [NoBuckets EXCEPT ![b] = K \ st.set])

\* Bug: the bucket goes, its images stay in the set.
DropBucketsKeepingImages(st, D) ==
    [set |-> st.set,
     bucket |-> [h \in Hashes |-> IF h \in D THEN {} ELSE st.bucket[h]],
     named |-> st.named \ D]

\* Erase the buckets of D and their images, as UncommitBlockKIs does for one
\* block and PruneOrphanedKeyImages for several.
DropBuckets(st, D) ==
    [set |-> st.set \ UNION {st.bucket[h] : h \in D},
     bucket |-> [h \in Hashes |-> IF h \in D THEN {} ELSE st.bucket[h]],
     named |-> st.named \ D]

\* UncommitBlockKIs for every block of D.
UncommitBlockKIs(st, D) == DropBuckets(st, D)

\* The files UncommitBlockKIs may leave: it rewrites when there was a bucket.
UncommitFiles(f, st, D) ==
    IF st.named \cap D = {} THEN {f} ELSE RewriteFile(f, DropBuckets(st, D))

\* PruneOrphanedKeyImages: drop the buckets whose hash is not in Keep.
PruneOrphanedKeyImages(st, Keep) == DropBuckets(st, st.named \ Keep)

PruneFiles(f, st, Keep) ==
    IF st.named \subseteq Keep THEN {f}
    ELSE RewriteFile(f, PruneOrphanedKeyImages(st, Keep))

\* The v2 branch of InitKeyImageStore.
ParsedV2(f) == [set |-> Held(f.bucket), bucket |-> f.bucket, named |-> f.named]

\* The v1 branch reads the bytes as 33-byte key images.  An entry of the current
\* format has a head of 36 bytes, so the images of entry i start at 3i modulo 33:
\* only those of every eleventh entry are recognised, the rest is read as points
\* nobody spends with.  All go to the untagged bucket.
ParsedV1(f) ==
    {[set |-> J, bucket |-> [NoBuckets EXCEPT ![NullHash] = J], named |-> {NullHash}] :
        J \in IF LongRawFile THEN SUBSET Held(f.bucket) ELSE {{}}}

\* InitKeyImageStore without -reindex: the stores and files it may leave.
InitKeyImageStore(f) ==
    CASE f.format = "none" -> {<<EmptyStore, f>>}
      [] f.format = "v2"   -> {<<ParsedV2(f), f>>}
      [] f.format = "raw"  -> UNION {{<<st, g>> : g \in RewriteFile(f, st)} : st \in ParsedV1(f)}

-----------------------------------------------------------------------------
(* What a store is meant to be. *)

\* The set is the disjoint union of the buckets: an image is attributed to
\* exactly one hash, so that removing a bucket removes what it committed and
\* nothing else.
WellFormed(st) ==
    /\ st.set = Held(st.bucket)
    /\ \A g, h \in Hashes : g # h => st.bucket[g] \cap st.bucket[h] = {}
    /\ \A h \in Hashes \ st.named : st.bucket[h] = {}

=============================================================================
