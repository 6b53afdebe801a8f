----------------------------- MODULE RecoveryIndex -----------------------------
(***************************************************************************)
(* The cache of a wallet's confidential outputs (CTRecoveryIndex of        *)
(* wallet/rpc/pricoin_ct.cpp).  Every listing, balance query and coin      *)
(* selection first brings it up to the active chain: it is restored from   *)
(* the wallet file at the first call of a process, emptied when the block  *)
(* scanned last has left the active chain, and extended block by block.    *)
(* The mutex of the index is held throughout, so that syncs and changes of *)
(* the stealth seed exclude each other; cs_main is taken for each question *)
(* to the chain anew, so that the chain moves between two of them.         *)
(***************************************************************************)
EXTENDS Integers, FiniteSets

CONSTANTS
    Blocks,               \* the block tree
    Genesis,
    Anc,                  \* block |-> the block and its ancestors
    Outputs,              \* confidential outputs of any payee
    OutputsOf,            \* block |-> outputs its transactions create
    Unreadable,           \* blocks whose data may be gone: pruned, or a disk error
    Payee,                \* output |-> seed of the identity it pays
    SubIndex,             \* output |-> index of the subaddress it pays, 0 for the master
    Seeds,                \* stealth seeds
    NoSeed, NoBlock,
    kSubaddressGapLimit,
    MaxEntries            \* the bound of DeserializeRecoveryIndex

Height(b) == Cardinality(Anc[b]) - 1

Heights == {Height(b) : b \in Blocks}

\* Subaddress indices the wallet can come to know of.
Indices == {0} \cup {SubIndex[o] : o \in Outputs}

\* The tree has one root, and the ancestors of a block form a finite chain.
ASSUME BlockTree ==
    /\ Genesis \in Blocks /\ NoBlock \notin Blocks /\ NoSeed \notin Seeds
    /\ \A b \in Blocks : /\ Anc[b] \subseteq Blocks /\ IsFiniteSet(Anc[b])
                         /\ b \in Anc[b] /\ Genesis \in Anc[b]
    /\ \A b \in Blocks : \A a \in Anc[b] : Anc[a] \subseteq Anc[b] /\ (b \in Anc[a] => a = b)
    /\ \A b \in Blocks : \A a, c \in Anc[b] : a \in Anc[c] \/ c \in Anc[a]

ASSUME OutputsTyped ==
    /\ \A b \in Blocks : OutputsOf[b] \subseteq Outputs
    /\ Unreadable \subseteq Blocks
    /\ \A o \in Outputs : SubIndex[o] \in Nat
    /\ kSubaddressGapLimit \in Nat /\ MaxEntries \in Nat

VARIABLES
    tip,        \* tip of the active chain
    encrypted,  \* the wallet has a passphrase
    locked,
    seed,       \* the seed record of the wallet file
    id,         \* the identity in memory, or NoSeed
    maxUsed,    \* max_used_index in memory, or -1
    maxUsedRow, \* max_used_index in the wallet file
    index,      \* the index in memory
    tried,      \* persisted_load_attempted
    row,        \* the persisted index: <<>> or <<index>>
    sync,       \* the call that holds the mutex
    calm        \* chain, wallet file and wallet lock no longer make trouble

vars == <<tip, encrypted, locked, seed, id, maxUsed, maxUsedRow, index, tried, row, sync, calm>>
chainVars == <<tip, calm>>
keyVars == <<encrypted, locked, seed>>
fileVars == <<seed, maxUsedRow, row>>

(***************************************************************************)
(* An index.  Two fields are not in the code: intact says that every block *)
(* scanned was the child of the one before, and for the seed on record;    *)
(* unread holds the blocks that were scanned without their data.           *)
(***************************************************************************)
Empty == [height |-> -1, hash |-> NoBlock, entries |-> <<>>, intact |-> TRUE, unread |-> {}]

Idle == [at |-> "idle", to |-> -1, ceiling |-> 0]

getBlockHash(h) == CHOOSE b \in Anc[tip] : Height(b) = h

\* The heights at which the process asks the chain for a block it has not.
Asserts(h) == h > Height(tip)

Init ==
    /\ tip = Genesis
    /\ encrypted \in BOOLEAN /\ locked = FALSE
    /\ seed \in Seeds /\ id = NoSeed
    /\ maxUsed = -1 /\ maxUsedRow = 0
    /\ index = Empty /\ tried = FALSE /\ row = <<>>
    /\ sync = Idle /\ calm = FALSE

(***************************************************************************)
(* LoadPersistedRecoveryIndex.  A record with too many entries is refused  *)
(* after its height and hash have been stored in the index.                *)
(***************************************************************************)
DeserializeRecoveryIndex(r) ==
    IF Cardinality(DOMAIN r.entries) > MaxEntries THEN [r EXCEPT !.entries = <<>>] ELSE r

LoadPersistedRecoveryIndex ==
    IF row = <<>> \/ locked
    THEN {Empty}
    ELSE {DeserializeRecoveryIndex(row[1])} \cup (IF calm THEN {} ELSE {Empty})

\* The first part of SyncRecoveryIndexLocked, up to the height of the tip.
SyncBegin ==
    /\ sync.at = "idle"
    /\ index' \in (IF tried THEN {index} ELSE LoadPersistedRecoveryIndex)
    /\ tried' = TRUE
    /\ sync' = [Idle EXCEPT !.at = "check", !.to = Height(tip)]
    /\ UNCHANGED <<chainVars, keyVars, id, maxUsed, maxUsedRow, row>>

\* Bug: the comparison with the tip is off by one.
LeftChainAtTip(ix, to) ==
    \/ ix.height >= to
    \/ ix.height >= 0 /\ getBlockHash(ix.height) # ix.hash

\* needs_full_rescan: the tip went back, or the block scanned last was left.
LeftChain(ix, to) ==
    \/ ix.height > to
    \/ ix.height >= 0 /\ getBlockHash(ix.height) # ix.hash

\* Bug: the entries of the blocks that were left stay.
RescanKeepsEntries(ix) == [Empty EXCEPT !.entries = ix.entries]

\* The index is emptied, to be built from genesis again.
Rescan(ix) == Empty

\* GetOrCreate and BuildSubaddressLookup read encrypted records they do not have
\* in memory.
LookupThrows ==
    locked /\ (id = NoSeed \/ (maxUsed = -1 /\ maxUsedRow > 0))

LoadSubaddressState == IF maxUsed = -1 THEN maxUsedRow ELSE maxUsed

\* The reorganisation check, the early return and the lookup.
SyncCheck ==
    /\ sync.at = "check"
    /\ index.height <= sync.to => ~Asserts(index.height)
    /\ index' = IF LeftChain(index, sync.to) THEN Rescan(index) ELSE index
    /\ IF index'.height >= sync.to \/ LookupThrows
       THEN sync' = Idle /\ UNCHANGED <<id, maxUsed>>
       ELSE /\ id' = IF id = NoSeed THEN seed ELSE id
            /\ maxUsed' = LoadSubaddressState
            /\ sync' = [sync EXCEPT !.at = "scan", !.ceiling = maxUsed' + kSubaddressGapLimit]
    /\ UNCHANGED <<chainVars, keyVars, maxUsedRow, tried, row>>

(***************************************************************************)
(* One round of the block walk, which ends at the height the tip had at    *)
(* the beginning.  findBlock fails for unknown hashes only: a block of the *)
(* active chain whose data cannot be read comes back without transactions, *)
(* so the branch that stops the walk is never taken.  The index is saved   *)
(* at the end, unless the wallet is locked or the write fails.             *)
(***************************************************************************)
findBlock(b) == {OutputsOf[b]} \cup (IF b \in Unreadable THEN {{}} ELSE {})

TryRecoverCTOutput(outs) ==
    {o \in outs : Payee[o] = id /\ SubIndex[o] <= sync.ceiling}

Scanned(ix, b, outs) ==
    [height |-> Height(b), hash |-> b,
     entries |-> [o \in DOMAIN ix.entries \cup TryRecoverCTOutput(outs) |->
                     IF o \in TryRecoverCTOutput(outs) THEN Height(b) ELSE ix.entries[o]],
     intact |-> ix.intact /\ (ix.height >= 0 => ix.hash \in Anc[b]),
     unread |-> IF outs = OutputsOf[b] THEN ix.unread ELSE ix.unread \cup {b}]

\* NoteSubaddressDiscovered for each output found; each write may fail.
NoteSubaddressDiscovered(outs) ==
    LET beyond == {SubIndex[o] : o \in TryRecoverCTOutput(outs)} \ 0..maxUsed
        top == CHOOSE m \in beyond : \A n \in beyond : n <= m
    IN  IF beyond = {}
        THEN UNCHANGED <<maxUsed, maxUsedRow>>
        ELSE /\ maxUsed' = top
             /\ maxUsedRow' \in (CASE locked -> {maxUsedRow}
                                   [] ~locked /\ calm -> {top}
                                   [] ~locked /\ ~calm -> beyond \cup {maxUsedRow})

PersistRecoveryIndex(ix) ==
    row' \in (CASE locked -> {row}
                [] ~locked /\ calm -> {<<ix>>}
                [] ~locked /\ ~calm -> {row, <<ix>>})

ScanBlock(b, outs) ==
    /\ index' = Scanned(index, b, outs)
    /\ NoteSubaddressDiscovered(outs)
    /\ IF Height(b) = sync.to
       THEN sync' = Idle /\ PersistRecoveryIndex(index')
       ELSE UNCHANGED <<sync, row>>

SyncScan ==
    /\ sync.at = "scan" /\ ~Asserts(index.height + 1)
    /\ LET b == getBlockHash(index.height + 1)
       IN  \E outs \in findBlock(b) : ScanBlock(b, outs)
    /\ UNCHANGED <<chainVars, keyVars, id, tried>>

(***************************************************************************)
(* pricoin_setstealthseed with confirm_overwrite: the seed record is       *)
(* written first and the index is dropped, in memory and on file, before   *)
(* the mutex is released.  A failed erase goes unnoticed.                  *)
(***************************************************************************)
SetSeed(s) ==
    /\ sync.at = "idle" /\ ~locked /\ ~calm
    /\ seed' = s /\ id' = NoSeed
    /\ row' = IF row = <<>> THEN row
              ELSE <<[row[1] EXCEPT !.intact = @ /\ s = seed]>>
    /\ sync' = [Idle EXCEPT !.at = "drop"]
    /\ UNCHANGED <<chainVars, encrypted, locked, maxUsed, maxUsedRow, index, tried>>

DropCTRecoveryCache ==
    /\ sync.at = "drop"
    /\ index' = Empty /\ tried' = FALSE
    /\ row' \in {<<>>} \cup (IF calm THEN {} ELSE {row})
    /\ sync' = Idle
    /\ UNCHANGED <<chainVars, keyVars, id, maxUsed, maxUsedRow>>

\* Any call that needs the identity, such as pricoin_getstealthaddress.
GetOrCreate ==
    /\ id = NoSeed /\ ~locked
    /\ id' = seed
    /\ UNCHANGED <<chainVars, keyVars, maxUsed, maxUsedRow, index, tried, row, sync>>

(***************************************************************************)
(* The environment.  The chain is extended, reorganised to a longer branch *)
(* or cut back by invalidateblock; the process ends, or the wallet is      *)
(* unloaded, and starts again.                                             *)
(***************************************************************************)
ChainMoves(b) ==
    /\ ~calm /\ b # tip
    /\ Height(b) > Height(tip) \/ b \in Anc[tip]
    /\ tip' = b
    /\ UNCHANGED <<calm, keyVars, id, maxUsed, maxUsedRow, index, tried, row, sync>>

Restarted ==
    /\ index' = Empty /\ tried' = FALSE /\ id' = NoSeed /\ maxUsed' = -1
    /\ sync' = Idle /\ locked' = encrypted
    /\ UNCHANGED <<chainVars, encrypted, fileVars>>

Crash == ~calm /\ Restarted

\* The assertion in getBlockHash ends the process.
AssertFails ==
    /\ \/ sync.at = "check" /\ index.height <= sync.to /\ Asserts(index.height)
       \/ sync.at = "scan" /\ Asserts(index.height + 1)
    /\ Restarted

Passphrase(on) ==
    /\ ~calm /\ encrypted /\ locked' = on
    /\ UNCHANGED <<chainVars, encrypted, fileVars, id, maxUsed, index, tried, sync>>

CalmBegins ==
    /\ ~calm /\ calm' = TRUE
    /\ UNCHANGED <<tip, keyVars, id, maxUsed, maxUsedRow, index, tried, row, sync>>

Next ==
    \/ SyncBegin \/ SyncCheck \/ SyncScan
    \/ \E s \in Seeds : SetSeed(s)
    \/ DropCTRecoveryCache
    \/ GetOrCreate
    \/ \E b \in Blocks : ChainMoves(b)
    \/ Crash \/ AssertFails
    \/ \E on \in BOOLEAN : Passphrase(on)
    \/ CalmBegins

Spec == Init /\ [][Next]_vars

\* A call that holds the mutex goes on.  Nobody has to make another one: the
\* interface asks for the balance only when the tip has changed.
FairSpec ==
    /\ Spec
    /\ WF_vars(SyncCheck) /\ WF_vars(SyncScan)
    /\ WF_vars(DropCTRecoveryCache) /\ WF_vars(AssertFails)

(***************************************************************************)
(* Properties.                                                             *)
(***************************************************************************)
Index ==
    [height: {-1} \cup Heights, hash: Blocks \cup {NoBlock},
     entries: UNION {[S -> Heights] : S \in SUBSET Outputs},
     intact: BOOLEAN, unread: SUBSET Blocks]

\* Every variable keeps its type, in particular the index that a walk extends.
TypeOK ==
    /\ tip \in Blocks /\ calm \in BOOLEAN
    /\ encrypted \in BOOLEAN /\ locked \in BOOLEAN /\ (locked => encrypted)
    /\ seed \in Seeds /\ id \in Seeds \cup {NoSeed}
    /\ maxUsed \in {-1} \cup Indices /\ maxUsedRow \in Indices
    /\ index \in Index /\ tried \in BOOLEAN
    /\ row = <<>> \/ (row = <<row[1]>> /\ row[1] \in Index)
    /\ sync \in [at: {"idle", "check", "scan", "drop"}, to: {-1} \cup Heights,
                ceiling: Nat]

\* Outputs that the given blocks create for the seed s.
Paid(blocks, s) == {o \in UNION {OutputsOf[a] : a \in blocks} : Payee[o] = s}

\* Those at subaddresses that the first lookup of any wallet covers.
Owed(blocks, s) == {o \in Paid(blocks, s) : SubIndex[o] <= kSubaddressGapLimit}

Exact(ix, s) ==
    ix.intact /\ ix.height >= 0 =>
        /\ Owed(Anc[ix.hash] \ ix.unread, s) \subseteq DOMAIN ix.entries
        /\ \A o \in DOMAIN ix.entries :
              /\ Payee[o] = s
              /\ \E b \in Anc[ix.hash] : o \in OutputsOf[b] /\ Height(b) = ix.entries[o]

\* What readers find in the index is what the chain up to the block scanned last
\* holds for the wallet's seed: each entry is an output of the block at its height,
\* and no output is missing but those of blocks that came back without their data
\* (these are passed over for good, see NoPermanentGap).  Reorganisations between
\* two syncs, a locked wallet, failed writes, new seeds and restarts with an older
\* saved index leave no trace.  (Not if the chain was reorganised under the
\* walk, or the process ended between new seed and erased record.)
IndexIsExact == sync.at # "drop" => Exact(index, seed)

\* Once the chain rests and the wallet file can be used, a single call takes the
\* index to the tip, where it stays, unless the wallet is locked: neither a walk
\* broken off before nor a saved index of another branch, a rescan or a later call
\* keeps it away.
CatchesUp ==
    (calm /\ sync.at = "check" /\ sync.to = Height(tip)) ~> [](index.hash = tip \/ locked)

\* Between two calls, or at the start of one.
AtTip ==
    calm /\ index.hash = tip /\ (sync.at = "idle" \/ (sync.at = "check" /\ sync.to = Height(tip)))

\* An index that has reached the tip of a chain at rest is kept as it is by every
\* later call: none loads a saved index over it, empties it or walks again.
StaysAtTip == [][AtTip => AtTip' /\ index' = index]_vars

\* "last_scanned_height must not advance past a block we never scanned, or ... any
\* CT output to this wallet in block h would be invisible to balance/spend forever":
\* an index that has reached the tip has every output owed to the wallet.
NoPermanentGap ==
    sync.at = "idle" /\ index.hash = tip => Owed(Anc[tip], seed) \subseteq DOMAIN index.entries

=============================================================================
