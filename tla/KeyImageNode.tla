------------------------------ MODULE KeyImageNode ------------------------------
(***************************************************************************)
(* A node's active chain, its key-image store and its mempool.             *)
(*                                                                         *)
(* The coins database is flushed lazily, the key-image file on every       *)
(* block, and the two are brought together again at startup:               *)
(*                                                                         *)
(*   "down"     the process is not running                                 *)
(*   "loaded"   InitKeyImageStore has read the file                        *)
(*   "checked"  ReplayBlocks, LoadChainTip and VerifyDB are done           *)
(*   "import"   initload has pruned the store above the coins tip and runs *)
(*              ImportBlocks, which ends in ActivateBestChain              *)
(*   "heal"     blocks are imported; orphaned buckets are pruned next      *)
(*   "rebuild"  the walk over the active chain that re-adds images is next *)
(*   "running"                                                             *)
(*                                                                         *)
(* initload takes cs_main for each of its steps separately, so blocks and  *)
(* transactions from peers and RPC are handled between them.  The process  *)
(* may stop between any two actions, in particular in the middle of a      *)
(* reorganisation.                                                         *)
(***************************************************************************)
EXTENDS Naturals, KeyImageStore

CONSTANTS
    Genesis,
    Parent,       \* [Blocks -> Blocks], Genesis its own parent
    Anc,          \* [Blocks -> SUBSET Blocks], the block and its ancestors
    Txs,          \* ring transactions
    RelayedTxs,   \* those that reach the node outside of blocks
    KeyImageOf,   \* [Txs -> KeyImages]
    BlockTxs,     \* [Blocks -> SUBSET Txs]
    NoBlock,
    CheckLevels,  \* values of -checklevel the node is started with
    CheckBlocks,  \* -checkblocks
    RpcCheckLevels, \* levels verifychain is called with
    RpcCheckBlocks, \* and its nblocks
    MaxRestarts   \* bound on the number of starts TLC explores

ASSUME BlockTree ==
    /\ Genesis \in Blocks
    /\ NoBlock \notin Blocks
    /\ Parent \in [Blocks -> Blocks]
    /\ Anc \in [Blocks -> SUBSET Blocks]
    /\ Anc[Genesis] = {Genesis}
    /\ \A b \in Blocks : b \in Anc[b] /\ Genesis \in Anc[b] /\ IsFiniteSet(Anc[b])
    /\ \A b \in Blocks \ {Genesis} :
          Anc[b] = Anc[Parent[b]] \cup {b} /\ b \notin Anc[Parent[b]]
    /\ \A b \in Blocks : \A a, c \in Anc[b] :
          Anc[a] \subseteq Anc[b] /\ (a \in Anc[c] \/ c \in Anc[a])

ASSUME BlockContents ==
    /\ RelayedTxs \subseteq Txs
    /\ KeyImageOf \in [Txs -> KeyImages]
    /\ BlockTxs \in [Blocks -> SUBSET Txs]
    /\ BlockTxs[Genesis] = {}

ASSUME Options ==
    /\ CheckLevels \subseteq 0..4
    /\ CheckBlocks \in Nat
    /\ RpcCheckLevels \subseteq 0..4
    /\ RpcCheckBlocks \in Nat
    /\ MaxRestarts \in Nat

VARIABLES
    known,      \* blocks whose data is on disk
    failed,     \* blocks marked BLOCK_FAILED_VALID
    tip,        \* m_chain.Tip()
    index,      \* the block index on disk: known and failed as last written
    durable,    \* the best block of the coins database, NoBlock when it is empty
    rollback,   \* blocks ReplayBlocks must disconnect after an interrupted flush
    start,      \* the tip ActivateBestChain started from, NoBlock when it is not running
    goal,       \* pindexMostWork of the step under way, NoBlock between steps
    phase,
    store,
    file,
    mempool,
    disconnectpool,
    restarts,
    skipped,    \* history: some start kept images of unknown blocks
    sound,      \* history: the chain of the last rebuild walk repeated no image
    walked      \* history: blocks verifychain disconnected in the store of a running node

chainVars == <<known, failed, tip, index, durable, rollback, start, goal>>
poolVars == <<mempool, disconnectpool>>
history == <<restarts, skipped, sound, walked>>
vars == <<chainVars, phase, store, file, poolVars, history>>

KIs(b) == {KeyImageOf[t] : t \in BlockTxs[b]}
Height(b) == Cardinality(Anc[b])

\* No two transactions of the block spend the same key image.
NoRepeat(b) == \A t, u \in BlockTxs[b] : t # u => KeyImageOf[t] # KeyImageOf[u]

\* The consensus rule: no key image twice on one chain.
Valid(b) ==
    /\ \A c \in Anc[b] : NoRepeat(c)
    /\ \A c, d \in Anc[b] : c # d => KIs(c) \cap KIs(d) = {}

Phases == {"down", "loaded", "checked", "import", "heal", "rebuild", "running"}

\* Phases in which initload, peers and RPC compete for cs_main.
Open == {"import", "heal", "rebuild", "running"}

TypeOK ==
    /\ known \in SUBSET Blocks
    /\ failed \in SUBSET Blocks
    /\ tip \in Blocks
    /\ index \in [known: SUBSET Blocks, failed: SUBSET Blocks]
    /\ durable \in Blocks \cup {NoBlock}
    /\ rollback \in SUBSET Blocks
    /\ start \in Blocks \cup {NoBlock}
    /\ goal \in Blocks \cup {NoBlock}
    /\ phase \in Phases
    /\ store \in Store
    /\ file \in File
    /\ mempool \in SUBSET Txs
    /\ disconnectpool \in SUBSET Txs
    /\ restarts \in Nat
    /\ skipped \in BOOLEAN
    /\ sound \in BOOLEAN
    /\ walked \in SUBSET Blocks

\* A new data directory.
Init ==
    /\ known = {Genesis}
    /\ failed = {}
    /\ tip = Genesis
    /\ index = [known |-> {Genesis}, failed |-> {}]
    /\ durable = NoBlock
    /\ rollback = {}
    /\ start = NoBlock
    /\ goal = NoBlock
    /\ phase = "down"
    /\ store = EmptyStore
    /\ file = NoFile
    /\ mempool = {}
    /\ disconnectpool = {}
    /\ restarts = 0
    /\ skipped = FALSE
    /\ sound = TRUE
    /\ walked = {}

-----------------------------------------------------------------------------
(* Connecting and disconnecting blocks. *)

\* FindMostWorkChain: the candidates with more work than the tip.
BestCandidates ==
    LET Candidates == {b \in known : Anc[b] \cap failed = {} /\ Height(b) > Height(tip)}
    IN {b \in Candidates : \A c \in Candidates : Height(c) <= Height(b)}

\* cs_main is free.
Quiet == phase \in Open /\ start = NoBlock

\* A block from a peer, submitblock or a block file is stored.
ReceiveBlock(b) ==
    /\ Quiet
    /\ b \notin known
    /\ Parent[b] \in known
    /\ known' = known \cup {b}
    /\ UNCHANGED <<failed, tip, index, durable, rollback, start, goal, phase, store, file,
                   poolVars, history>>

\* ActivateBestChain takes cs_main and picks a chain.
ActivateBestChain(b) ==
    /\ Quiet
    /\ b \in BestCandidates
    /\ start' = tip
    /\ goal' = b
    /\ UNCHANGED <<known, failed, tip, index, durable, rollback, phase, store, file,
                   poolVars, history>>

\* Bug: DisconnectBlock forgets the key images of the block.
DisconnectTipKeepingImages ==
    /\ goal # NoBlock
    /\ tip \notin Anc[goal]
    /\ tip' = Parent[tip]
    /\ UNCHANGED <<store, file>>
    /\ disconnectpool' = disconnectpool \cup BlockTxs[tip]
    /\ UNCHANGED <<known, failed, index, durable, rollback, start, goal, phase, mempool, history>>

\* DisconnectTip: DisconnectBlock ends in UncommitBlockKIs.
DisconnectTip ==
    /\ goal # NoBlock
    /\ tip \notin Anc[goal]
    /\ tip' = Parent[tip]
    /\ store' = UncommitBlockKIs(store, {tip})
    /\ file' \in UncommitFiles(file, store, {tip})
    /\ disconnectpool' = disconnectpool \cup BlockTxs[tip]
    /\ UNCHANGED <<known, failed, index, durable, rollback, start, goal, phase, mempool, history>>

\* Bug: transactions of the block leave the mempool, conflicting ones stay.
RemoveForBlockIgnoringConflicts(b) == mempool \ BlockTxs[b]

\* removeForBlock: the block's transactions, and every other spend of their
\* key images (removeKeyImageConflicts).
RemoveForBlock(b) == {t \in mempool : KeyImageOf[t] \notin KIs(b)}

\* The checks of ConnectBlock that concern key images: VerifyRingInputs on
\* every transaction, against the store as it was before the block, and the
\* scan for an image that two transactions of the block share.
BlockPasses(b) ==
    /\ KIs(b) \cap store.set = {}
    /\ NoRepeat(b)

\* ConnectTip of the next block towards the goal; the commit comes last in
\* ConnectBlock.
ConnectTip(b) ==
    /\ goal # NoBlock
    /\ tip \in Anc[goal]
    /\ b \in Anc[goal] \ {Genesis}
    /\ Parent[b] = tip
    /\ b \notin failed
    /\ \/ /\ BlockPasses(b)
          /\ store' = CommitBlockKIs(store, b, KIs(b))
          /\ file' \in CommitFiles(file, store, b, KIs(b))
          /\ mempool' = RemoveForBlock(b)
          /\ disconnectpool' = disconnectpool \ BlockTxs[b]
          /\ tip' = b
          /\ UNCHANGED failed
       \/ /\ ~BlockPasses(b)
          /\ failed' = failed \cup {c \in known : b \in Anc[c]}
          /\ UNCHANGED <<tip, store, file, poolVars>>
    /\ UNCHANGED <<known, index, durable, rollback, start, goal, phase, history>>

\* Disconnected transactions MaybeUpdateMempoolForReorg may take back: the same
\* checks as for any transaction; policy may refuse some of them.
Readmissible ==
    {R \in SUBSET disconnectpool :
        \A t \in R : /\ KeyImageOf[t] \notin store.set
                     /\ \A u \in (mempool \cup R) \ {t} : KeyImageOf[u] # KeyImageOf[t]}

\* The end of ActivateBestChainStep.  ActivateBestChain keeps cs_main and goes
\* on while the tip has less work than the one it started from.
EndStep ==
    /\ goal # NoBlock
    /\ tip = goal \/ (tip \in Anc[goal] /\ goal \in failed)
    /\ \E R \in Readmissible : mempool' = mempool \cup R
    /\ disconnectpool' = {}
    /\ IF Height(tip) < Height(start) /\ BestCandidates # {}
       THEN goal' \in BestCandidates /\ start' = start
       ELSE goal' = NoBlock /\ start' = NoBlock
    /\ UNCHANGED <<known, failed, tip, index, durable, rollback, phase, store, file, history>>

\* FlushStateToDisk: the block index, then the coins.
Flush ==
    /\ phase \in Open
    /\ <<index, durable>> # <<[known |-> known, failed |-> failed], tip>>
    /\ index' = [known |-> known, failed |-> failed]
    /\ durable' = tip
    /\ UNCHANGED <<known, failed, tip, rollback, start, goal, phase, store, file,
                   poolVars, history>>

-----------------------------------------------------------------------------
(* The mempool. *)

\* Bug: conflicts in the mempool are not looked for.
KeyImageConflictsUnseen(t) == {}

\* PreChecks: mempool transactions that spend the same key image.
KeyImageConflicts(t) == {u \in mempool : u # t /\ KeyImageOf[u] = KeyImageOf[t]}

\* A new transaction passes VerifyRingInputs and replaces its conflicts.  (One
\* that fails a check, or may not replace, changes nothing.)
AcceptToMemoryPool(t) ==
    /\ Quiet
    /\ t \notin mempool
    /\ KeyImageOf[t] \notin store.set
    /\ mempool' = (mempool \ KeyImageConflicts(t)) \cup {t}
    /\ UNCHANGED <<chainVars, phase, store, file, disconnectpool, history>>

-----------------------------------------------------------------------------
(* VerifyDB. *)

\* The last n blocks of the chain that ends in b, genesis not among them.
LastBlocks(b, n) == {a \in Anc[b] \ {Genesis} : Height(b) - Height(a) < n}

\* nCheckDepth after the adjustment to the height of the chain.
Depth(b, nCheckDepth) ==
    IF nCheckDepth = 0 \/ nCheckDepth > Height(b) - 1 THEN Height(b) - 1 ELSE nCheckDepth

\* The blocks of W level 4 reconnects, in order, on a store from which their
\* buckets were dropped: all below the first one that does not pass.
Reconnected(st, W) ==
    {a \in W : \A c \in W \cap Anc[a] :
        /\ KIs(c) \cap st.set = {}
        /\ NoRepeat(c)
        /\ \A d \in (W \cap Anc[c]) \ {c} : KIs(c) \cap KIs(d) = {}}

\* The images of the blocks of R.
BucketsOf(R) == [h \in Hashes |-> IF h \in R THEN KIs(h) ELSE {}]

\* The store after the blocks of R were connected.
ConnectedStore(st, R) ==
    [set |-> st.set \cup UNION {KIs(a) : a \in R},
     bucket |-> [h \in Hashes |-> st.bucket[h] \cup BucketsOf(R)[h]],
     named |-> st.named \cup {a \in R : KIs(a) # {}}]

\* The files level 3 may leave: one rewrite per block that had a bucket.
DisconnectFiles(n) == UNION {UncommitFiles(file, store, LastBlocks(tip, m)) : m \in 0..n}

\* VerifyDB on the active chain; ok tells whether every check succeeded.  Level
\* 3 disconnects the last blocks on a scratch view of the coins, until the
\* coins cache is full, and level 4 connects them again unless the cache was;
\* but DisconnectBlock and ConnectBlock work on the one key-image store.
VerifyDB(level, depth, ok) ==
    \/ /\ level < 3
       /\ ok
       /\ UNCHANGED <<store, file>>
    \/ \E n \in 0..depth :
       /\ level >= 3
       /\ level = 3 \/ n < depth
       /\ ok
       /\ store' = UncommitBlockKIs(store, LastBlocks(tip, n))
       /\ file' \in DisconnectFiles(n)
    \/ /\ level = 4
       /\ LET W == LastBlocks(tip, depth)
              cut == UncommitBlockKIs(store, W)
              R == Reconnected(cut, W)
          IN /\ ok = (R = W)
             /\ store' = ConnectedStore(cut, R)
             /\ \E f \in DisconnectFiles(depth) :
                    file' \in AppendBlockEntries(f, BucketsOf(R))

\* The verifychain RPC, by default at level 3: the blocks it disconnects and does
\* not connect again are missing in the store until the next start.
VerifyChain(level) ==
    LET depth == Depth(tip, RpcCheckBlocks)
    IN  /\ Quiet
        /\ \E ok \in BOOLEAN : VerifyDB(level, depth, ok)
        /\ walked' = IF level >= 3 /\ phase = "running"
                     THEN walked \cup LastBlocks(tip, depth) ELSE walked
        /\ UNCHANGED <<chainVars, phase, poolVars, restarts, skipped, sound>>

-----------------------------------------------------------------------------
(* Stopping and starting. *)

\* The process stops and its memory is lost.  It may have been between the two
\* halves of a flush, or in the second one: ReplayBlocks completes that one.
Crash ==
    /\ phase # "down"
    /\ phase' = "down"
    /\ LET written == [known |-> known, failed |-> failed]
       IN \/ UNCHANGED <<index, durable, rollback>>
          \/ phase \in Open /\ index' = written /\ UNCHANGED <<durable, rollback>>
          \/ /\ phase \in Open
             /\ index' = written
             /\ durable' = tip
             /\ rollback' = IF durable = NoBlock THEN {} ELSE Anc[durable] \ Anc[tip]
    /\ known' = index'.known
    /\ failed' = index'.failed
    /\ tip' = IF durable' = NoBlock THEN Genesis ELSE durable'
    /\ start' = NoBlock
    /\ goal' = NoBlock
    /\ store' = EmptyStore
    /\ mempool' = {}
    /\ disconnectpool' = {}
    /\ walked' = {}
    /\ UNCHANGED <<file, restarts, skipped, sound>>

\* InitKeyImageStore.
StartUp ==
    /\ phase = "down"
    /\ restarts < MaxRestarts
    /\ phase' = "loaded"
    /\ restarts' = restarts + 1
    /\ \E r \in InitKeyImageStore(file) : store' = r[1] /\ file' = r[2]
    /\ UNCHANGED <<chainVars, poolVars, skipped, sound, walked>>

\* -reindex / -reindex-chainstate: the coins and the key-image file are wiped.
StartUpReindexing ==
    /\ phase = "down"
    /\ restarts < MaxRestarts
    /\ phase' = "loaded"
    /\ restarts' = restarts + 1
    /\ store' = EmptyStore
    /\ file' = NoFile
    /\ tip' = Genesis
    /\ durable' = NoBlock
    /\ rollback' = {}
    /\ UNCHANGED <<known, failed, index, start, goal, poolVars, skipped, sound, walked>>

\* ReplayBlocks: DisconnectBlock on the old branch of an interrupted flush.
ReplayBlocks ==
    /\ phase = "loaded"
    /\ rollback # {}
    /\ rollback' = {}
    /\ store' = UncommitBlockKIs(store, rollback)
    /\ file' \in UncommitFiles(file, store, rollback)
    /\ UNCHANGED <<known, failed, tip, index, durable, start, goal, phase, poolVars, history>>

\* VerifyLoadedChainstate: without SUCCESS the node does not start.
VerifyLoadedChainstate ==
    /\ phase = "loaded"
    /\ rollback = {}
    /\ \E level \in CheckLevels, ok \in BOOLEAN :
        /\ VerifyDB(level, Depth(tip, CheckBlocks), ok)
        /\ phase' = IF ok THEN "checked" ELSE "down"
    /\ UNCHANGED <<chainVars, poolVars, history>>

\* Bug: the prune before ImportBlocks is missing.
PrePruneMissing ==
    /\ phase = "checked"
    /\ phase' = "import"
    /\ UNCHANGED <<chainVars, store, file, poolVars, history>>

\* initload, first step: drop what lies above the durable coins tip, if the
\* coins database has one.
PrePrune ==
    /\ phase = "checked"
    /\ phase' = "import"
    /\ \/ /\ durable = NoBlock
          /\ skipped' = (skipped \/ store.set # {})
          /\ UNCHANGED <<store, file>>
       \/ /\ durable # NoBlock
          /\ LET Keep == Anc[durable] \cup {NullHash}
             IN /\ store' = PruneOrphanedKeyImages(store, Keep)
                /\ file' \in PruneFiles(file, store, Keep)
          /\ skipped' = (skipped \/ store.bucket[NullHash] # {})
    /\ UNCHANGED <<chainVars, poolVars, restarts, sound, walked>>

\* ImportBlocks returns once ActivateBestChain has nothing left to do.
ImportBlocks ==
    /\ phase = "import"
    /\ start = NoBlock
    /\ BestCandidates = {}
    /\ phase' = "heal"
    /\ UNCHANGED <<chainVars, store, file, poolVars, history>>

\* initload, second prune: drop what is not on the active chain, the untagged
\* bucket included.
SelfHeal ==
    /\ phase = "heal"
    /\ start = NoBlock
    /\ phase' = "rebuild"
    /\ store' = PruneOrphanedKeyImages(store, Anc[tip])
    /\ file' \in PruneFiles(file, store, Anc[tip])
    /\ UNCHANGED <<chainVars, poolVars, history>>

\* What the walk of CommitBlockKIs over the active chain, genesis first, adds:
\* a block gets the images that are new when its turn comes.
Missing(st, b) ==
    [h \in Hashes |-> IF h \in Anc[b]
        THEN KIs(h) \ (st.set \cup UNION {KIs(c) : c \in Anc[h] \ {h}})
        ELSE {}]

\* Bug: the walk stops short of the tip.
RebuiltShort(st, b) ==
    [set |-> st.set \cup Held(Missing(st, Parent[b])),
     bucket |-> [h \in Hashes |-> st.bucket[h] \cup Missing(st, Parent[b])[h]],
     named |-> st.named \cup {a \in Anc[b] : KIs(a) # {}}]

Rebuilt(st, b) ==
    [set |-> st.set \cup Held(Missing(st, b)),
     bucket |-> [h \in Hashes |-> st.bucket[h] \cup Missing(st, b)[h]],
     named |-> st.named \cup {a \in Anc[b] : KIs(a) # {}}]

\* initload, rebuild walk.
Rebuild ==
    /\ phase = "rebuild"
    /\ start = NoBlock
    /\ phase' = "running"
    /\ store' = Rebuilt(store, tip)
    /\ file' \in AppendBlockEntries(file, Missing(store, tip))
    /\ sound' = Valid(tip)
    /\ UNCHANGED <<chainVars, poolVars, restarts, skipped, walked>>

-----------------------------------------------------------------------------

StartUpStep ==
    \/ StartUp
    \/ StartUpReindexing
    \/ ReplayBlocks
    \/ VerifyLoadedChainstate
    \/ PrePrune
    \/ ImportBlocks
    \/ SelfHeal
    \/ Rebuild

ChainStep ==
    \/ \E b \in Blocks : ActivateBestChain(b)
    \/ DisconnectTip
    \/ \E b \in Blocks : ConnectTip(b)
    \/ EndStep

Next ==
    \/ StartUpStep
    \/ ChainStep
    \/ \E b \in Blocks : ReceiveBlock(b)
    \/ \E t \in RelayedTxs : AcceptToMemoryPool(t)
    \/ \E level \in RpcCheckLevels : VerifyChain(level)
    \/ Flush
    \/ Crash

Spec == Init /\ [][Next]_vars

\* initload runs to its end, and ActivateBestChain is called for every block
\* that is stored and loops until no better chain is left.
Fairness == WF_vars(StartUpStep) /\ WF_vars(ChainStep)

FairSpec == Spec /\ Fairness

-----------------------------------------------------------------------------
(* Properties. *)

\* g_key_images is the disjoint union of the buckets of g_kis_by_block, after
\* any sequence of commits, uncommits, prunes and loads: no step leaves an image
\* that no bucket would remove.
StoreWellFormed == WellFormed(store)

\* Once initload is done, and however the process was stopped before, the store
\* holds for each block of the active chain what that block has spent, and nothing
\* else; all of it, provided the chain the walk went over repeated no image, except
\* for blocks that verifychain has disconnected in it at level 3 or 4 since.
InSyncWhenRunning ==
    phase = "running" =>
        \A h \in Hashes :
            /\ store.bucket[h] \subseteq IF h \in Anc[tip] THEN KIs(h) ELSE {}
            /\ sound /\ h \in Anc[tip] \ walked => store.bucket[h] = KIs(h)

\* No block of a valid chain is ever marked failed: what the store remembers
\* from before a crash or from another branch never makes a block look like a
\* double spend of itself.
ValidNeverFailed == \A b \in failed : ~Valid(b)

\* The same, unless a start kept images it could not relate to the coins tip: the
\* prune is left out when the coins database is empty, and it spares the
\* untagged bucket.
ValidNeverFailedAfterPrune == skipped \/ ValidNeverFailed

\* "Every confirmed v4 ring spend's key image is committed here": whenever the
\* node can connect a block, the images of the active chain are in the store.
ConfirmedIsCommitted ==
    phase \in Open => UNION {KIs(a) : a \in Anc[tip]} \subseteq store.set

\* "Loads any KIs committed by past sessions": a start reads back the images of
\* every whole entry of the file.
StartLoadsTheFile ==
    \A r \in InitKeyImageStore(file) : r[1].set = Held(file.bucket)

\* "a chain-level double-spend that every fresh-IBD node will rightly reject",
\* with the rebuild walk as its "Root-cause fix": the active chain repeats no
\* image.
ActiveChainIsValid == Valid(tip)

\* No two transactions of the mempool spend the same key image.
MempoolHasNoConflict ==
    \A t, u \in mempool : t # u => KeyImageOf[t] # KeyImageOf[u]

\* A running node whose rebuild walk was over a valid chain never moves to a
\* chain that repeats a key image, unless verifychain has disconnected one of the
\* two blocks that spend it in the store.
RunningKeepsChainValid ==
    (phase = "running" /\ sound) =>
        \A c \in Anc[tip] :
            /\ NoRepeat(c)
            /\ \A d \in Anc[tip] \ {c} : KIs(c) \cap KIs(d) # {} => {c, d} \cap walked # {}

\* No transaction of the mempool spends what the chain has spent already, as far
\* as the store has been left alone.
Spendable ==
    \A t \in mempool : \A b \in Anc[tip] \ walked : KeyImageOf[t] \notin KIs(b)

\* On a running node the mempool stays spendable, through blocks that spend the
\* images of its transactions, replacements, reorganisations and the transactions
\* they bring back: miners and wallets are not offered a spend no block can hold.
\* (What was accepted on an incomplete store during the start is not put out.)
MempoolStaysSpendable ==
    [][phase = "running" /\ phase' = "running" /\ sound /\ Spendable => Spendable']_vars

\* A node that is not stopped any more finishes its start and ends on a chain no
\* valid chain it knows of exceeds.
Recovers ==
    (<>[](phase # "down") /\ []~skipped) =>
        <>[](phase = "running" /\ \A b \in known : Valid(b) => Height(b) <= Height(tip))

=============================================================================
