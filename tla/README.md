# Pricoin: a TLA+ verification project

Pricoin is a Bitcoin Core 31 fork that adds confidential ring-signature
transactions on the PRIC chain and atomic swaps between PRIC and a Bitcoin-like
chain. This directory holds models of the parts of it where correctness depends
on the order of steps, on failures and on restarts: TLA+ modules translated from
the C++ sources, TLC configurations that check them on small instances, and
TLAPS proofs for every size of instance. Paths below are relative to the
repository's `src/` directory unless they say otherwise.

1. [The system](#1-the-system)
2. [Modules and code](#2-modules-and-code)
3. [Runs](#3-runs)
4. [Proofs](#4-proofs)
5. [Where the code and its comments disagree](#5-where-the-code-and-its-comments-disagree)
6. [Assumptions and what is left out](#6-assumptions-and-what-is-left-out)
7. [Inventory](#7-inventory)

## 1. The system

**The chain.** A version-4 transaction spends an output hidden in a ring. It
names no outpoint; what it reveals is a *key image*, the same for every spend of
the same output. "No double spend" therefore means "no key image twice on one
chain". The node keeps the images of the active chain in a global store
(`pricoin/validation.cpp`): a set, a table from block hash to the images that
block added, and the file `pricoin_keyimages.dat`. The file is written on every
block, the coins database lazily, and `init.cpp` brings the two together at
startup. The mempool finds conflicts by key image as well.

**The wallet's nonce records.** Joint signatures are made in rounds with nonces.
A nonce that signs two messages reveals the private key, so the wallet keeps one
durable record per signing slot, for joint CLSAG signatures
(`wallet/pricoin_clsag_nonce_records.cpp`) and for MuSig2 signatures on the
Bitcoin side (`wallet/pricoin_btc_musig2_nonce_records.cpp`). A pure policy
function says whether a new commitment may replace the one on record. The MuSig2
secret nonces themselves wait in a process-wide stash under a handle
(`swap/btc_musig2_runtime.cpp`).

**The swap.** Alice has PRIC and wants the foreign coin, Bob the reverse. Bob
knows a secret t with image T. All refunds and claims are pre-signed before
anything is funded; Bob's claim of the PRIC output reveals t, with which Alice
completes hers. Each wallet keeps a record per swap
(`wallet/pricoin_adaptor_swap.cpp`) that walks through Setup, AdaptorReady,
PreSigned, BtcFunded, BothFunded, PricClaimed, Complete, or ends in Refunded or
Aborted. The wallet's transaction scan (`wallet/wallet.cpp`) and RPCs
(`wallet/rpc/pricoin_ct.cpp`) drive it. In the background a chain watcher
(`wallet/pricoin_chain_watcher.cpp`) asks both chains about transactions it was
told of, moves the record on when they confirm, looks for spends nobody
reported, and broadcasts refunds that are due.

**Orders.** Before a swap there are two orders, an ask and a bid, kept in a book
(`wallet/pricoin_offer.cpp`). A match reserves the same amount in both; filling
consumes it, releasing gives it back. The order book page starts a swap from a
match and links the orders to it, and when the swap ends the watcher settles the
orders: at once in a hook, and once more in a pass at the end of each tick.

**The wallet's confidential outputs.** Which outputs pay the wallet is found by
trying every output of every block. An index (`wallet/rpc/pricoin_ct.cpp`) holds
what was found and the block scanned last; listings, balances and coin selection
bring it up to the tip first. It is saved with the wallet.

The record modules and the order book share a shape: one mutex, a cache filled from the
wallet database on first use, encryption with the wallet key (so nothing works
while the wallet is locked), and a row write that may fail after the cache was
changed, in which case the change is taken back. What they promise must hold
over any sequence of calls, failures, locks and restarts.

## 2. Modules and code

| module | models | kind |
|---|---|---|
| `ClsagNonceRecords` | CLSAG nonce policy, its wallet tier, `round1_safe` | state machine, implements `NonceSlots` |
| `Musig2NonceRecords` | MuSig2 nonce policy, wallet tier, stash, five RPCs | state machine, implements `NonceSlots` |
| `NonceSlots` | what both nonce tiers promise of a slot | abstract specification |
| `KeyImageStore` | the key-image store and its file | functions on values |
| `KeyImageNode` | chain activation, startup, mempool, `VerifyDB` around the store | state machine |
| `AdaptorSwapRecord` | the swap record and every call on it | relations on values |
| `AdaptorSwap` | what the wallet promises of a swap record | abstract specification |
| `AdaptorSwapStore` | cache, rows, lock, restarts, the two multi-call users | state machine, implements `AdaptorSwap` |
| `OfferBook` | an order and every call on a book of orders | functions on values |
| `OfferStore` | cache, rows, lock, expiry, restarts of the book | state machine |
| `ChainWatcher` | the poll thread, watch entries, automatic refunds, both chains | state machine over `AdaptorSwapRecord` |
| `OrderSettlement` | how orders follow the end of a swap: hook, pass, order book page | state machine over `OfferBook` |
| `RecoveryIndex` | the index of confidential outputs | state machine |
| `MC*` | instances for TLC | |
| `*_proofs` | theorems | |

`PROJECT.json` maps every definition to the lines it stands for. Definitions
whose comment starts with "Bug:" are wrong variants of the one that follows; no
specification uses them. Put in the place of the right one, each makes TLC find a
violation of the property `PROJECT.json` pairs it with.

### ClsagNonceRecords

`db` is the row of each slot and `mem`, `loaded` the cache of
`WalletCache`; `unlocked` is the wallet's lock; `drawn` the nonces `NonceGen` has
produced. `live` and `signers` are history: the nonces a slot has handed out
since it was last free or resolved, and the sessions it has served since it was
last erased. `Round1Safe` is the whole RPC handler: lock check, load, `EvaluateCreate`
(the policy, clause by clause), the write and its rollback, and only then the
nonce is handed out. `CrashInBegin` stops after the row is written and before
the caller sees anything. `MarkTPublished`, `Erase`, `LoadFromDB`, `LoadFails`,
`ToggleLock` and `Restart` are the other entry points. A load that fails half-way
leaves the rows read so far in a cache that is not marked loaded.

### Musig2NonceRecords

The same tier with one more field, `agg`: the aggregate nonce a slot is bound
to. `stash` maps handles to secret nonces, `calls` holds the `partial_sign` calls
that have taken a handle and not bound it yet: `Take` and
`BindAggNonceAndCheck` are separate critical sections, so any other call may run
between `TakeHandle` and `FinishPartialSign`. The nonce is derived, so two
handles may hold the same one. `ResetList` and `ResetErase` split `nonce_reset`
at the point where it lets go of the mutex. `released` (nonces that left the
wallet) and `signed` (aggregates signed over) are history; both restart when the
slot's record is finalized or erased, because from then on the code promises
nothing about it. A signature counts from the moment the binding is accepted.

### NonceSlots

The promise of both tiers: `used` has for each slot the values in use, `Use` takes
one that is there already or comes into an empty slot, `Close` empties it. Each tier
implements it twice (`Implements`): `ClsagNonceRecords` with the nonces handed out
(`live`) and the sessions served (`signers`), `Musig2NonceRecords` with the nonces
released and the aggregates signed over. What closes a slot differs: `MarkTPublished`
and `Erase` for a CLSAG nonce, `Erase` alone for a session, `MarkFinalized` and
`Erase` on the MuSig2 side. Cache, failing writes, lock, restarts and calls in
flight are not to be seen there.

### KeyImageStore and KeyImageNode

`KeyImageStore` has no variables. A *store* is the in-memory set, the table and
the hashes the table has an entry for; a *file* is what a later load makes of
it: its format, its whole entries, and whether a torn entry hides what follows.
Every operator that writes the file gives the set of files the write may leave,
because the code looks at no result of `fopen`, `fwrite` or `rename`.

`KeyImageNode` puts the store into a node. `phase` follows the start:

    down -> loaded -> checked -> import -> heal -> rebuild -> running

which are `InitKeyImageStore`, `ReplayBlocks` + `VerifyLoadedChainstate`, the
first prune of `initload`, `ImportBlocks`, the second prune, and the walk that
re-adds what is missing. From `import` on, peers and RPC threads get `cs_main`
between the steps of `initload`; that is the set `Open`. `ActivateBestChain` picks
a goal; `DisconnectTip`, `ConnectTip` and `EndStep` then run under `cs_main`
(`start` and `goal` say so) until the goal is reached or found invalid, and a
crash may come between any two of them. `index` and `durable` are the block index
and the coins tip as last flushed; `rollback` is the branch a half-finished flush
leaves to `ReplayBlocks`. `VerifyDB` is modelled with its side effect: its blocks
are disconnected on a scratch view of the coins, but from the one key-image
store. `skipped`, `sound` and `walked` are history: some start could not prune, the
chain of the last rebuild walk was valid, and these blocks were disconnected in the
store of the running node by `verifychain` at level 3, its default, or 4.

### AdaptorSwapRecord, AdaptorSwap, AdaptorSwapStore

`AdaptorSwapRecord` gives the record and each call as a relation `Call(s, r)`
between the record before and after: the source states the call accepts, its
other checks in the code's order, and what it assigns, wiping of t and session
data included. Write-once fields (outpoints, transactions, rings, peer keys) are
one table `once`; session blobs are a set of those present (`scratch`).

`AdaptorSwap` is the promise: one record, changed by one whole accepted call at a
time. `AdaptorSwapStore` is what the wallet has: `db`, `mem`, `loaded`,
`unlocked`, and the two callers that make several calls without holding the
mutex, the transaction scan (`scan`: matched, t stored, claim recorded) and the
extraction RPC (`extracting`). `Implements == Abstract!Spec` with `swap <- db`
says the difference cannot be seen in the row.

### OfferBook and OfferStore

`OfferBook` gives a call as the set of books it may lead to, empty when it
refuses: `Create`, `Import`, `ApplyImportedUpdate`, `Cancel`, `Match`, `Fill`,
`Unmatch`, `LinkSwap`, `FillFromLinkedSwap` and the sweep of expired orders. An
order has what it was made with (`max`), what is left (`remaining`), what is
reserved (`in_flight`), its partner and its swap. `OfferStore` puts the book
between `mem` and `rows`. Calls on a matched pair write two rows; `Persist` lets
the first or the second write fail (the cache is restored, the first row is
not) or the process end in between. `mutual` is history: no such write, and no
call on one order of a pair alone, has happened yet.

### ChainWatcher

`watch` has for each kind the entry, which is a transaction and the confirmations it
asks for; `chain` says of every transaction whether it is absent, in a mempool or
confirmed, `due` that the refund height has come, `legs` which funding and refund the
record names, `args` which of `-pricoinautorefund` and `-pricoinltcrefundaddr` are set,
and `attempted` is the in-memory set of refunds tried. `job` is the position of the tick:
list the entries, ask about one, make the call on the record, remove the entry, look
for an unreported spend, broadcast a refund, register it. Each of these is a step,
since no lock spans two of them.

An entry comes from three places. The wallet's own claims broadcast and add theirs
(`AdaptPricClaim`, `AdaptForeignClaim`, with the threshold the user gives). The
watcher adds those of the spends it finds and of its refunds. And
`pricoin_swapwatch_add`, called by the user or for a peer's announcement, adds any kind
with any transaction and any threshold (`Register`); `Strays` are transactions that
have nothing to do with the swap. `Notify` is `pricoin_swapwatch_notify` and every other
call that records a step by hand, the early `SetRefunded` of the recovery RPC
(`wallet/rpc/pricoin_ct.cpp:9019`) included; it asks no chain. `Unregister` is
`pricoin_swapwatch_remove`. `misled` is history: the kinds for which an entry was
reported with a transaction that is not of that kind, or with a threshold of zero,
or a confirmation that had not happened.

The calls on the record are those of `AdaptorSwapRecord`, and `Record` is the abstract
machine `AdaptorSwap` on the watcher's `swap`: `MovedByCalls` says that a step of the
watcher is one of that machine, or the two calls of the scan in one. Until `calm` holds
a call may find the wallet locked or its write failing, a question may find no backend,
and the process may end.

### OrderSettlement

`book` and `swaps` are the orders and the swaps, `tick` the position of the watcher
with the lists it has read. `HandleEntry` ends a swap, `HookList` and `HookSettle`
are the hook, `ReconcileOrders`, `ReconcileSwaps` and `Reconcile` the pass with its
paths (a), by amount, and (b), by link. Between any two of them the page matches,
starts swaps, releases and cancels, and swaps end where no hook runs. `started` is
history: the swaps that were started from the match an order is in, which the code
itself does not know when the link is missing or stale.

### RecoveryIndex

`SyncBegin`, `SyncCheck` and `SyncScan` are `SyncRecoveryIndexLocked`, cut where it
asks the chain, since `cs_main` is taken for each question anew: load the saved
index and read the height of the tip; compare the block scanned last with the
chain and build the subaddress lookup; walk one block further. The mutex of the
index is held throughout (`sync`). `SetSeed` and `DropCTRecoveryCache` replace the
identity and drop the index, `GetOrCreate` brings the identity back, `ChainMoves`
extends, reorganises or cuts the chain, and `AssertFails` is the assertion in
`getBlockHash` that ends the process when the chain was cut below the height asked
for. A block in `Unreadable` may come back from `findBlock` without its transactions,
and is then scanned as if it had none. Two fields of an index are history: `intact`
says that every block was scanned as the child of the one before, for the seed on
record, and `unread` has the blocks that were scanned without their data.

## 3. Runs

Passing runs (TLC explores the instance completely):

| run | instance | checks |
|---|---|---|
| `clsag_nonce_records` | 2 slots, 2 sessions, 4 nonces; 862 states up to symmetry | a slot has one nonce in use and one session; what was handed out is on disk; cache = rows; implements `NonceSlots` |
| `musig2_nonce_records` | 2 slots, 2 nonces, 2 aggregates, 2 handles, rows of an older build; 37,816 states up to symmetry | a slot signs over one aggregate while its record is open; bound before signed; committed before released; cache = rows; implements `NonceSlots` |
| `keyimage_restart` | 4 blocks, 2 branches, a double spend, 2 starts, `-checklevel` 3 and 4, 2 relayed transactions with one image, `verifychain` at levels 2 and 3; 730,193 states | the store is well formed; a node that has finished its start has the images of its chain and no others, and keeps its chain valid, as far as `verifychain` has not walked the blocks; no valid block is marked failed if the prune was possible; no two spends of one image in the mempool, and none of what the chain has spent |
| `keyimage_recovery` | 4 blocks, 2 starts, fairness; 277,820 states | a node that stays up finishes its start and reaches the best valid chain it knows |
| `adaptor_swap` | one swap, both roles, a cooperative (`btc`) and an HTLC (`ltc`) chain, 2 secrets, heights 0..2; 257,860 states up to symmetry | a funded swap can be refunded or claimed from its row; Bob's t survives until the claim; states only go forward; what was signed over is fixed; cache = row; the store implements `AdaptorSwap` |
| `offer_store` | our ask, two bids, amounts 1 and 2, one fault, one clock tick; 152,808 states | reservations are covered; matches are mutual while no pair was half-written; settled orders stay settled and nothing grows while the wallet runs |
| `chain_watcher` | Alice's side, Bob's with an HTLC and with a presigned refund, two fees, auto-refund on and off, one report or removal by hand; 678,090 states | a record settles only on a confirmed transaction of that kind, and Bob's t is there until the claim is confirmed, unless that very step was reported wrongly; the record is changed by calls that `AdaptorSwap` accepts; in the calm, confirmations with an entry are recorded, unreported spends noticed and due refunds broadcast |
| `order_settlement` | an ask and a bid, 2 swaps, amounts 1 and 2; 248,946 states | nothing is consumed before a swap completes; a completed swap reaches the orders linked to it; a match does not outlive the swaps started from it |
| `ct_recovery` | 5 blocks, 2 branches with a shared transaction, 2 seeds, a block whose data is gone, at most 2 saved entries; 1,168,710 states | an `intact` index holds exactly what its chain holds for its seed, blocks without data excepted; once the chain rests, one call takes it to the tip and it stays there |

Of the type invariants only that of the key-image node is checked by a run; the
others are proved (section 4).

Runs that show a disagreement between the code and what it says of itself
(section 5): `btc_refund`, `order_double_fill`, `ct_recovery_gap`.

More configurations are kept beside the runs and are not listed in
`PROJECT.json`. Three pass: `KeyImageMempool.cfg`, a larger tree for the mempool, with
a block that repeats an image within itself (1,703,564 states); `KeyImageWide.cfg`, the
questions of `keyimage_restart` on a tree with one more block (4,617,550 states); and
`ChainWatcherWide.cfg`, the safety properties of the watcher with two reports out of
six kinds of wrong and right entries, and any removal (19,580,260 states, twelve minutes).
The others each show a further disagreement (section 5): `KeyImageVerifyChain.cfg`,
`KeyImageDoubleSpend.cfg`, `KeyImageUnpruned.cfg`, `KeyImageMagic.cfg`,
`Musig2Reset.cfg`, `AdaptorSwapHint.cfg`, `AdaptorSwapMargin.cfg`, `OfferShrink.cfg`,
`OrderByAmount.cfg`, `OrderStaleLink.cfg`, `RecoveryReorg.cfg`, `RecoveryLimit.cfg`.

**Bounds and why they are enough.**

- *Nonce records.* Slots do not interact except through the shared cache and a
  load that stops between two rows, so two slots suffice for both. Two sessions,
  and one nonce more than a slot can hold through a resolve and a re-begin, let
  every clause of the policy decide both ways. Two handles are what two racing
  `partial_sign` calls need. No counter is bounded: histories are sets.
- *Key images.* The tree of `MCKeyImageNode` has two branches that carry the same
  transaction in different blocks (the case in which a bucket must hand an image
  over), a branch long enough to cause a reorganisation, and a block that spends
  an image its ancestor spent. `MaxRestarts` bounds the starts: two are needed
  for a start to read what an interrupted start left; the run that skips the
  prune needs three. `LongRawFile` admits that a file without its magic has grown
  to eleven entries, from where some images are recognised again; it stands for
  a longer chain than the instance has. `CheckBlocks = 6` is the default and
  covers the whole tree, as the default does for a young chain; `RpcCheckBlocks = 1`
  lets `verifychain` walk one block and leave another alone.
- *Adaptor swap.* Records are independent, so there is one. Two contents are
  offered where a second one has to be refused, one where only presence matters.
  Heights 0..2 contain the zero, the margin at its minimum and below it. Secrets
  are interchangeable (symmetry), all other constants are told apart.

- *Orders.* A pair and a third order that may take the place of one of its two;
  amounts that leave something, nothing or dust. `MaxFaults` counts writes that
  fail or stop half-way, `MaxNow` ticks of the clock that let one order expire.
- *Watcher.* One swap: entries of different swaps do not touch each other's
  records. Two fees make a replaced refund possible. `MCRank` has a claim come up
  before the funding it spends. Signing sessions are left out (`Scratch`): the
  ceremonies are over. `MaxReports` bounds the calls made by hand (reports, removals,
  claims without a threshold): one is enough to mislead the watcher about a step, and
  `Reports` and `Removals` have for each party the ones that touch the step it waits
  for. `ChainWatcherWide.cfg` has two of any.
- *Settlement.* Two swaps of two amounts, so that an order can be matched again
  for the amount of an older swap, or for another one.
- *Output index.* One output is created on both branches at different heights,
  one belongs to a branch, one to the other seed, one to a subaddress beyond the
  first lookup. `MaxEntries` is at what a chain of the instance can hold, so that
  the bound of the loader is reached; `RecoveryLimit.cfg` goes beyond it.

**Deadlock** is checked in the record models, the order book, the watcher and the
output index: some step is always possible. `order_settlement` switches it off: once
every order is settled and no swap is left, a pass has nothing to look at. The key-image runs switch it
off as well: with `MaxRestarts` used up a stopped node stays
down, and a node that knows every block has nothing to do.

**Fairness.** `keyimage_recovery` assumes weak fairness of `StartUpStep` and of
`ChainStep`. The first says that `AppInitMain` and the `initload` thread go on
as long as the process runs (they wait for nothing but `cs_main`, which every
holder releases); the second that `ActivateBestChain` runs for every stored block
and loops until no better candidate is left, as its `do ... while` does. Nothing
is assumed of peers, flushes, `verifychain` or crashes. `Recovers` is conditional
on crashes ending and on every start having been able to prune; without the
second condition the code does not recover (`KeyImageUnpruned.cfg`).

`ChainWatcher` and `OrderSettlement` assume weak fairness of the steps of the tick:
the poll thread loops until shutdown. Nothing is assumed of chains, users or RPC
calls. The liveness properties of the watcher begin in the calm: a backend that
never answers, or a wallet that stays locked, makes no progress in the code.

`RecoveryIndex` assumes that a call that holds the mutex goes on, and not that
anybody makes another: the interface asks for the balance when the tip has changed
(`qt/walletmodel.cpp:106`) and is otherwise silent. `CatchesUp` therefore speaks
of one call.

## 4. Proofs

The theorems hold for all values of the constants that satisfy the named
assumptions, which only say that "no record", "no value" and the like differ from
real values (`NoRecordIsNotARecord`, `Distinguished`), that amounts and heights are
numbers, and that the blocks form a tree (`BlockTree`: the ancestors of a block
are linearly ordered and contain theirs). TLC evaluates them in the runs. One
theorem, about the output index, has a hypothesis of its own, given below.

**`ClsagNonceRecords_proofs`.** `NonceInv` = types, cache = rows,
`HandedOutIsDurable`, and `SignersAreInTheRow` (the sessions a slot has served
are the one its row names). The uniqueness properties are not inductive: that a
set has at most one element says nothing about which one, and the policy decides
by comparing with the row. The invariant therefore ties both histories to the
row, and the row to the cache the policy really reads. From it follow
`TypeCorrect`, `CacheCoherence`, `PersistBeforeRelease`, `NonceUniqueness`,
`SessionUniqueness`, and `Refinement` (`Spec => Implements`). For the last one
`StepUses` shows that every step uses a value in one slot, closes one slot or leaves
the histories alone; a call that is accepted comes first in its slot
(`BeginOkIsFirst`), which again needs the row behind the cache.

**`Musig2NonceRecords_proofs`.** `BindInv` = types, cache = rows, `SignedIsBound`,
`ReleasedIsCommitted`, and `FinalizedIsClear`: a finalized slot has no nonce out
and nothing signed that still counts. The last one is needed because the policy
lets another nonce into a slot as soon as it is finalized, and the new record
starts unbound. Handles and calls in flight need no clause of their own: the
binding is checked against the row when the call finishes, not when it takes its
handle, so nothing that happens in between matters. Theorems: `TypeCorrect`,
`CacheCoherence`, `CommitBeforeRelease`, `BindBeforeSign`, `AggregateUniqueness`, and
`Refinement`: a nonce that is released again is the one the row commits to
(`CommittedIsReleased`), an aggregate that is accepted is the one signed before or
the first (`BoundIsSigned`).

**`AdaptorSwapRecord_proofs`** proves what one accepted call does to the record
alone: `CallSound`, with one step per call, and `RecoverSound` for a recovered t.
`RecordInv` strengthens `FundedIsRefundable` and `SecretKept`:

- heights are valid and T is set from AdaptorReady on, and pre-signatures are
  complete from PreSigned on, not only once something is funded, because later
  calls do not look at them again;
- before PreSigned there are no pre-signatures, so that storing them changes
  nothing that was signed (`WriteOnce`) and no extraction can run earlier;
- Bob has t as soon as T is set, in Setup too: materials and heights come in
  either order, and whichever comes second moves the state;
- Alice has no t before the pre-signatures exist.

Store and watcher both rest on these lemmas.

**`AdaptorSwap_proofs`.** The store has to show that the row it writes comes from the
row it read (`StepIsCall`), which is where cache = row is used. `Inv` adds to
`RecordInv` that a scan or an extraction in progress implies pre-signatures in the
row; both read the row in one call and write in another, and nothing in between
removes pre-signatures. Theorems: `TypeCorrect`, `CacheCoherence`, `FundsSafety`,
`SecretDurability`, `NoReturn`, `SignedOverIsFixed`, and `Refinement`
(`Spec => Abstract!Spec`: every step changes the row by one accepted call or not
at all).

**`KeyImageNode_proofs`.** `NodeInv` says that store and file are each a disjoint
union of buckets that hold no image their block does not have, whatever was
appended, cut, pruned or loaded; that from the prune on, where it was possible,
non-empty buckets belong to the active chain; that a failed block, in memory or
on disk, is invalid unless a prune was skipped; and that the mempool has one spend
per image. `StoreWellFormed` alone is not inductive: a load makes a store of a
file, so the file has to be as good. Theorems: `TypeCorrect`,
`StoreStaysWellFormed`, `MempoolStaysConflictFree`, `FailedIsInvalid`, and, from
`SyncInv`, `StoreMirrorsChain`, `RunningChainIsValid` and `MempoolSpendable`, for
`verifychain` at every level and depth. `SyncInv` says that after the rebuild walk the
buckets of all blocks but the `walked` ones mirror the chain, and that the chain repeats
no image but those of `walked` blocks; the two need each other, since a block is checked
against the store and the store is filled from blocks.

**`OfferBook_proofs`** has one lemma per call: the book stays typed and its
accounts covered, settled orders stay settled, nothing grows. For `OfferStore` this
is lifted to rows and cache: both are made of books some call has produced, so
writes that fail need no case of their own (`TypeCorrect`, `AccountsAddUp`,
`NoReopening`, `NoRefill`). `MatchesInPairs` needs `PairsInv`: rows and cache agree
about matched orders, and a call on a pair takes both out of it or puts both in. For
`OrderSettlement`, `SettlementInv` says that the list of swap states the pass works on
may be old, but a swap it shows as complete is complete (`SettlementTypeCorrect`,
`ConsumesForSwapsOnly`). A call that settles one order through its amount is covered:
nothing is assumed of which swap the order was matched for.

**`ChainWatcher_proofs`.** `WatcherInv`: every entry, in the table, in the list of the
tick and in hand, is `Trusted`, that is, it names a transaction of its kind and asks for
a confirmation, or its kind is in `misled`; what is about to be applied on such an
entry has been seen confirmed; the record names the swap's funding output unless a
report of the funding misled it; and the record satisfies `RecordInv`. `SettledOnChain`
and `SecretOutlivesClaim` are not inductive without these, because report, question and
call are different steps, and because a spend that the watcher finds by itself is the
spend of the output the record names. `Reports`, `Removals` and their number are
arbitrary here. The last clause composes the watcher with the record: `StepMoves` shows
that every step makes calls of the record or leaves it alone, and what
`AdaptorSwapRecord_proofs` says of a call is then true of the step. Theorems:
`TypeCorrect`, `SettlesOnConfirmation`, `SecretSafety`, `WatcherMakesCalls`
(`MovedByCalls`), `WatcherUndoesNothing` (no state goes back, nothing signed over is
replaced) and `WatchedRecordIsSound` (`[]RecordInv(swap)`: a swap that the watcher moves
is still refundable).

**`RecoveryIndex_proofs`.** First the block tree: a chain has exactly one block at each
height up to its tip (`BlockAtHeight`, `OneBlockPerHeight`), by counting its blocks, so
`getBlockHash` returns a block and the right one. `PlaceInv`: an index stands at the
block it names, in memory and on file, and a process that has not tried to load has
an empty one. `ExactInv` adds to `IndexIsExact` that the saved index is exact for the
seed on record, and that the lookup a walk reads with belongs to that seed and
reaches at least the gap limit; the walk then extends an exact index of a block to one of
its child, with or without the child's data (`ScannedExact`). Theorems:

- `TypeCorrect`;
- `IndexExact`, under `WithinLimit`: no chain holds more outputs for one seed than
  `DeserializeRecoveryIndex` accepts (a million in the code). Beyond that it is false
  (`RecoveryLimit.cfg`);
- `IndexStaysAtTip`: an index at the tip of a chain at rest is left alone;
- `WalkReachesTip` (`Advances`): in a chain at rest, each step of a call under way goes
  on to the walk, scans the next block or leaves the index at the tip; only a locked
  wallet ends the call before, and no other step takes it back. With
  `IndexStaysAtTip` this is `CatchesUp` without the fairness argument.

**Only model-checked:** liveness (`Recovers`, `ConfirmationIsRecorded`,
`SpendIsNoticed`, `RefundReachesChain`, `CompletionReachesOrder`,
`EndedSwapFreesOrder`, `CatchesUp`), since fairness and ENABLED are out of the
prover's reach. Every invariant and every action property of a passing run is the
statement of a theorem, with the hypotheses named above.

## 5. Where the code and its comments disagree

Shown by a run; `PROJECT.json` quotes the sentence with its place:

- `btc_refund`: the sweep of BTC refunds selects a swap of which only the BTC leg was
  funded, and the helper it calls refuses that state at every tick; the refund
  is never broadcast.
- `order_double_fill`: when one order of a pair is linked, the pass may fill both
  through the other one and then fill the linked one again from its old list.
- `ct_recovery_gap`: `findBlock` answers true for a block whose data cannot be read, so
  the branch that should stop the walk there is never taken; the block is scanned as
  empty and the index moves past it for good.

Shown by a configuration that is kept without a run:

- `KeyImageVerifyChain.cfg`: `verifychain` at level 3 (and `VerifyDB` at startup at
  the default level) disconnects blocks from a scratch coins view but from the live
  key-image store, and does not put them back. At startup the later rebuild walk
  repairs it; a running node stays without them until the next start.
  `InSyncWhenRunning` bounds the damage: only `walked` blocks are affected.
- `KeyImageDoubleSpend.cfg`: between that loss and the rebuild walk, `ImportBlocks`
  and peers get blocks connected, and a repeated image is accepted
  (`init.cpp:2351`; the comment at 2382-2383 says otherwise).
- `KeyImageUnpruned.cfg`: with an empty coins database the prune before `ImportBlocks`
  is skipped, and blocks the stopped process had committed look like double
  spends of themselves; they are marked failed.
- `KeyImageMagic.cfg`: the first append creates the file without its magic, so the
  next start parses it in the old format.
- `Musig2Reset.cfg`: `nonce_reset` decides by a list taken before its loop; a record
  finalized in between is erased although only non-finalized ones should be.
- `AdaptorSwapHint.cfg`: `NextActionHint` still names the order in which funding came
  before the pre-signatures; the calls it names are refused.
- `AdaptorSwapMargin.cfg`: `swap/refund.h:27`, `doc/adaptor-clsag.md:962` and the RPC's
  error text (`wallet/rpc/pricoin_ct.cpp:5329`) ask for
  T_foreign_refund > T_pric_refund + delta. `ValidateRefundTimelocks` refuses only
  foreign - pric < delta (`swap/refund.cpp:35`; `refund.h:82` describes it so), and
  heights exactly delta apart are funded. `FundedIsRefundable` has the margin the code
  enforces, `MarginIsStrict` the one the documents ask for.
- `OfferShrink.cfg`: `wallet/pricoin_offer.h:333-334` says a shrink leaves
  `pric_in_flight_sat` alone and an active match unaffected. `ApplyImportedUpdate` cuts
  the reservation to what is left (`pricoin_offer.cpp:540-542`), after which `Fill`
  refuses the pair. `ReservedIsCovered` holds because of the cut;
  `ShrinkKeepsReservation` is the header's sentence.
- `OrderByAmount.cfg`: `wallet/pricoin_chain_watcher.h:327-329` says an order is settled
  for its linked swap. The hook and path (a) take any ended swap of the same amount, so
  that a match whose own swap is live is filled or released for an older one
  (`LiveSwapKeepsMatch`). `EndedSwapFreesOrder` asks nothing of such a match.
- `OrderStaleLink.cfg`: a stale link is not "cleared on re-match or cancel"
  (`wallet/pricoin_chain_watcher.cpp:801-802`); `Match` and `Cancel` leave it, and it
  keeps the link of the next swap out.
- `RecoveryReorg.cfg`: a reorganisation while the walk is between two blocks leaves the
  new branch's earlier blocks unscanned; the hash check passes from then on.
- `RecoveryLimit.cfg`: a saved index with too many entries is refused after its height
  and hash were taken over, so the walk goes on from there with no entries; the
  comment at `wallet/rpc/pricoin_ct.cpp:957-959` promises a rebuild from genesis.

Met while reading the code, and checked by no configuration:

- The state diagram in `wallet/pricoin_adaptor_swap.h:65-85` has the old order;
  `pricoin/clsag_nonce_policy.h:43-45` allows a fresh session after publication,
  which `EvaluateCreate` refuses until the record is erased.
- An order linked to a completed swap larger than what it has left stays as it is.
- The two-row calls of the order book leave the first row when the second write
  fails, where the comment speaks of rolling back. An expired order whose write
  failed is not retried by the next sweep.
- An entry is dropped also when the wallet was locked or the confirmation came too
  early for the record's state (compare `pricoin_chain_watcher.h:285-287`). A process
  that ends between a broadcast and the registration leaves that refund unwatched.
  Bob's own refund, found as a spend of his output, completes the swap (compare
  `pricoin_adaptor_swap.h:80`).
- The subaddress lookup is built once per sync: a payment beyond the ceiling the sync
  began with is not found, though an earlier block of the same walk raised the
  ceiling, and no later sync looks at its block again (compare
  `pricoin_ct.cpp:1026-1028`). A first sync with the wallet locked is not followed by
  a second attempt to load the saved index, only by a full scan.
- `Attach` of a swap session looks for a duplicate only in a cache that is already
  loaded, and lets go of the mutex before it writes
  (`pricoin_swap_session.cpp:230-262`): as the first call after a start it replaces a
  stored session of the same id instead of answering `DuplicateSessionId`.
- A broadcast key image whose row could not be written is not written by a repeated
  `Add` of the same pair, which returns early (`pricoin_broadcasted_kis.cpp:57-80`).

## 6. Assumptions and what is left out

*Everywhere.* Cryptography is assumed to do what it is used for: a decryption that
fails is an input, a block's ring signatures and range proofs are right, and
extraction yields the t behind T (`Extract` verifies this before it returns).
Messages, names and blobs are reduced to identity or presence.

*Nonce records.* A CLSAG nonce is fresh randomness (`drawn`), a MuSig2 nonce is
derived and may repeat. Plain `round1`, which makes no record, and rows that no
longer parse are left out of the MuSig2 model. One `nonce_reset` runs at a time.
Storing the row and stashing the secret nonce are one step, since no handle is
known before both are done; `CrashInRound1` stops between them. What a slot signed
before its record was finalized or erased is not held against what it signs
later.

*Key images.* Chains are ordered by length. The first prune is the first user of
`cs_main` after `VerifyLoadedChainstate`. Bytes that the old-format parser or a torn
entry turns into points nobody spends with are ignored; an entry cut before its
first image counts as cut in its head. Removing the file under `-reindex`
succeeds. Failure marks and the block index become durable at a flush only, and a
flush may stop between index and coins or within the coins. `ReplayBlocks` is
modelled for its effect on the store, not on coins. After a reorganisation policy
may re-admit any subset of what passes the key-image checks. The early end of
`ActivateBestChainStep`, when it already has more work than before, is merged with
the next step, which takes the same direction. Coins, scripts, headers, pruning of
block files, fees and package limits are not modelled.

*Adaptor swap.* One record: no call looks at another. Rows of older layouts, which
loading drops or back-fills, are left out. Bob's t is taken to be the one behind
the T he supplies (the RPC does not compare them). The values of r and of the
signing sessions are reduced to presence. The three setters of unsigned
transactions, which have the same body, are one operator. Whether a funding is on
the chain is the caller's word, as it is in this module of the code.

*Orders.* An imported update was signed by the order's maker. Prices are compared
as cross products of the amounts, as the code does. `MatchIsMutual` ends with the
first half-written pair or one-sided call (`mutual`); the code makes no promise
after that.

*Watcher.* Confirmed stays confirmed: reorganisations that undo a confirmation are
left out, as are a second ticker (`TickOnceManaged`) beside the poll thread and
broadcasts of refunds by hand. A backend answers rightly or not at all. The claim of the
foreign output needs the t that the PRIC claim shows. Thresholds above one are taken as
one: "confirmed" stands for as many confirmations as the entry asks for. A wrong report
is held against its own kind only, and a wrong funding also against the claim found by
the watcher, which spends the output the record names. `ConfirmationIsRecorded` speaks of
swaps that have an entry: Alice's wallet has one for Bob's claim only if somebody
registered it, and the scan that would otherwise record it does not come back to a
transaction it has passed over.

*Settlement.* The button that marks an order filled by hand, expiry, a locked
wallet and failing writes are left out; the last three are in `OfferStore`.
Aborted and Refunded swaps are treated alike, as the watcher does. Imported orders do
not shrink here, so that a match and its swap have one amount.

*Output index.* `IndexIsExact` is conditional on `intact`: an index walked across a
reorganisation is not exact (`RecoveryReorg.cfg`), nor is one loaded after the
process ended between a new seed and the erasure of the saved index. It excepts
the blocks of `unread` (`ct_recovery_gap`) and speaks of outputs at subaddresses the
first lookup covers. Values, key images and the
spentness of an output are not part of the index here.

## 7. Inventory

| part | sources | status |
|---|---|---|
| CLSAG nonce records | `pricoin/clsag_nonce_policy`, `wallet/pricoin_clsag_nonce_records` | modelled, proved, refinement |
| MuSig2 nonce records and stash | `pricoin/btc_musig2_nonce_policy`, `wallet/pricoin_btc_musig2_nonce_records`, `swap/btc_musig2_runtime` | modelled, proved, refinement |
| key-image store | `pricoin/validation` | modelled, proved |
| chain activation, startup, `VerifyDB` | `validation`, `init`, `node/chainstate`, `rpc/blockchain` | as far as key images go, proved |
| mempool conflicts by key image | `txmempool`, `validation` | as far as key images go, proved |
| adaptor swap record | `wallet/pricoin_adaptor_swap` | modelled, proved, refinement |
| refund scheduling rules | `swap/refund` | the timelock rule |
| offers | `wallet/pricoin_offer` | modelled, proved |
| chain watcher, automatic refunds | `wallet/pricoin_chain_watcher`, `wallet/pricoin_swap_refund` | partly, safety proved, composed with the swap record |
| order book page | `qt/pricoinorderbookpage` | its calls on orders and swaps |
| confidential output index | `wallet/rpc/pricoin_ct`, `wallet/pricoin_stealth` | partly: sync, save, seed, discovery; safety proved |
| RPC handlers not named above | `wallet/rpc/pricoin_ct`, `rpc/pricoin_ct` | not modelled |

**Not modelled, though it could be:** the parts below have states and steps of
their own, and no module covers them yet.

- Swap sessions (`wallet/pricoin_swap_session`): a cached, encrypted store with
  `Create`, `Attach`, `Complete` and `Abort`.
- The ceremony of the legacy preimage swap (`wallet/pricoin_swap_ceremony`), which
  is not the adaptor swap: a line of states with a snapshot for rollback.
- Broadcast key images (`wallet/pricoin_broadcasted_kis`) together with the choice
  of inputs in the spending RPCs, where they matter.
- Allocation and labels of subaddresses (`wallet/pricoin_stealth`), which read and
  write a record without a lock over both.
- The funding calls of the BTC holding wallet (`wallet/pricoin_btc_holding`), which
  choose an output and keep no record of the choice.
- The signing dialogs' messages over a relay (`qt/pricoin_*_dialog`,
  `qt/pricoin_nostr_client`).
- Both parties' records and both chains in one model, with heights: both legs
  settle or both are returned.

**Not modelled, for want of states or steps:** ring, joint and adaptor signatures,
stealth addresses and confidential transactions (`pricoin/*ringsig`,
`pricoin/*stealth`, `pricoin/ct*`) and Bitcoin-side scripts (`swap/btc_*`) are
algebra and construction; proof of work (`pow`) is hashing and arithmetic; the
chain backends (`swap/chain_backend`, `swap/esplora_backend`) are HTTP clients,
whose answers are the watcher's environment; the translation catalogues
(`qt/locale/*.ts`) are data. The rest of Bitcoin Core is environment.

Next would be swap sessions and broadcast key images, then one model of both
parties' records over both chains, for which `RecordInv` and `MovedByCalls` are the
interface.
