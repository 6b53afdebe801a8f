------------------------------ MODULE ChainWatcher ------------------------------
(***************************************************************************)
(* The poll thread that moves a swap on when its transactions confirm, and *)
(* that refunds it when its timelock has passed.                           *)
(*                                                                         *)
(* A tick lists the watch entries, asks a chain about each, makes the      *)
(* matching call on the swap record and removes the entry; it then looks   *)
(* for a spend that nobody reported, and for a refund that is due.  Every  *)
(* question, call and broadcast is a step: the wallet's scan, an RPC call, *)
(* a block or the end of the process may come between any two.             *)
(*                                                                         *)
(* Entries are added by the wallet's own calls, by the user and by what a  *)
(* peer announces.  Nobody checks that the transaction is one of the swap, *)
(* or that the entry asks for a confirmation, and pricoin_swapwatch_notify *)
(* does without an entry: `misled' remembers the kinds for which an entry  *)
(* that fails either, or a confirmation that there was none of, was        *)
(* reported.                                                               *)
(*                                                                         *)
(* Until `calm' holds, every call may find the wallet locked or its write  *)
(* failing, every question may find the backend unreachable or cooling     *)
(* down, and the process may end.  Afterwards none of that happens.        *)
(***************************************************************************)
EXTENDS AdaptorSwapRecord

CONSTANTS
    Parties,     \* the roles and foreign chains of the swaps considered
    Rank,        \* the order of the kinds in the map of entries
    Reports,     \* per party, the entries that RPC calls and announcements register
    Settings,    \* the options the node is started with
    Removals,    \* per party, the kinds whose entries the user removes
    MaxReports,  \* bound on these calls, removals and claims without a threshold
    FeeRefunds   \* refunds of an LTC output, one per fee

VARIABLES
    swap,        \* the record, but for the next two
    legs,        \* its foreign_funding_txid and foreign_refund_txid
    watch,       \* the entries: kind -> transaction and min_confirmations, or None
    chain,       \* both chains: transaction -> absent, mempool, confirmed
    due,         \* the tip of the chain this party funded is at its refund height
    attempted,   \* m_refund_attempted, m_btc_refund_attempted, m_pric_refund_attempted
    job,         \* where the tick is: its stage, the entries to come, the one in hand
    args,        \* gArgs: those of -pricoinautorefund, -pricoinltcrefundaddr that are set
    reports,     \* how many of them there were
    misled,      \* history: kinds that were reported wrongly
    calm         \* nothing fails from here on

told == <<args, reports, misled>>
vars == <<swap, legs, watch, chain, due, attempted, job, told, calm>>

\* What a wallet promises about the record.
Record == INSTANCE AdaptorSwap

ForeignKinds == {"ForeignFunding", "ForeignClaim", "ForeignRefund"}
Kinds == ForeignKinds \cup {"PricFunding", "PricClaim", "PricRefund"}
Refunds == FeeRefunds \cup {"btc_refund"}
Fundings == {"foreign_funding", "pric_funding"}
ForeignSpends == {"foreign_claim"} \cup Refunds
PricSpends == {"pric_claim", "pric_refund"}

\* Confirmed transactions, or outputs, that have nothing to do with the swap.
Strays == {"foreign_other", "pric_other"}

ForeignTxs == {"foreign_funding", "foreign_other"} \cup ForeignSpends
Txs == Fundings \cup Strays \cup ForeignSpends \cup PricSpends

\* Without a confirmation, or with as many as make a transaction "confirmed".
Thresholds == {0, 1}

Entries == Kinds \X Txs \X Thresholds
Stages == {"idle", "entries", "apply", "remove", "foreign", "broadcast",
           "pric", "broadcast_pric", "add"}
Idle == [at |-> "idle", todo |-> {}, on |-> <<>>]

\* The transactions that an entry of kind k is meant for.  The spend of the foreign
\* output that the watcher finds by itself may be any.
Meant(k) ==
    CASE k = "ForeignFunding" -> {"foreign_funding"}
      [] k = "PricFunding" -> {"pric_funding"}
      [] k = "PricClaim" -> {"pric_claim"}
      [] k = "ForeignClaim" -> ForeignSpends
      [] k = "PricRefund" -> {"pric_refund"}
      [] OTHER -> Refunds

Fit(e) == e[2] \in Meant(e[1]) /\ e[3] = 1

ASSUME WatcherConstants ==
    /\ Parties \subseteq Roles \X Chains
    /\ Rank \in [Kinds -> Nat]
    /\ Reports \in [Roles \X Chains -> SUBSET Entries]
    /\ Removals \in [Roles \X Chains -> SUBSET Kinds]
    /\ Settings \subseteq SUBSET {"autorefund", "ltcrefundaddr"}
    /\ MaxReports \in Nat
    /\ None \notin Txs \X Thresholds
    /\ None \notin Txs

-----------------------------------------------------------------------------
(* The chains. *)

\* The other transactions that spend the same output.
Rivals(tx) ==
    {x \in Txs : {x, tx} \subseteq ForeignSpends \/ {x, tx} \subseteq PricSpends} \ {tx}

\* The output is there, its timelock has passed, and nothing else has taken it.
\* The claim of the foreign output needs the secret that the PRIC claim shows.
Spendable(tx) ==
    /\ chain[tx] # "confirmed"
    /\ \A x \in Rivals(tx) : chain[x] # "confirmed"
    /\ chain[IF tx \in PricSpends THEN "pric_funding" ELSE "foreign_funding"] = "confirmed"
    /\ tx = "foreign_claim" => chain["pric_claim"] # "absent"
    /\ tx \in Refunds \cup {"pric_refund"} => due

\* A node that holds the transaction, or a rival, may or may not take this one.
Contested(tx) == \E x \in {tx} \cup Rivals(tx) : chain[x] = "mempool"

Relayed(tx) ==
    [x \in Txs |-> IF x = tx THEN "mempool"
                   ELSE IF x \in Rivals(tx) THEN "absent" ELSE chain[x]]

ForeignSpent == \E x \in ForeignSpends : chain[x] # "absent"

\* GetOutspend for the output the record names.  A report may have had it name
\* another one than the swap's.
Spenders ==
    IF legs.funding = "foreign_funding"
    THEN {x \in ForeignSpends : chain[x] # "absent"}
    ELSE {"foreign_other"}

-----------------------------------------------------------------------------
(* The swap record. *)

\* A swap whose ceremonies are over.  Only the party a refund pays keeps its transaction.
Prepared(role, c, t, l, content) ==
    [NewSwap(role, c) EXCEPT
        !.state = "PreSigned", !.T = t, !.t = IF role = "Bob" THEN t ELSE None,
        !.timelocks = l,
        !.presigs = IF c = "ltc" THEN {"pric_claim", "pric_refund"} ELSE PreSigParts,
        !.once = [a \in Artefacts |->
                    IF \/ a = "pric_refund_tx" /\ role = "Bob"
                       \/ a = "btc_refund_tx" /\ <<role, c>> # <<"Bob", "btc">>
                    THEN None ELSE content]]

\* The call that a confirmation of each kind makes.
SetX(k, s, r) ==
    \/ k = "ForeignFunding" /\ SetBtcFunded(s, r)
    \/ k = "PricFunding" /\ SetPricFunded(s, r)
    \/ k = "PricClaim" /\ SetPricClaimed(s, r)
    \/ k = "ForeignClaim" /\ SetComplete(s, r)
    \/ k \in {"PricRefund", "ForeignRefund"} /\ SetRefunded(s, r)

\* The states in which a swap with its pre-signatures accepts that call.
Sources(k) ==
    CASE k = "ForeignFunding" -> {"AdaptorReady", "PreSigned"}
      [] k = "PricFunding" -> {"BtcFunded"}
      [] k = "PricClaim" -> {"BothFunded"}
      [] k = "ForeignClaim" -> {"PricClaimed"}
      [] OTHER -> {"BtcFunded", "BothFunded", "PricClaimed"}

\* Bug: the claim is recorded for a swap whose funding is not recorded yet.
ScanUnfunded(s, r) ==
    IF s.role = "Alice" /\ s.t = None /\ s.state \notin Terminal
    THEN \/ r = [s EXCEPT !.t = s.T, !.state = "PricClaimed"]
         \/ ~calm /\ r \in {s, [s EXCEPT !.t = s.T], [s EXCEPT !.state = "PricClaimed"]}
    ELSE r = s

\* Alice's wallet sees Bob's claim in the mempool or in a block: SetTSecret, then
\* SetPricClaimed.  A locked wallet does neither, and either write may fail.
Scan(s, r) ==
    IF s.role = "Alice" /\ s.t = None /\ s.state \in {"BothFunded", "PricClaimed"}
    THEN \/ r = [s EXCEPT !.t = s.T, !.state = "PricClaimed"]
         \/ ~calm /\ r \in {s, [s EXCEPT !.t = s.T], [s EXCEPT !.state = "PricClaimed"]}
    ELSE r = s

-----------------------------------------------------------------------------
(* The entries. *)

Goto(stage) == job' = [job EXCEPT !.at = stage]
Take(stage, e) == job' = [job EXCEPT !.at = stage, !.on = e]
Leave(e) == job' = [at |-> "entries", todo |-> job.todo \ {e}, on |-> <<>>]

\* Tick, up to the entries List returns.
Begin ==
    /\ job.at = "idle"
    /\ job' = [Idle EXCEPT !.at = "entries",
                           !.todo = {e \in Entries : watch[e[1]] = <<e[2], e[3]>>}]
    /\ UNCHANGED <<swap, legs, watch, chain, due, attempted, told, calm>>

\* What TxStatus or PricTxStatus may answer.  Each knows its own chain only; the wallet
\* has its own transactions, at depth 0, also when no mempool has them.
TxStatus(e) ==
    IF (e[1] \in ForeignKinds) # (e[2] \in ForeignTxs) THEN {"absent"}
    ELSE IF e[2] \notin ForeignTxs /\ chain[e[2]] = "absent" THEN {"absent", "mempool"}
    ELSE {chain[e[2]]}

\* Bug: a transaction that is found counts as confirmed.
ReachedUnconfirmed(e, status) == status # "absent"

\* Bug: PRIC transactions are looked up among the wallet's own only.
ReachedOwn(e, status) ==
    /\ status = "confirmed" \/ (status = "mempool" /\ e[3] = 0)
    /\ ~(swap.role = "Bob" /\ e[1] = "PricFunding")

\* Found, with the confirmations that the entry asks for.
Reached(e, status) == status = "confirmed" \/ (status = "mempool" /\ e[3] = 0)

\* HandleEntry, up to the answer.  A swap that cannot be read gives its entry up; a
\* chain that cools down, has no client or does not answer leaves it pending.  A
\* funding that is in no block has no height, and its call is refused for that.
HandleEntry ==
    /\ job.at = "entries"
    /\ \E e \in job.todo :
        /\ \A f \in job.todo : Rank[e[1]] <= Rank[f[1]]
        /\ \/ e[1] \in ForeignKinds /\ ~calm /\ (Take("remove", e) \/ Leave(e))
           \/ \E status \in TxStatus(e) :
                \/ ~Reached(e, status) /\ Leave(e)
                \/ /\ Reached(e, status)
                   /\ IF e[1] \in {"ForeignFunding", "PricFunding"} /\ status # "confirmed"
                      THEN Take("remove", e) ELSE Take("apply", e)
    /\ UNCHANGED <<swap, legs, watch, chain, due, attempted, told, calm>>

\* The record's txids after the call.
Noted(e) ==
    [funding |-> IF e[1] = "ForeignFunding" THEN e[2] ELSE legs.funding,
     refund |-> IF e[1] = "ForeignRefund" THEN e[2] ELSE legs.refund]

\* HandleEntry, the call: the entry is consumed whether it is accepted or refused.
Apply ==
    /\ job.at = "apply"
    /\ LET k == job.on[1]
       IN  \/ SetX(k, swap, swap') /\ legs' = Noted(job.on)
           \/ (~calm \/ swap.state \notin Sources(k)) /\ UNCHANGED <<swap, legs>>
    /\ Goto("remove")
    /\ UNCHANGED <<watch, chain, due, attempted, told, calm>>

\* By swap and kind, whatever transaction the entry watches by now.
Remove ==
    /\ job.at = "remove"
    /\ \/ watch' = [watch EXCEPT ![job.on[1]] = None]
       \/ ~calm /\ UNCHANGED watch
    /\ Leave(job.on)
    /\ UNCHANGED <<swap, legs, chain, due, attempted, told, calm>>

-----------------------------------------------------------------------------
(* The spend that nobody reported. *)

\* Bug: the pass looks at Alice's swaps.
UnreportedOfAlice ==
    swap.role = "Alice" /\ swap.state = "PricClaimed" /\ watch["ForeignClaim"] = None

\* Bob's swap waits for the claim and no entry watches for it.
Unreported ==
    /\ swap.role = "Bob" /\ swap.state = "PricClaimed" /\ legs.funding # None
    /\ watch["ForeignClaim"] = None

\* Whoever spent the output, and even before the spend is in a block.
TryAutoDetectForeignClaim ==
    /\ job.at = "entries" /\ job.todo = {}
    /\ \/ /\ Unreported
          /\ \E x \in Spenders : Take("add", <<"ForeignClaim", x, 1>>)
       \/ /\ ~Unreported \/ Spenders \subseteq Strays \/ ~calm
          /\ Goto("foreign")
    /\ UNCHANGED <<swap, legs, watch, chain, due, attempted, told, calm>>

-----------------------------------------------------------------------------
(* The refunds. *)

\* The swaps that the sweep of their foreign chain selects, if it is switched on and,
\* for an HTLC, has an address to pay.
ForeignRefundable ==
    /\ "autorefund" \in args
    /\ swap.state \in {"BtcFunded", "BothFunded", "PricClaimed"} /\ legs.refund = None
    /\ \/ /\ swap.chain = "ltc" /\ swap.role = "Bob"
          /\ "ltcrefundaddr" \in args /\ legs.funding # None
       \/ swap.chain = "btc" /\ swap.once["btc_refund_tx"] # None

PricRefundable ==
    /\ "autorefund" \in args
    /\ swap.state \in {"BothFunded", "PricClaimed"}
    /\ swap.role = "Alice" /\ swap.once["pric_refund_tx"] # None

\* TryAutoRefundLtc, TryAutoRefundBtc
TryAutoRefundForeign ==
    /\ job.at = "foreign"
    /\ LET wanted == ForeignRefundable /\ "foreign" \notin attempted /\ due
       IN  \/ wanted /\ Goto("broadcast")
           \/ (~wanted \/ ~calm) /\ Goto("pric")
    /\ UNCHANGED <<swap, legs, watch, chain, due, attempted, told, calm>>

\* What AutoBroadcastLtcRefund and AutoBroadcastBtcRefund ask of the record, read
\* again, and the outpoint of the HTLC refund, which has to be the swap's output.
Eligible ==
    /\ legs.refund = None
    /\ IF swap.chain = "ltc" THEN legs.funding = "foreign_funding"
       ELSE swap.state \in {"PreSigned", "PricClaimed", "BothFunded"}

\* An LTC refund is built for the fee of the day, the BTC one was signed beforehand.
ForeignRefunds == IF swap.chain = "ltc" THEN FeeRefunds ELSE {"btc_refund"}

\* Bug: a swap whose broadcast failed counts as attempted.
AutoBroadcastForeignRefundOnce ==
    /\ job.at = "broadcast"
    /\ \E x \in ForeignRefunds :
        \/ /\ Eligible /\ Spendable(x)
           /\ chain' = Relayed(x) /\ Take("add", <<"ForeignRefund", x, 1>>)
        \/ /\ ~calm \/ ~Eligible \/ ~Spendable(x) \/ Contested(x)
           /\ Goto("pric") /\ UNCHANGED chain
    /\ attempted' = attempted \cup {"foreign"}
    /\ UNCHANGED <<swap, legs, watch, due, told, calm>>

\* AutoBroadcastLtcRefund, AutoBroadcastBtcRefund, up to the backend's answer.
AutoBroadcastForeignRefund ==
    /\ job.at = "broadcast"
    /\ \E x \in ForeignRefunds :
        \/ /\ Eligible /\ Spendable(x)
           /\ chain' = Relayed(x) /\ Take("add", <<"ForeignRefund", x, 1>>)
        \/ /\ ~calm \/ ~Eligible \/ ~Spendable(x) \/ Contested(x)
           /\ Goto("pric") /\ UNCHANGED chain
    /\ UNCHANGED <<swap, legs, watch, due, attempted, told, calm>>

TryAutoRefundPric ==
    /\ job.at = "pric"
    /\ LET wanted == PricRefundable /\ "pric" \notin attempted /\ due
       IN  \/ wanted /\ Goto("broadcast_pric")
           \/ (~wanted \/ ~calm) /\ job' = Idle
    /\ UNCHANGED <<swap, legs, watch, chain, due, attempted, told, calm>>

\* Up to the mempool's answer.
AutoBroadcastPricRefund ==
    LET x == "pric_refund"
        eligible == swap.state \in {"PreSigned", "PricClaimed", "BothFunded"}
    IN  /\ job.at = "broadcast_pric"
        /\ \/ /\ eligible /\ Spendable(x)
              /\ chain' = Relayed(x) /\ Take("add", <<"PricRefund", x, 1>>)
           \/ /\ ~calm \/ ~eligible \/ ~Spendable(x) \/ Contested(x)
              /\ job' = Idle /\ UNCHANGED chain
        /\ UNCHANGED <<swap, legs, watch, due, attempted, told, calm>>

\* Add, which ends the detection or a refund.  A refund that went out counts as
\* attempted even if its entry could not be written.
Add ==
    /\ job.at = "add"
    /\ \/ watch' = [watch EXCEPT ![job.on[1]] = <<job.on[2], job.on[3]>>]
       \/ ~calm /\ UNCHANGED watch
    /\ \/ /\ job.on[1] = "ForeignClaim"
          /\ UNCHANGED attempted /\ job' = [Idle EXCEPT !.at = "foreign"]
       \/ /\ job.on[1] = "ForeignRefund"
          /\ attempted' = attempted \cup {"foreign"} /\ job' = [Idle EXCEPT !.at = "pric"]
       \/ /\ job.on[1] = "PricRefund"
          /\ attempted' = attempted \cup {"pric"} /\ job' = Idle
    /\ UNCHANGED <<swap, legs, chain, due, told, calm>>

Tick ==
    \/ Begin
    \/ HandleEntry
    \/ Apply
    \/ Remove
    \/ TryAutoDetectForeignClaim
    \/ TryAutoRefundForeign
    \/ AutoBroadcastForeignRefund
    \/ TryAutoRefundPric
    \/ AutoBroadcastPricRefund
    \/ Add

-----------------------------------------------------------------------------
(* Everybody else. *)

Party == <<swap.role, swap.chain>>

\* A claim is broadcast and its entry added, whether or not the write succeeds.
BroadcastAndWatch(e) ==
    /\ Spendable(e[2]) /\ chain' = Relayed(e[2])
    /\ \/ Fit(e) /\ UNCHANGED reports
       \/ e \in Reports[Party] /\ reports < MaxReports /\ reports' = reports + 1
    /\ \/ /\ watch' = [watch EXCEPT ![e[1]] = <<e[2], e[3]>>]
          /\ misled' = misled \cup (IF Fit(e) THEN {} ELSE {e[1]})
       \/ ~calm /\ UNCHANGED <<watch, misled>>
    /\ UNCHANGED <<swap, legs, due, attempted, job, args, calm>>

\* pricoin_swapwatch_adapt_pric_claim, with the user's min_confirmations.
AdaptPricClaim(n) ==
    /\ swap.role = "Bob" /\ swap.t # None
    /\ BroadcastAndWatch(<<"PricClaim", "pric_claim", n>>)

\* pricoin_ltc_claim_swap and pricoin_swapwatch_adapt_btc_claim, which spend the output
\* that the record names.  The secret comes from the record or from the user.
AdaptForeignClaim(n) ==
    /\ swap.role = "Alice" /\ legs.funding = "foreign_funding"
    /\ IF swap.chain = "ltc" THEN n = 1 ELSE swap.state \in {"PreSigned", "PricClaimed"}
    /\ BroadcastAndWatch(<<"ForeignClaim", "foreign_claim", n>>)

\* The counterparty broadcasts its claim.
PeerClaim(x) ==
    /\ x = IF swap.role = "Bob" THEN "foreign_claim" ELSE "pric_claim"
    /\ Spendable(x) /\ chain' = Relayed(x)
    /\ IF x = "pric_claim" THEN Scan(swap, swap') ELSE UNCHANGED swap
    /\ UNCHANGED <<legs, watch, due, attempted, job, told, calm>>

Confirm(x) ==
    /\ chain[x] = "mempool"
    /\ chain' = [chain EXCEPT ![x] = "confirmed"]
    /\ IF x = "pric_claim" THEN Scan(swap, swap') ELSE UNCHANGED swap
    /\ UNCHANGED <<legs, watch, due, attempted, job, told, calm>>

TimelockPasses ==
    /\ ~due /\ due' = TRUE
    /\ UNCHANGED <<swap, legs, watch, chain, attempted, job, told, calm>>

\* pricoin_swapwatch_add, called by the user or for a peer's tx_announce: any kind, any
\* transaction, any threshold, in any state of the swap.
Register(e) ==
    /\ reports < MaxReports /\ reports' = reports + 1
    /\ watch' = [watch EXCEPT ![e[1]] = <<e[2], e[3]>>]
    /\ misled' = misled \cup (IF Fit(e) THEN {} ELSE {e[1]})
    /\ UNCHANGED <<swap, legs, chain, due, attempted, job, args, calm>>

\* pricoin_swapwatch_notify: the user tells the wallet that a transaction has confirmed,
\* and the call is made without asking a chain.  The RPCs and the page of the GUI that
\* record a single step do the same and leave the entry.
Notify(e) ==
    /\ reports < MaxReports /\ reports' = reports + 1
    /\ SetX(e[1], swap, swap') /\ legs' = Noted(e)
    /\ watch' \in {watch, [watch EXCEPT ![e[1]] = None]}
    /\ misled' = misled \cup
         (IF e[2] \in Meant(e[1]) /\ chain[e[2]] = "confirmed" THEN {} ELSE {e[1]})
    /\ UNCHANGED <<chain, due, attempted, job, args, calm>>

\* pricoin_swapwatch_remove; in the calm nobody takes an entry away.
Unregister(k) ==
    /\ reports < MaxReports /\ reports' = reports + 1
    /\ ~calm /\ watch[k] # None
    /\ watch' = [watch EXCEPT ![k] = None]
    /\ UNCHANGED <<swap, legs, chain, due, attempted, job, args, misled, calm>>

\* The process ends between two steps and starts again.
Crash ==
    /\ ~calm
    /\ job' = Idle /\ attempted' = {}
    /\ UNCHANGED <<swap, legs, watch, chain, due, told, calm>>

CalmDown ==
    /\ ~calm /\ calm' = TRUE
    /\ UNCHANGED <<swap, legs, watch, chain, due, attempted, job, told>>

\* The foreign leg is funded and watched; so is the PRIC leg, or Alice never funds it.
Init ==
    /\ \E p \in Parties, t \in Secrets, l \in Timelocks, content \in Contents :
        ValidateRefundTimelocks(l) /\ swap = Prepared(p[1], p[2], t, l, content)
    /\ \E F \in {{"foreign_funding"}, Fundings} :
        /\ chain = [x \in Txs |-> IF x \in F \cup Strays THEN "confirmed" ELSE "absent"]
        /\ watch = [k \in Kinds |->
                      IF k = "ForeignFunding" THEN <<"foreign_funding", 1>>
                      ELSE IF k = "PricFunding" /\ F = Fundings THEN <<"pric_funding", 1>>
                      ELSE None]
    /\ legs = [funding |-> None, refund |-> None]
    /\ args \in Settings /\ reports = 0 /\ misled = {}
    /\ due = FALSE /\ attempted = {} /\ job = Idle /\ calm = FALSE

Next ==
    \/ Tick
    \/ \E n \in Thresholds : AdaptPricClaim(n) \/ AdaptForeignClaim(n)
    \/ \E x \in {"pric_claim", "foreign_claim"} : PeerClaim(x)
    \/ \E x \in Txs : Confirm(x)
    \/ TimelockPasses
    \/ \E e \in Reports[Party] : Register(e) \/ Notify(e)
    \/ \E k \in Removals[Party] : Unregister(k)
    \/ Crash
    \/ CalmDown

\* The poll thread goes on ticking.
Spec == Init /\ [][Next]_vars /\ WF_vars(Tick)

-----------------------------------------------------------------------------
(* Properties. *)

\* Every variable keeps its type.
TypeOK ==
    /\ swap \in Swap
    /\ legs \in [funding: Txs \cup {None}, refund: Txs \cup {None}]
    /\ watch \in [Kinds -> (Txs \X Thresholds) \cup {None}]
    /\ chain \in [Txs -> {"absent", "mempool", "confirmed"}]
    /\ due \in BOOLEAN /\ calm \in BOOLEAN
    /\ attempted \subseteq {"pric", "foreign"}
    /\ job \in [at: Stages, todo: SUBSET Entries, on: Entries \cup {<<>>}]
    /\ args \subseteq {"autorefund", "ltcrefundaddr"} /\ reports \in Nat /\ misled \subseteq Kinds

\* A swap is recorded as complete only when a spend of its foreign output has
\* confirmed, and as refunded only when a refund of one of its legs has, unless an entry
\* for that very step was reported with another transaction or without a confirmation:
\* a wrong report of one step does not settle the swap in another way, and nothing that
\* the watcher finds out by itself settles it early.
SettledOnChain ==
    /\ swap.state = "Complete" =>
         \/ \E x \in ForeignSpends : chain[x] = "confirmed"
         \/ {"ForeignClaim", "ForeignFunding"} \cap misled # {}
    /\ swap.state = "Refunded" =>
         \/ \E x \in Refunds \cup {"pric_refund"} : chain[x] = "confirmed"
         \/ {"ForeignRefund", "PricRefund"} \cap misled # {}

\* Bob's wallet gives up t, without which the PRIC is lost, only when the claim
\* that t signed has confirmed (SetPricClaimed wipes it), or when a pric_claim entry
\* was reported with another transaction or without a confirmation: no other report, no
\* claim that is displaced in the mempool and no refund makes it do so earlier.
SecretOutlivesClaim ==
    swap.role = "Bob" /\ swap.t = None =>
        chain["pric_claim"] = "confirmed" \/ "PricClaim" \in misled

\* Watcher and scan change the record by calls that it accepts and by nothing else, so
\* that all that AdaptorSwap promises still holds of a record they move: a stale
\* confirmation, a replayed one or a scan that lost one of its writes included.  The
\* scan makes two calls, of which both may be accepted.
MovedByCalls ==
    [][\/ Record!Next
       \/ LET q == [swap EXCEPT !.t = swap.T]
          IN  Record!Recover(swap, q) /\ SetPricClaimed(q, swap')]_swap

\* The entry of kind k watches a transaction that its chain has confirmed.
Confirmed(k) ==
    /\ watch[k] # None /\ chain[watch[k][1]] = "confirmed"
    /\ (k \in ForeignKinds) = (watch[k][1] \in ForeignTxs)

\* A report has replaced it by one that does not.
Replaced(k) == watch[k] # None /\ ~Confirmed(k)

\* The tick is not about to remove or to replace the entry of kind k, and has no other
\* entry of that kind on its list.
Undisturbed(k) ==
    /\ job.on # <<>> /\ job.on[1] = k => job.at = "apply"
    /\ \A e \in job.todo : e[1] = k => watch[k] = <<e[2], e[3]>>

\* The swap waits for what the entry of kind k reports, and nothing fails any more.
Ripe(k) == calm /\ Undisturbed(k) /\ Confirmed(k) /\ swap.state \in Sources(k)

\* Once nothing fails any more, an entry whose transaction has confirmed and whose
\* swap is waiting for it moves the swap on, whatever failed before: HandleEntry
\* neither drops it, unless another entry takes its place, nor passes it over for ever.
ConfirmationIsRecorded ==
    /\ [][\A k \in Kinds : Ripe(k) =>
            \/ Ripe(k)' \/ swap'.state \notin Sources(k)
            \/ watch'[k] \notin {watch[k], None} \/ job'.at = "add"]_vars
    /\ []<>(\A k \in Kinds : ~Ripe(k))

\* Bob's swap settles once the spend of his output has confirmed, though nobody
\* told his wallet of it (TryAutoDetectForeignClaim), unless an entry for another
\* spend keeps the watcher from looking or a report had it look at another output.
SpendIsNoticed ==
    (calm /\ swap.role = "Bob" /\ swap.state = "PricClaimed" /\ Undisturbed("ForeignClaim")
          /\ legs.funding = "foreign_funding"
          /\ \E x \in ForeignSpends : /\ chain[x] = "confirmed"
                                      /\ watch["ForeignClaim"] \in {None, <<x, 1>>})
    ~> (swap.state \in Terminal \/ Replaced("ForeignClaim"))

\* The output this party funded is spent.
OwnLegSpent ==
    IF swap.role = "Bob" THEN ForeignSpent ELSE \E x \in PricSpends : chain[x] # "absent"

\* Once nothing fails any more, a funded swap whose refund is due has it broadcast, if
\* the node was started with -pricoinautorefund (and, for an HTLC, an address) and the
\* record names the right output, unless the output is spent or the swap settles first:
\* the sweeps retry what failed, in this process or before a restart.  A BTC swap must
\* have both legs funded.
RefundReachesChain ==
    (calm /\ due
      /\ \/ PricRefundable
         \/ /\ ForeignRefundable /\ <<swap.chain, swap.state>> # <<"btc", "BtcFunded">>
            /\ swap.chain = "ltc" => legs.funding = "foreign_funding")
    ~> (OwnLegSpent \/ swap.state \in Terminal)

\* A funded BTC swap whose refund is due has it broadcast: "broadcasts the cooperative
\* presigned BTC refund tx once the BTC chain tip reaches the foreign refund timelock".
BtcRefundReachesChain ==
    (calm /\ swap.chain = "btc" /\ ForeignRefundable /\ due)
    ~> (ForeignSpent \/ swap.state \in Terminal)
=================================================================================
