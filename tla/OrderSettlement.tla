----------------------------- MODULE OrderSettlement -----------------------------
(***************************************************************************)
(* How the orders of a match follow the swap that was started from it.     *)
(*                                                                         *)
(* When a tick of the chain watcher ends a swap, a hook settles an order   *)
(* that is Matched for the swap's amount; at the end of each tick a pass   *)
(* settles what the hook missed.  Both read a list of orders first and     *)
(* act on it later, while the order book page, messages and RPC calls go   *)
(* on changing the orders and the swaps.                                   *)
(*                                                                         *)
(* Calls on the book are the ones of OfferBook; that they survive failing  *)
(* writes and restarts is OfferStore's concern.                            *)
(***************************************************************************)
EXTENDS OfferBook, Functions

VARIABLES
    book,          \* the orders
    swaps,         \* the adaptor swaps: state and pric_amount_sat
    tick,          \* where the watcher is, with the lists it has read
    started        \* history: the swaps that were started from an order's present match

settlementVars == <<book, swaps, tick, started>>

\* Refunded stands for Aborted too, which the watcher treats alike.
Ended == {"Complete", "Refunded"}
SwapRecord == [state: {"none", "live"} \cup Ended, amount: Nat]
NoList == [i \in {} |-> None]
IdleTick == [at |-> "idle", orders |-> NoList, states |-> NoList, swap |-> None, order |-> None]

\* The book after a call that may refuse.
After(call) == book' \in IF call = {} THEN {book} ELSE call

\* A match that ends takes the swaps started from it along.
Follow ==
    started' = [i \in Ids |-> IF book[i].status = "Matched" /\ book'[i].status = "Matched"
                              THEN started[i] ELSE {}]

-----------------------------------------------------------------------------
(* The order book page, its messages and the swap's own calls. *)

MatchOrders ==
    /\ \E mine, theirs \in Ids, amount \in Amounts :
        Terms[mine].ours /\ book' \in Match(book, mine, theirs, amount, 0)
    /\ UNCHANGED <<swaps, tick>>

\* The page creates a swap for the match and links both orders to it.  An order keeps
\* a link that it has; a link that cannot be written is left out.
StartSwap(s) ==
    /\ swaps[s].state = "none"
    /\ \E i \in Ids :
        /\ Terms[i].ours /\ HasPeer(book, i)
        /\ swaps' = [swaps EXCEPT ![s] = [state |-> "live", amount |-> book[i].in_flight]]
        /\ \E L \in SUBSET {i, book[i].matched} :
            book' = [j \in Ids |-> IF j \in L /\ book[j].linked = None
                                   THEN [book[j] EXCEPT !.linked = s] ELSE book[j]]
        /\ started' = [j \in Ids |-> IF j \in {i, book[i].matched}
                                     THEN started[j] \cup {s} ELSE started[j]]
    /\ UNCHANGED tick

\* A release-match click, or the peer's message.
ReleaseMatch(i) ==
    /\ book' \in Unmatch(book, i)
    /\ UNCHANGED <<swaps, tick>>

CancelOrder(i) ==
    /\ book' \in Cancel(book, i)
    /\ UNCHANGED <<swaps, tick>>

\* A swap ends by pricoin_swapwatch_notify, a manual call or an abort: no hook runs.
EndSwap(s) ==
    /\ swaps[s].state = "live"
    /\ \E end \in Ended : swaps' = [swaps EXCEPT ![s].state = end]
    /\ UNCHANGED <<book, tick>>

-----------------------------------------------------------------------------
(* HandleEntry: a confirmation ends the swap, then the hook. *)

HandleEntry(s) ==
    /\ tick.at = "idle" /\ swaps[s].state = "live"
    /\ \E end \in Ended : swaps' = [swaps EXCEPT ![s].state = end]
    /\ tick' = [IdleTick EXCEPT !.at = "hook", !.swap = s]
    /\ UNCHANGED book

\* The first order, in the order of their ids, that is Matched for the swap's amount.
HookList ==
    /\ tick.at = "hook"
    /\ LET found == {i \in Ids : /\ Has(book, i) /\ book[i].status = "Matched"
                                 /\ book[i].in_flight = swaps[tick.swap].amount}
       IN  \/ \E i \in found : tick' = [tick EXCEPT !.at = "settle", !.order = i]
           \/ found = {} /\ tick' = IdleTick
    /\ UNCHANGED <<book, swaps>>

\* Bug: the hook fills whatever the swap's end was.
HookSettleAlwaysFills ==
    /\ tick.at = "settle"
    /\ After(Fill(book, tick.order))
    /\ tick' = IdleTick
    /\ UNCHANGED swaps

HookSettle ==
    /\ tick.at = "settle"
    /\ After(IF swaps[tick.swap].state = "Complete" THEN Fill(book, tick.order)
                                                    ELSE Unmatch(book, tick.order))
    /\ tick' = IdleTick
    /\ UNCHANGED swaps

-----------------------------------------------------------------------------
(* TryReconcileMatchedOrders. *)

\* Bug: only orders that are still Matched are looked at.
LinkedOpenMatched(o) == o.linked # None /\ o.status = "Matched"

LinkedOpen(o) == o.linked # None /\ o.status \notin Settled

\* The orders the pass has to look at, and what it looks at.
Listed == {i \in Ids : Has(book, i) /\ (book[i].status = "Matched" \/ LinkedOpen(book[i]))}
Seen(o) == [status |-> o.status, in_flight |-> o.in_flight, linked |-> o.linked]

ReconcileOrders ==
    /\ tick.at = "idle" /\ Listed # {}
    /\ tick' = [IdleTick EXCEPT !.at = "orders", !.orders = [i \in Listed |-> Seen(book[i])]]
    /\ UNCHANGED <<book, swaps>>

ReconcileSwaps ==
    /\ tick.at = "orders"
    /\ tick' = [tick EXCEPT !.at = "reconcile", !.states = [s \in Swaps |-> swaps[s].state]]
    /\ UNCHANGED <<book, swaps>>

\* Path (b): the linked swap is in the list and complete.
LinkedComplete(o) == LinkedOpen(o) /\ tick.states[o.linked] = "Complete"

\* Path (a): the swaps that ended with the amount the order has reserved.
Candidates(o) ==
    {s \in Swaps : /\ o.status = "Matched" /\ o.in_flight # 0
                   /\ tick.states[s] \in Ended /\ swaps[s].amount = o.in_flight}

\* Bug: an order whose swap did not complete is left alone.
SettleMatchedCompleteOnly(i, s) == IF tick.states[s] = "Complete" THEN Fill(book, i) ELSE {}

SettleMatched(i, s) == IF tick.states[s] = "Complete" THEN Fill(book, i) ELSE Unmatch(book, i)

\* The next order of the list, and the first swap that fits it.
Reconcile(i) ==
    /\ tick.at = "reconcile" /\ i \in DOMAIN tick.orders
    /\ LET o == tick.orders[i]
       IN  \/ LinkedComplete(o) /\ After(FillFromLinkedSwap(book, i, swaps[o.linked].amount))
           \/ ~LinkedComplete(o) /\ \E s \in Candidates(o) : After(SettleMatched(i, s))
           \/ ~LinkedComplete(o) /\ Candidates(o) = {} /\ UNCHANGED book
    /\ LET rest == DOMAIN tick.orders \ {i}
       IN  tick' = IF rest = {} THEN IdleTick
                   ELSE [tick EXCEPT !.orders = [j \in rest |-> tick.orders[j]]]
    /\ UNCHANGED swaps

Pass ==
    /\ \/ HookList \/ HookSettle \/ ReconcileOrders \/ ReconcileSwaps
       \/ \E i \in Ids : Reconcile(i)
    /\ Follow

SettlementInit ==
    /\ book = [i \in Ids |-> NewOrder(i)]
    /\ swaps = [s \in Swaps |-> [state |-> "none", amount |-> 0]]
    /\ tick = IdleTick
    /\ started = [i \in Ids |-> {}]

SettlementNext ==
    \/ MatchOrders /\ Follow
    \/ \E s \in Swaps : StartSwap(s) \/ ((EndSwap(s) \/ HandleEntry(s)) /\ Follow)
    \/ \E i \in Ids : (ReleaseMatch(i) \/ CancelOrder(i)) /\ Follow
    \/ Pass

\* The poll thread finishes its ticks and begins new ones.
SettlementSpec == SettlementInit /\ [][SettlementNext]_settlementVars /\ WF_settlementVars(Pass)

-----------------------------------------------------------------------------
(* Properties. *)

\* Every variable keeps its type.
SettlementTypeOK ==
    /\ book \in Book
    /\ swaps \in [Swaps -> SwapRecord]
    /\ tick.at \in {"idle", "hook", "settle", "orders", "reconcile"}
    /\ DOMAIN tick.orders \subseteq Ids
    /\ started \in [Ids -> SUBSET Swaps]

\* While no swap has completed, nothing has been taken from any order, whatever was
\* matched, released, refunded or aborted: the hook and the pass consume an order
\* only for a completed swap.
NothingConsumedInVain ==
    (\A s \in Swaps : swaps[s].state # "Complete") =>
        \A i \in Ids : book[i].remaining = book[i].max

\* An open order that is linked to a completed swap does not stay so while it has
\* enough left, though its match was released meanwhile and the swap ended
\* where no hook ran.
CompletionReachesOrder ==
    LET Owes(i) == \E s \in Swaps :
            /\ book[i].linked = s /\ book[i].status \notin Settled
            /\ swaps[s].state = "Complete" /\ swaps[s].amount <= book[i].remaining
    IN  \A i \in Ids : Owes(i) ~> ~Owes(i)

\* A match does not outlive the swaps started from it: once all of them have
\* ended, where no hook ran and with or without a link, the pass settles it
\* (pricoin_chain_watcher.h:327-329).  Nothing is asked of a match whose own swap
\* is live, though the pass, which goes by amount, may settle that one too.
EndedSwapFreesOrder ==
    LET Held(i) ==
            /\ book[i].status = "Matched" /\ started[i] # {}
            /\ \A s \in started[i] : swaps[s].state \in Ended
    IN  \A i \in Ids : Held(i) ~> ~Held(i)

\* What has been taken from an order was taken by swaps that completed, each once
\* (pricoin_chain_watcher.h: the pass settles "each Matched order whose linked swap
\* is in any terminal state").
ConsumedOnce ==
    \A i \in Ids :
        book[i].max - book[i].remaining <=
            FoldFunctionOnSet(+, 0, [s \in Swaps |-> IF swaps[s].state = "Complete"
                                                     THEN swaps[s].amount ELSE 0], Swaps)

\* The hook and the pass settle an order for "its linked swap"
\* (pricoin_chain_watcher.h:327-329): a match with a live swap is left alone.  The
\* code looks for any ended swap of the same amount.
LiveSwapKeepsMatch ==
    [][Pass => \A i \in Ids :
        book[i].status = "Matched" /\ (\E s \in started[i] : swaps[s].state = "live")
            => book'[i].status = "Matched"]_settlementVars

\* A stale link is "cleared on re-match or cancel" (pricoin_chain_watcher.cpp:801-802);
\* Match and Cancel leave it.
StaleLinkIsCleared ==
    [][\A i \in Ids :
        /\ book[i].status = "Active" /\ book'[i].status = "Matched" => book'[i].linked = None
        /\ book[i].status # "Cancelled" /\ book'[i].status = "Cancelled"
            => book'[i].linked = None]_settlementVars
=================================================================================
