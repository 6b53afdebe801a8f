------------------------------- MODULE OfferBook -------------------------------
(***************************************************************************)
(* The orders a wallet holds, its own and the ones it imported, and the    *)
(* calls that change them.                                                 *)
(*                                                                         *)
(* A book maps an order id to its record or to NoOrder.  A call is the set *)
(* of books it may turn the book b into: one, or none if it refuses.       *)
(* OfferStore runs the calls over a cache and a database, OrderSettlement  *)
(* runs the ones that settle an order with its swap.                       *)
(***************************************************************************)
EXTENDS Integers

CONSTANTS
    Ids,      \* order ids
    Terms,    \* what an order's maker signed: side, chain, max, foreign, expiry, and whether we made it
    Dust,     \* kOrderDustRemainderSat
    Swaps,    \* adaptor swap ids
    Amounts,  \* amounts callers ask for
    NoOrder,  \* no record
    None      \* a null id

ASSUME BookConstants ==
    /\ \A i \in Ids : /\ Terms[i].side \in {"BuyPric", "SellPric"}
                      /\ Terms[i].ours \in BOOLEAN
                      /\ Terms[i].max \in Nat \ {0}
                      /\ Terms[i].foreign \in Nat \ {0}
                      /\ Terms[i].expiry \in Nat \ {0}
    /\ Dust \in Nat
    /\ None \notin Ids \cup Swaps

Settled == {"Filled", "Cancelled", "Expired"}
Statuses == {"Active", "Matched"} \cup Settled

Order == [status: Statuses, max: Nat, foreign: Nat, remaining: Nat, in_flight: Nat,
          matched: Ids \cup {None}, linked: Swaps \cup {None}]

ASSUME AmountsAreNaturals == Amounts \subseteq Nat

ASSUME NoOrderIsNone == NoOrder \notin Order

Book == [Ids -> Order \cup {NoOrder}]

Has(b, i) == b[i] # NoOrder

NewOrder(i) ==
    [status |-> "Active", max |-> Terms[i].max, foreign |-> Terms[i].foreign,
     remaining |-> Terms[i].max, in_flight |-> 0, matched |-> None, linked |-> None]

-----------------------------------------------------------------------------
(* Matching. *)

IsTradeable(b, i, now) ==
    /\ Has(b, i)
    /\ b[i].status = "Active"
    /\ b[i].remaining > 0
    /\ Terms[i].expiry > now

\* rate = foreign / max, compared without dividing
BidRateAtLeastAskRate(bid, ask) == bid.foreign * ask.max >= ask.foreign * bid.max

\* What the bid pays for amount at the ask's rate; refused beyond the ask's size.
ProRateForeign(amount, ask) ==
    IF amount > ask.max THEN None ELSE (amount * ask.foreign) \div ask.max

EvaluateMatch(b, mine, theirs, amount, now) ==
    /\ IsTradeable(b, mine, now) /\ IsTradeable(b, theirs, now)
    /\ Terms[mine].chain = Terms[theirs].chain
    /\ Terms[mine].side # Terms[theirs].side
    /\ amount > 0
    /\ amount <= b[mine].remaining /\ amount <= b[theirs].remaining
    /\ LET bid == b[IF Terms[mine].side = "BuyPric" THEN mine ELSE theirs]
           ask == b[IF Terms[mine].side = "SellPric" THEN mine ELSE theirs]
       IN  BidRateAtLeastAskRate(bid, ask) /\ ProRateForeign(amount, ask) # None

\* A match reserves the amount on both orders.
Match(b, mine, theirs, amount, now) ==
    LET Reserved(i, peer) == [b[i] EXCEPT !.status = "Matched", !.in_flight = amount,
                                          !.matched = peer]
    IN  IF mine # theirs /\ EvaluateMatch(b, mine, theirs, amount, now)
        THEN {[b EXCEPT ![mine] = Reserved(mine, theirs), ![theirs] = Reserved(theirs, mine)]}
        ELSE {}

-----------------------------------------------------------------------------
(* Making and importing orders. *)

Create(b, i) ==
    IF Terms[i].ours /\ ~Has(b, i)
    THEN {[b EXCEPT ![i] = NewOrder(i)]}
    ELSE {}

\* What the maker of i publishes while remaining is left of it, at the rate it signed.
RepublishUri(i, remaining) ==
    [max |-> remaining, foreign |-> (Terms[i].foreign * remaining) \div Terms[i].max]

\* The payloads in circulation for i; none is published once its price rounds to zero.
Uris(i) == {u \in {RepublishUri(i, r) : r \in 1..Terms[i].max} : u.foreign > 0}

Import(b, i, u, now) ==
    IF /\ ~Terms[i].ours /\ Terms[i].expiry > now
       /\ ~Has(b, i)
    THEN {[b EXCEPT ![i] = [NewOrder(i) EXCEPT !.max = u.max, !.foreign = u.foreign,
                                                !.remaining = u.max]]}
    ELSE {}

Lesser(x, y) == IF x <= y THEN x ELSE y

\* An order cut down to the payload u; the remaining amount and the reservation
\* shrink with it.
ShrunkTo(o, u) ==
    LET left == Lesser(o.remaining, u.max)
    IN  [o EXCEPT !.max = u.max, !.foreign = u.foreign,
                  !.remaining = left, !.in_flight = Lesser(o.in_flight, left)]

\* Bug: a stale rebroadcast restores the size the order had.
ApplyImportedUpdateGrowing(b, i, u) ==
    IF /\ Has(b, i) /\ ~Terms[i].ours
       /\ u.max # b[i].max /\ b[i].status \notin {"Cancelled", "Expired"}
    THEN {[b EXCEPT ![i] = ShrunkTo([b[i] EXCEPT !.remaining = u.max], u)]}
    ELSE {}

\* An order only shrinks.
ApplyImportedUpdate(b, i, u) ==
    IF /\ Has(b, i) /\ ~Terms[i].ours
       /\ u.max < b[i].max /\ b[i].status \notin {"Cancelled", "Expired"}
    THEN {[b EXCEPT ![i] = ShrunkTo(b[i], u)]}
    ELSE {}

\* What the next look at the book does to an order whose time is up.
Expired(b, i, now) == Has(b, i) /\ b[i].status = "Active" /\ Terms[i].expiry <= now

SweepExpired(b, now) ==
    [i \in Ids |-> IF Expired(b, i, now) THEN [b[i] EXCEPT !.status = "Expired"] ELSE b[i]]

-----------------------------------------------------------------------------
(* Settling a match.  The peer is the order matched names, if it is in this book. *)

HasPeer(b, i) ==
    /\ Has(b, i) /\ b[i].status = "Matched"
    /\ b[i].matched # None /\ Has(b, b[i].matched)

\* The orders that settling i's match changes.
Pair(b, i) ==
    {i} \cup {p \in Ids : HasPeer(b, i) /\ p = b[i].matched /\ b[p].status = "Matched"}

Consume(o, amount) ==
    [o EXCEPT !.remaining = @ - amount, !.in_flight = 0, !.matched = None, !.linked = None,
              !.status = IF o.remaining - amount <= Dust THEN "Filled" ELSE "Active"]

Release(o) == [o EXCEPT !.in_flight = 0, !.matched = None, !.status = "Active"]

\* Bug: the peer pays the amount whatever it has reserved.
FillUnequal(b, i) ==
    IF /\ Has(b, i) /\ b[i].status = "Matched"
       /\ b[i].in_flight > 0 /\ b[i].in_flight <= b[i].remaining
    THEN {[j \in Ids |-> IF j \in Pair(b, i) THEN Consume(b[j], b[i].in_flight) ELSE b[j]]}
    ELSE {}

\* Both orders have the same amount reserved, and it is consumed on both.
Fill(b, i) ==
    IF /\ Has(b, i) /\ b[i].status = "Matched"
       /\ b[i].in_flight > 0 /\ b[i].in_flight <= b[i].remaining
       /\ \A p \in Pair(b, i) : b[p].in_flight = b[i].in_flight
    THEN {[j \in Ids |-> IF j \in Pair(b, i) THEN Consume(b[j], b[i].in_flight) ELSE b[j]]}
    ELSE {}

\* Bug: only the order itself is released.
UnmatchOneSided(b, i) ==
    IF Has(b, i) /\ b[i].status = "Matched"
    THEN {[b EXCEPT ![i] = Release(@)]}
    ELSE {}

Unmatch(b, i) ==
    IF Has(b, i) /\ b[i].status = "Matched"
    THEN {[j \in Ids |-> IF j \in Pair(b, i) THEN Release(b[j]) ELSE b[j]]}
    ELSE {}

Cancel(b, i) ==
    IF Has(b, i) /\ b[i].status \notin Settled
    THEN {[j \in Ids |->
              IF j = i THEN [Release(b[j]) EXCEPT !.status = "Cancelled"]
              ELSE IF j \in Pair(b, i) THEN Release(b[j]) ELSE b[j]]}
    ELSE {}

\* A link to another swap is not replaced.
LinkSwap(b, i, s) ==
    IF Has(b, i) /\ b[i].linked = None
    THEN {[b EXCEPT ![i].linked = s]}
    ELSE {}

\* Bug: a settled order is filled again.
FillFromLinkedSwapReopening(b, i, amount) ==
    IF /\ Has(b, i)
       /\ amount > 0 /\ amount <= b[i].remaining
    THEN {[b EXCEPT ![i] = Consume(@, amount)]}
    ELSE {}

\* Settled orders, and orders with less left than amount, are left as they are.
FillFromLinkedSwap(b, i, amount) ==
    IF /\ Has(b, i) /\ b[i].status \notin Settled
       /\ amount > 0 /\ amount <= b[i].remaining
    THEN {[b EXCEPT ![i] = Consume(@, amount)]}
    ELSE {}

-----------------------------------------------------------------------------
\* What an order has reserved it still has, and what it has it was made with; an
\* order that can be matched has something left; an amount is reserved exactly
\* while the order is Matched and names the order it is matched with.
Covered(o) ==
    /\ o.in_flight <= o.remaining /\ o.remaining <= o.max
    /\ o.status \in {"Active", "Matched"} => o.remaining > 0
    /\ (o.status = "Matched") = (o.in_flight > 0)
    /\ (o.status = "Matched") = (o.matched # None)
=================================================================================
