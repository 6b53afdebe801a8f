--------------------------- MODULE OfferBook_proofs ----------------------------
(***************************************************************************)
(* Proofs about the order book: what its calls do to an order and to a     *)
(* book, and from that what holds of the book between cache and database   *)
(* (OfferStore) and of orders that follow their swaps (OrderSettlement).   *)
(***************************************************************************)
EXTENDS OfferStore, OrderSettlement, TLAPS

-----------------------------------------------------------------------------
(* The calls. *)

\* What an order may become while the wallet runs.
Successor(o, p) ==
    /\ p \in Order /\ Covered(p)
    /\ p.remaining <= o.remaining /\ p.max <= o.max
    /\ o.status \in Settled => p.status = o.status

SoundBook(b) == b \in Book /\ \A i \in Ids : Has(b, i) => Covered(b[i])

\* What a book may become in one call.
Follows(b, c) ==
    /\ SoundBook(c)
    /\ \A i \in Ids : Has(b, i) => Has(c, i) /\ Successor(b[i], c[i])

-----------------------------------------------------------------------------
(* Single orders. *)

\* A record is not the absence of one, and an entry of a book is one or the other.
LEMMA Entries ==
    ASSUME NEW b \in Book, NEW i \in Ids
    PROVE  /\ Has(b, i) => b[i] \in Order
           /\ b[i] \in Order => Has(b, i)
BY NoOrderIsNone DEF Book, Has

\* An order that is left alone follows itself.
LEMMA Stays ==
    ASSUME NEW o \in Order, Covered(o)
    PROVE  Successor(o, o)
BY DEF Successor, Order

\* Consuming an amount that is there settles or reopens the order (Fill).
LEMMA ConsumeSound ==
    ASSUME NEW o \in Order, Covered(o), o.status \notin Settled,
           NEW amount \in Nat, amount > 0, amount <= o.remaining
    PROVE  Successor(o, Consume(o, amount))
<1> DEFINE p == Consume(o, amount)
<1>1. /\ p.remaining = o.remaining - amount /\ p.in_flight = 0
      /\ p.matched = None /\ p.linked = None
      /\ p.max = o.max /\ p.foreign = o.foreign
      /\ p.status = IF o.remaining - amount <= Dust THEN "Filled" ELSE "Active"
  BY DEF Consume, Order
<1>2. p \in Order
  <2>1. p.status \in Statuses /\ p.remaining \in Nat
    BY <1>1 DEF Statuses, Settled, Order
  <2> QED BY <1>1, <2>1 DEF Consume, Order
<1>3. Covered(p)
  BY <1>1, BookConstants DEF Covered, Order
<1> QED BY <1>1, <1>2, <1>3 DEF Successor, Order

\* Releasing a reservation gives nothing back that was consumed (Unmatch).
LEMMA ReleaseSound ==
    ASSUME NEW o \in Order, Covered(o), o.status = "Matched"
    PROVE  Successor(o, Release(o))
<1> DEFINE p == Release(o)
<1>1. /\ p.remaining = o.remaining /\ p.in_flight = 0 /\ p.matched = None
      /\ p.max = o.max /\ p.status = "Active" /\ o.remaining > 0
  BY DEF Release, Order, Covered
<1>2. p \in Order
  BY DEF Release, Order, Statuses
<1>3. Covered(p)
  BY <1>1 DEF Covered, Order
<1> QED BY <1>1, <1>2, <1>3 DEF Successor, Order, Settled

\* A cancelled order keeps its account.
LEMMA CancelOneSound ==
    ASSUME NEW o \in Order, Covered(o), o.status \notin Settled
    PROVE  Successor(o, [Release(o) EXCEPT !.status = "Cancelled"])
<1> DEFINE p == [Release(o) EXCEPT !.status = "Cancelled"]
<1>1. /\ p.remaining = o.remaining /\ p.in_flight = 0 /\ p.matched = None
      /\ p.max = o.max /\ p.status = "Cancelled"
  BY DEF Release, Order
<1>2. p \in Order
  BY DEF Release, Order, Statuses, Settled
<1>3. Covered(p)
  BY <1>1 DEF Covered, Order
<1> QED BY <1>1, <1>2, <1>3 DEF Successor, Order

\* An order that a call puts in the place of i's, if i had one.
LEMMA OneEntry ==
    ASSUME NEW b, SoundBook(b), NEW i \in Ids, NEW p \in Order, Covered(p),
           Has(b, i) => Successor(b[i], p)
    PROVE  Follows(b, [b EXCEPT ![i] = p])
<1> DEFINE c == [b EXCEPT ![i] = p]
<1>1. c \in Book /\ c[i] = p /\ \A j \in Ids : j # i => c[j] = b[j]
  BY DEF SoundBook, Book
<1>2. \A j \in Ids : Has(c, j) => Covered(c[j])
  BY <1>1 DEF SoundBook, Has
<1>3. ASSUME NEW j \in Ids, Has(b, j)
      PROVE  Has(c, j) /\ Successor(b[j], c[j])
  <2>1. CASE j = i
    BY <2>1, <1>1, <1>3, Entries
  <2>2. CASE j # i
    BY <2>2, <1>1, <1>3, Entries, Stays DEF SoundBook, Has
  <2> QED BY <2>1, <2>2
<1> QED BY <1>1, <1>2, <1>3 DEF Follows, SoundBook

\* A call that changes several orders, each into one that may follow it.
LEMMA ManyEntries ==
    ASSUME NEW b, SoundBook(b), NEW c, c = [j \in Ids |-> c[j]],
           \A j \in Ids : c[j] = b[j] \/ (Has(b, j) /\ Successor(b[j], c[j]))
    PROVE  Follows(b, c)
<1>1. \A j \in Ids : c[j] \in Order \cup {NoOrder}
  BY DEF SoundBook, Book, Successor
<1>2. c \in Book
  BY <1>1 DEF Book
<1>3. \A j \in Ids : Has(c, j) => Covered(c[j])
  BY DEF SoundBook, Has, Successor
<1>4. ASSUME NEW j \in Ids, Has(b, j)
      PROVE  Has(c, j) /\ Successor(b[j], c[j])
  <2>1. CASE c[j] = b[j]
    BY <2>1, <1>4, Entries, Stays DEF SoundBook, Has
  <2>2. CASE Successor(b[j], c[j])
    BY <2>2, <1>2, Entries DEF Successor
  <2> QED BY <2>1, <2>2
<1> QED BY <1>2, <1>3, <1>4 DEF Follows, SoundBook

-----------------------------------------------------------------------------
(* Calls. *)

\* A payload in circulation offers something for something.
LEMMA UrisSound ==
    ASSUME NEW i \in Ids, NEW u \in Uris(i)
    PROVE  u.max \in Nat /\ u.max > 0 /\ u.foreign \in Nat
<1>1. PICK r \in 1..Terms[i].max : u = RepublishUri(i, r) /\ u.foreign > 0
  BY DEF Uris
<1>2. Terms[i].max \in Nat \ {0} /\ Terms[i].foreign \in Nat
  BY BookConstants
<1>3. (Terms[i].foreign * r) \div Terms[i].max \in Int
  BY <1>2
<1> QED BY <1>1, <1>2, <1>3 DEF RepublishUri

\* A new order keeps its account.
LEMMA NewOrderSound ==
    ASSUME NEW i \in Ids
    PROVE  NewOrder(i) \in Order /\ Covered(NewOrder(i))
BY BookConstants DEF NewOrder, Order, Statuses, Settled, Covered

\* Create adds an order.
LEMMA CreateSound ==
    ASSUME NEW b, SoundBook(b), NEW i \in Ids, NEW c \in Create(b, i)
    PROVE  Follows(b, c)
BY NewOrderSound, OneEntry DEF Create

\* Import adds an order.
LEMMA ImportSound ==
    ASSUME NEW b, SoundBook(b), NEW i \in Ids, NEW u \in Uris(i), NEW now_, NEW c \in Import(b, i, u, now_)
    PROVE  Follows(b, c)
<1> DEFINE p == [NewOrder(i) EXCEPT !.max = u.max, !.foreign = u.foreign, !.remaining = u.max]
<1>1. /\ p \in Order
      /\ p.max = u.max /\ p.remaining = u.max /\ p.in_flight = 0 /\ p.matched = None
      /\ p.status = "Active"
  BY UrisSound, BookConstants DEF NewOrder, Order, Statuses
<1>2. Covered(p)
  BY <1>1, UrisSound DEF Covered
<1>3. ~Has(b, i) /\ c = [b EXCEPT ![i] = p]
  BY DEF Import
<1> HIDE DEF p
<1> QED BY <1>1, <1>2, <1>3, OneEntry

\* ApplyImportedUpdate only shrinks an order.
LEMMA UpdateSound ==
    ASSUME NEW b, SoundBook(b), NEW i \in Ids, NEW u \in Uris(i), NEW c \in ApplyImportedUpdate(b, i, u)
    PROVE  Follows(b, c)
<1> DEFINE o == b[i]
           p == ShrunkTo(o, u)
<1>1. Has(b, i) /\ u.max < o.max /\ c = [b EXCEPT ![i] = p]
  BY DEF ApplyImportedUpdate
<1>2. o \in Order /\ Covered(o)
  BY <1>1, Entries DEF SoundBook
<1>3. /\ p.max = u.max /\ p.foreign = u.foreign /\ p.status = o.status
      /\ p.matched = o.matched
      /\ p.remaining = Lesser(o.remaining, u.max)
      /\ p.in_flight = Lesser(o.in_flight, p.remaining)
  BY <1>2 DEF Order, ShrunkTo
<1>4. u.max \in Nat /\ u.max > 0 /\ u.foreign \in Nat
  BY UrisSound
<1>5. Lesser(o.remaining, u.max) \in Nat /\ Lesser(o.in_flight, Lesser(o.remaining, u.max)) \in Nat
  BY <1>2, <1>4 DEF Lesser, Order
<1>6. p \in Order
  BY <1>2, <1>4, <1>5 DEF Order, ShrunkTo
<1>7. Covered(p) /\ p.remaining <= o.remaining
  <2>1. /\ o.remaining \in Nat /\ o.in_flight \in Nat
        /\ o.status \in {"Active", "Matched"} => o.remaining > 0
        /\ (o.status = "Matched") = (o.in_flight > 0)
        /\ (o.status = "Matched") = (o.matched # None)
    BY <1>2 DEF Covered, Order
  <2>2. /\ p.remaining \in Nat /\ p.in_flight \in Nat
        /\ p.remaining <= o.remaining /\ p.remaining <= p.max /\ p.in_flight <= p.remaining
        /\ o.remaining > 0 => p.remaining > 0
    BY <2>1, <1>3, <1>4 DEF Lesser
  <2>3. (p.in_flight > 0) = (o.in_flight > 0)
    <3>1. o.in_flight > 0 => o.remaining > 0
      BY <2>1
    <3> QED BY <3>1, <2>1, <2>2, <1>3 DEF Lesser
  <2> HIDE DEF p
  <2> QED BY <1>3, <2>1, <2>2, <2>3 DEF Covered
<1>8. Successor(o, p)
  BY <1>1, <1>2, <1>3, <1>4, <1>6, <1>7 DEF Successor, Order
<1> HIDE DEF p
<1> QED BY <1>1, <1>6, <1>7, <1>8, OneEntry

\* LinkSwap changes the link and nothing else.
LEMMA LinkSound ==
    ASSUME NEW b, SoundBook(b), NEW i \in Ids, NEW s \in Swaps, NEW c \in LinkSwap(b, i, s)
    PROVE  Follows(b, c)
<1> DEFINE o == b[i]
           p == [o EXCEPT !.linked = s]
<1>1. Has(b, i) /\ c = [b EXCEPT ![i] = p]
  BY DEF LinkSwap
<1>2. o \in Order /\ Covered(o)
  BY <1>1, Entries DEF SoundBook
<1>3. p \in Order /\ Covered(p) /\ p.remaining = o.remaining /\ p.max = o.max /\ p.status = o.status
  BY <1>2 DEF Order, Covered
<1>4. Successor(o, p)
  BY <1>2, <1>3 DEF Successor, Order
<1> HIDE DEF p
<1> QED BY <1>1, <1>3, <1>4, OneEntry

\* FillFromLinkedSwap consumes what is left at most.
LEMMA LinkedFillSound ==
    ASSUME NEW b, SoundBook(b), NEW i \in Ids, NEW amount \in Nat, NEW c \in FillFromLinkedSwap(b, i, amount)
    PROVE  Follows(b, c)
<1>1. /\ Has(b, i) /\ b[i].status \notin Settled /\ amount > 0 /\ amount <= b[i].remaining
      /\ c = [b EXCEPT ![i] = Consume(b[i], amount)]
  BY DEF FillFromLinkedSwap
<1>2. b[i] \in Order /\ Covered(b[i])
  BY <1>1, Entries DEF SoundBook
<1>3. Successor(b[i], Consume(b[i], amount))
  BY <1>1, <1>2, ConsumeSound
<1> QED BY <1>1, <1>3, OneEntry DEF Successor

\* Orders that settling a match changes are Matched.
LEMMA PairIsMatched ==
    ASSUME NEW b, SoundBook(b), NEW i \in Ids, Has(b, i), b[i].status = "Matched", NEW j \in Pair(b, i)
    PROVE  j \in Ids /\ Has(b, j) /\ b[j] \in Order /\ Covered(b[j]) /\ b[j].status = "Matched"
BY Entries DEF Pair, HasPeer, SoundBook

\* Fill consumes the reservation on both orders.
LEMMA FillSound ==
    ASSUME NEW b, SoundBook(b), NEW i \in Ids, NEW c \in Fill(b, i)
    PROVE  Follows(b, c)
<1>1. /\ Has(b, i) /\ b[i].status = "Matched" /\ b[i].in_flight > 0
      /\ \A p \in Pair(b, i) : b[p].in_flight = b[i].in_flight
      /\ c = [j \in Ids |-> IF j \in Pair(b, i) THEN Consume(b[j], b[i].in_flight) ELSE b[j]]
  BY DEF Fill
<1>2. ASSUME NEW j \in Pair(b, i)
      PROVE  j \in Ids /\ Has(b, j) /\ Successor(b[j], Consume(b[j], b[i].in_flight))
  <2>1. j \in Ids /\ Has(b, j) /\ b[j] \in Order /\ Covered(b[j]) /\ b[j].status = "Matched"
    BY <1>1, PairIsMatched
  <2>2. b[i].in_flight = b[j].in_flight /\ b[j].in_flight \in Nat /\ b[j].in_flight <= b[j].remaining
    BY <1>1, <2>1 DEF Covered, Order
  <2> QED BY <1>1, <2>1, <2>2, ConsumeSound DEF Settled
<1>3. \A j \in Ids : c[j] = b[j] \/ (Has(b, j) /\ Successor(b[j], c[j]))
  BY <1>1, <1>2
<1> QED BY <1>1, <1>3, ManyEntries

\* Unmatch releases the reservation on both orders.
LEMMA UnmatchSound ==
    ASSUME NEW b, SoundBook(b), NEW i \in Ids, NEW c \in Unmatch(b, i)
    PROVE  Follows(b, c)
<1>1. /\ Has(b, i) /\ b[i].status = "Matched"
      /\ c = [j \in Ids |-> IF j \in Pair(b, i) THEN Release(b[j]) ELSE b[j]]
  BY DEF Unmatch
<1>2. \A j \in Ids : c[j] = b[j] \/ (Has(b, j) /\ Successor(b[j], c[j]))
  BY <1>1, PairIsMatched, ReleaseSound
<1> QED BY <1>1, <1>2, ManyEntries

\* Cancel ends one order and releases the other.
LEMMA CancelSound ==
    ASSUME NEW b, SoundBook(b), NEW i \in Ids, NEW c \in Cancel(b, i)
    PROVE  Follows(b, c)
<1>1. /\ Has(b, i) /\ b[i].status \notin Settled
      /\ c = [j \in Ids |->
                 IF j = i THEN [Release(b[j]) EXCEPT !.status = "Cancelled"]
                 ELSE IF j \in Pair(b, i) THEN Release(b[j]) ELSE b[j]]
  BY DEF Cancel
<1>2. Successor(b[i], c[i])
  BY <1>1, Entries, CancelOneSound DEF SoundBook
<1>3. ASSUME NEW j \in Pair(b, i), j # i
      PROVE  j \in Ids /\ Has(b, j) /\ Successor(b[j], c[j])
  <2>1. HasPeer(b, i) /\ j \in Ids
    BY <1>3 DEF Pair
  <2>2. Has(b, j) /\ b[j] \in Order /\ Covered(b[j]) /\ b[j].status = "Matched"
    BY <1>1, <2>1, PairIsMatched DEF HasPeer
  <2> QED BY <1>1, <1>3, <2>1, <2>2, ReleaseSound
<1>4. \A j \in Ids : c[j] = b[j] \/ (Has(b, j) /\ Successor(b[j], c[j]))
  BY <1>1, <1>2, <1>3
<1> QED BY <1>1, <1>4, ManyEntries

\* Match reserves on both orders an amount both have.
LEMMA MatchSound ==
    ASSUME NEW b, SoundBook(b), NEW m \in Ids, NEW t \in Ids, NEW amount \in Nat, NEW now_,
           NEW c \in Match(b, m, t, amount, now_)
    PROVE  Follows(b, c)
<1> DEFINE Reserved(i, peer) == [b[i] EXCEPT !.status = "Matched", !.in_flight = amount,
                                             !.matched = peer]
<1>1. /\ m # t /\ EvaluateMatch(b, m, t, amount, now_)
      /\ c = [b EXCEPT ![m] = Reserved(m, t), ![t] = Reserved(t, m)]
  BY DEF Match
<1>2. /\ amount > 0 /\ amount <= b[m].remaining /\ amount <= b[t].remaining
      /\ Has(b, m) /\ Has(b, t) /\ b[m].status = "Active" /\ b[t].status = "Active"
  BY <1>1 DEF EvaluateMatch, IsTradeable
<1>3. ASSUME NEW i \in Ids, NEW peer \in Ids, Has(b, i), b[i].status = "Active",
             amount <= b[i].remaining
      PROVE  Successor(b[i], Reserved(i, peer))
  <2>1. b[i] \in Order /\ Covered(b[i])
    BY <1>3, Entries DEF SoundBook
  <2> DEFINE p == Reserved(i, peer)
  <2>2. /\ p.status = "Matched" /\ p.in_flight = amount /\ p.matched = peer
        /\ p.remaining = b[i].remaining /\ p.max = b[i].max
    BY <2>1 DEF Order
  <2>3. p \in Order
    BY <2>1 DEF Order, Statuses
  <2>4. peer # None
    BY BookConstants
  <2> HIDE DEF p
  <2>5. Covered(p)
    BY <1>2, <1>3, <2>1, <2>2, <2>4 DEF Covered, Order
  <2> QED BY <1>3, <2>1, <2>2, <2>3, <2>5 DEF Successor, Settled, Order, p
<1>4. /\ c = [j \in Ids |-> c[j]]
      /\ c[m] = Reserved(m, t) /\ c[t] = Reserved(t, m)
      /\ \A j \in Ids \ {m, t} : c[j] = b[j]
  <2> HIDE DEF Reserved
  <2> QED BY <1>1 DEF SoundBook, Book
<1> HIDE DEF Reserved
<1>5. Successor(b[m], c[m]) /\ Successor(b[t], c[t])
  BY <1>2, <1>3, <1>4
<1>6. \A j \in Ids : c[j] = b[j] \/ (Has(b, j) /\ Successor(b[j], c[j]))
  BY <1>2, <1>4, <1>5
<1> QED BY <1>4, <1>6, ManyEntries

\* The sweep ends orders whose time is up, and only Active ones.
LEMMA SweepSound ==
    ASSUME NEW b, SoundBook(b), NEW now_
    PROVE  Follows(b, SweepExpired(b, now_))
<1> DEFINE c == SweepExpired(b, now_)
<1>1. ASSUME NEW j \in Ids, Expired(b, j, now_)
      PROVE  Has(b, j) /\ Successor(b[j], c[j])
  <2>1. Has(b, j) /\ b[j].status = "Active" /\ b[j] \in Order /\ Covered(b[j])
    BY <1>1, Entries DEF Expired, SoundBook
  <2> DEFINE p == [b[j] EXCEPT !.status = "Expired"]
  <2>2. /\ p \in Order /\ p.status = "Expired" /\ p.remaining = b[j].remaining
        /\ p.max = b[j].max /\ p.in_flight = b[j].in_flight /\ p.matched = b[j].matched
    BY <2>1 DEF Order, Statuses, Settled
  <2>3. c[j] = p
    BY <1>1 DEF SweepExpired
  <2> HIDE DEF p
  <2>4. Covered(p)
    BY <2>1, <2>2 DEF Covered, Order
  <2> QED BY <2>1, <2>2, <2>3, <2>4 DEF Successor, Settled, Order
<1>2. c = [j \in Ids |-> c[j]] /\ \A j \in Ids : ~Expired(b, j, now_) => c[j] = b[j]
  BY DEF SweepExpired
<1> HIDE DEF c
<1>3. \A j \in Ids : c[j] = b[j] \/ (Has(b, j) /\ Successor(b[j], c[j]))
  BY <1>1, <1>2
<1>4. Follows(b, c)
  BY <1>2, <1>3, ManyEntries
<1> QED BY <1>4 DEF c

\* What follows what follows a book follows it.
LEMMA FollowsTwice ==
    ASSUME NEW b, SoundBook(b), NEW c, NEW e, Follows(b, c), Follows(c, e)
    PROVE  Follows(b, e)
<1>1. ASSUME NEW i \in Ids, Has(b, i)
      PROVE  Has(e, i) /\ Successor(b[i], e[i])
  <2>1. Has(c, i) /\ Has(e, i) /\ Successor(b[i], c[i]) /\ Successor(c[i], e[i])
    BY <1>1 DEF Follows
  <2>2. b[i] \in Order
    BY <1>1, Entries DEF SoundBook
  <2> QED BY <2>1, <2>2 DEF Successor, Order
<1> QED BY <1>1 DEF Follows

\* A book follows itself.
LEMMA FollowsItself ==
    ASSUME NEW b, SoundBook(b)
    PROVE  Follows(b, b)
BY Entries, Stays DEF SoundBook, Follows

-----------------------------------------------------------------------------
(* The store.  Every cached order and every row comes from a book that a   *)
(* call has made, so that writes which fail or stop half-way need no case  *)
(* of their own.                                                           *)

\* Rows taken from sound books make a sound book.
LEMMA WriteSound ==
    ASSUME NEW d, SoundBook(d), NEW c, SoundBook(c), NEW S
    PROVE  SoundBook(Write(d, c, S))
<1> DEFINE w == Write(d, c, S)
<1>1. w \in Book /\ \A i \in Ids : w[i] = c[i] \/ w[i] = d[i]
  BY DEF Write, SoundBook, Book
<1> QED BY <1>1 DEF SoundBook, Has

\* No order, no account.
LEMMA EmptySound == SoundBook(Empty)
BY DEF SoundBook, Empty, Book, Has

Rest == loaded \in BOOLEAN /\ unlocked \in BOOLEAN /\ mutual \in BOOLEAN /\ now \in Nat /\ faults \in Nat

\* The types and accounts of both copies.
StoreInv == SoundBook(rows) /\ SoundBook(mem) /\ Rest

\* What every step keeps, and what it may do to the cached orders.
Kept == SoundBook(rows') /\ SoundBook(mem') /\ (loaded /\ loaded' => Follows(mem, mem')) /\ Rest'

\* Whatever becomes of the writes, rows and cache are made of books the call saw.
LEMMA PersistSound ==
    ASSUME StoreInv, NEW b, NEW c, NEW d, NEW f \in Ids, NEW g \in Ids,
           Follows(View, b), Follows(b, c), SoundBook(d), Persist(b, c, d, f, g), mutual' \in BOOLEAN
    PROVE  Kept
<1>1. SoundBook(b) /\ SoundBook(c) /\ SoundBook(View)
  BY DEF Follows, StoreInv, View
<1>2. Follows(View, c)
  BY <1>1, FollowsTwice
<1>3. SoundBook(rows')
  BY <1>1, WriteSound DEF Persist
<1>4. SoundBook(mem')
  BY <1>1, EmptySound DEF Persist
<1>5. loaded /\ loaded' => Follows(mem, mem')
  BY <1>2 DEF Persist, View
<1>6. now' \in Nat /\ faults' \in Nat
  BY DEF Persist, StoreInv, Rest
<1>7. loaded' \in BOOLEAN /\ unlocked' \in BOOLEAN
  BY Zenon DEF Persist, StoreInv, Rest
<1>8. Rest'
  BY <1>6, <1>7 DEF Rest
<1> QED BY <1>3, <1>4, <1>5, <1>8 DEF Kept

\* A refused call loads the cache at most.
LEMMA RefusedSound ==
    ASSUME StoreInv, Refused
    PROVE  Kept
<1>1. SoundBook(rows') /\ SoundBook(mem') /\ (loaded => mem' = mem)
  BY DEF StoreInv, Refused, View
<1>2. Rest'
  BY DEF StoreInv, Refused, Rest
<1> QED BY <1>1, <1>2, FollowsItself DEF Kept, StoreInv

\* A call on one row.
LEMMA OneRowSound ==
    ASSUME StoreInv, NEW C, NEW i \in Ids, OneRow(C, i), \A c \in C : Follows(View, c)
    PROVE  Kept
<1>1. Follows(View, View) /\ SoundBook(rows) /\ mutual \in BOOLEAN
  BY FollowsItself DEF StoreInv, View, Rest
<1>2. CASE C = {} /\ Refused
  BY <1>2, RefusedSound
<1>3. CASE \E c \in C : Persist(View, c, rows, i, i) /\ UNCHANGED mutual
  BY <1>1, <1>3, PersistSound
<1> QED BY <1>2, <1>3 DEF OneRow

\* A call on the rows of a pair.
LEMMA TwoRowsSound ==
    ASSUME StoreInv, NEW C, NEW i \in Ids, TwoRows(C, i), \A c \in C : Follows(View, c)
    PROVE  Kept
<1>1. Follows(View, View) /\ SoundBook(rows)
  BY FollowsItself DEF StoreInv, View
<1>2. CASE C = {} /\ Refused
  BY <1>2, RefusedSound
<1>3. CASE \E c \in C : LET p == IF HasPeer(View, i) THEN View[i].matched ELSE i IN
               Persist(View, c, rows, i, p) /\ StaysMutual(rows, c)
  <2>1. PICK c \in C : LET p == IF HasPeer(View, i) THEN View[i].matched ELSE i IN
               Persist(View, c, rows, i, p) /\ StaysMutual(rows, c)
    BY <1>3
  <2> DEFINE p == IF HasPeer(View, i) THEN View[i].matched ELSE i
  <2>2. p \in Ids
    <3>1. View \in Book
      BY DEF StoreInv, View, SoundBook
    <3> QED BY <3>1, Entries DEF HasPeer, Order
  <2>3. mutual' \in BOOLEAN
    BY <2>1 DEF StaysMutual
  <2> QED BY <1>1, <2>1, <2>2, <2>3, PersistSound
<1> QED BY <1>2, <1>3 DEF TwoRows

\* Rows swept by a look at the book are the old ones or the marked ones.
LEMMA SweptSound ==
    ASSUME StoreInv, NEW d \in SweptRows(View)
    PROVE  SoundBook(d) /\ Follows(View, SweepExpired(View, now))
<1>1. SoundBook(View) /\ SoundBook(rows)
  BY DEF StoreInv, View
<1>2. Follows(View, SweepExpired(View, now))
  BY <1>1, SweepSound
<1>3. \E S : d = Write(rows, SweepExpired(View, now), S)
  BY DEF SweptRows
<1> QED BY <1>1, <1>2, <1>3, WriteSound DEF Follows

\* Every step keeps both copies sound, and while the wallet runs the cached orders
\* become what may follow them.
LEMMA StepSound ==
    ASSUME StoreInv, [Next]_vars
    PROVE  Kept
<1>1. /\ SoundBook(View) /\ SoundBook(rows) /\ SoundBook(mem)
      /\ Follows(View, View) /\ Follows(mem, mem)
  BY FollowsItself DEF StoreInv, View
<1>2. CASE CallCreate
  BY <1>1, <1>2, CreateSound, OneRowSound DEF CallCreate
<1>3. CASE CallImport
  <2>1. PICK i \in Ids : \E u \in Uris(i) : OneRow(Import(View, i, u, now), i)
    BY <1>3 DEF CallImport
  <2>2. PICK u \in Uris(i) : OneRow(Import(View, i, u, now), i)
    BY <2>1
  <2>3. \A c \in Import(View, i, u, now) : Follows(View, c)
    BY <1>1, ImportSound
  <2> QED BY <2>2, <2>3, OneRowSound
<1>4. CASE CallApplyImportedUpdate
  <2>1. PICK i \in Ids : \E u \in Uris(i) :
            LET C == ApplyImportedUpdate(View, i, u) IN
            \/ \E c \in C : /\ Persist(View, c, rows, i, i)
                             /\ mutual' = (mutual /\ (View[i].status = "Matched" => mem' = View))
            \/ C = {} /\ Refused
    BY <1>4 DEF CallApplyImportedUpdate
  <2>2. PICK u \in Uris(i) :
            \/ \E c \in ApplyImportedUpdate(View, i, u) :
                   /\ Persist(View, c, rows, i, i)
                   /\ mutual' = (mutual /\ (View[i].status = "Matched" => mem' = View))
            \/ Refused
    BY <2>1
  <2>3. CASE Refused
    BY <2>3, RefusedSound
  <2>4. ASSUME NEW c \in ApplyImportedUpdate(View, i, u), Persist(View, c, rows, i, i),
               mutual' = (mutual /\ (View[i].status = "Matched" => mem' = View))
        PROVE  Kept
    <3>1. mutual' \in BOOLEAN
      BY <2>4
    <3>2. Follows(View, c)
      BY <1>1, UpdateSound
    <3> QED BY <1>1, <2>4, <3>1, <3>2, PersistSound
  <2> QED BY <2>2, <2>3, <2>4
<1>5. CASE CallCancel
  BY <1>1, <1>5, CancelSound, TwoRowsSound DEF CallCancel
<1>6. CASE CallFill
  BY <1>1, <1>6, FillSound, TwoRowsSound DEF CallFill
<1>7. CASE CallUnmatch
  BY <1>1, <1>7, UnmatchSound, TwoRowsSound DEF CallUnmatch
<1>8. CASE CallLinkSwap
  BY <1>1, <1>8, LinkSound, OneRowSound DEF CallLinkSwap
<1>9. CASE CallFillFromLinkedSwap
  <2>1. PICK i \in Ids, amount \in Amounts :
            \/ \E c \in FillFromLinkedSwap(View, i, amount) :
                   /\ Persist(View, c, rows, i, i)
                   /\ mutual' = (mutual /\ (View[i].status = "Matched" => mem' = View))
            \/ Refused
    BY <1>9 DEF CallFillFromLinkedSwap
  <2>2. CASE Refused
    BY <2>2, RefusedSound
  <2>3. ASSUME NEW c \in FillFromLinkedSwap(View, i, amount), Persist(View, c, rows, i, i),
               mutual' = (mutual /\ (View[i].status = "Matched" => mem' = View))
        PROVE  Kept
    <3>1. mutual' \in BOOLEAN
      BY <2>3
    <3>2. Follows(View, c)
      BY <1>1, LinkedFillSound, AmountsAreNaturals
    <3> QED BY <1>1, <2>3, <3>1, <3>2, PersistSound
  <2> QED BY <2>1, <2>2, <2>3
<1>10. CASE CallMatch
  <2>1. PICK m, t \in Ids, amount \in Amounts :
            \E d \in SweptRows(View) :
            \/ \E c \in Match(SweepExpired(View, now), m, t, amount, now) :
                   Persist(SweepExpired(View, now), c, d, m, t) /\ StaysMutual(d, c)
            \/ /\ unlocked
               /\ mem' = SweepExpired(View, now) /\ loaded' = TRUE /\ rows' = d
               /\ UNCHANGED <<unlocked, now, faults, mutual>>
    BY <1>10 DEF CallMatch
  <2> DEFINE b == SweepExpired(View, now)
  <2>2. PICK d \in SweptRows(View) :
            \/ \E c \in Match(b, m, t, amount, now) : Persist(b, c, d, m, t) /\ StaysMutual(d, c)
            \/ /\ unlocked
               /\ mem' = b /\ loaded' = TRUE /\ rows' = d
               /\ UNCHANGED <<unlocked, now, faults, mutual>>
    BY <2>1
  <2>3. SoundBook(d) /\ Follows(View, b) /\ SoundBook(b)
    BY SweptSound DEF Follows
  <2> HIDE DEF b
  <2>4. ASSUME NEW c \in Match(b, m, t, amount, now), Persist(b, c, d, m, t), StaysMutual(d, c)
        PROVE  Kept
    <3>1. mutual' \in BOOLEAN
      BY <2>4 DEF StaysMutual
    <3>2. Follows(b, c)
      BY <2>3, MatchSound, AmountsAreNaturals
    <3> QED BY <2>3, <2>4, <3>1, <3>2, PersistSound
  <2>5. CASE /\ mem' = b /\ loaded' = TRUE /\ rows' = d
             /\ UNCHANGED <<unlocked, now, faults, mutual>>
    BY <2>3, <2>5 DEF Kept, StoreInv, Rest, View
  <2> QED BY <2>2, <2>4, <2>5
<1>11. CASE Look
  <2>1. SoundBook(rows') /\ Follows(View, mem')
    BY <1>11, SweptSound DEF Look
  <2>2. Rest'
    BY <1>11 DEF Look, StoreInv, Rest
  <2> QED BY <1>11, <2>1, <2>2 DEF Kept, Follows, View
<1>12. CASE Clock
  BY <1>1, <1>12 DEF Clock, Kept, StoreInv, Rest
<1>13. CASE ToggleLock
  BY <1>1, <1>13 DEF ToggleLock, Kept, StoreInv, Rest
<1>14. CASE Restart
  BY <1>1, <1>14, EmptySound DEF Restart, Kept, StoreInv, Rest
<1>15. CASE UNCHANGED vars
  BY <1>1, <1>15 DEF vars, Kept, StoreInv, Rest
<1> QED BY <1>2, <1>3, <1>4, <1>5, <1>6, <1>7, <1>8, <1>9, <1>10, <1>11, <1>12, <1>13, <1>14, <1>15 DEF Next

-----------------------------------------------------------------------------
(* Matches in pairs. *)

InMatch(b, i) == Has(b, i) /\ b[i].status = "Matched"

\* Rows and cached orders are the same but for expiry marks that were not written.
Agree(d, m) ==
    \A i \in Ids : d[i] = m[i] \/ /\ Has(d, i) /\ d[i].status = "Active"
                                  /\ m[i].status = "Expired"

\* Neither order of a pair is ever an expired one, so that the rows have the cache's pairs.
LEMMA RowsMutual ==
    ASSUME NEW d, NEW m, SoundBook(m), Agree(d, m), Mutual(m)
    PROVE  Mutual(d)
<1> SUFFICES ASSUME NEW i \in Ids, Has(d, i), d[i].status = "Matched"
             PROVE  LET p == d[i].matched IN
                    /\ p # i /\ Has(d, p)
                    /\ d[p].status = "Matched" /\ d[p].matched = i
                    /\ d[p].in_flight = d[i].in_flight
  BY DEF Mutual
<1>1. d[i] = m[i] /\ Has(m, i)
  BY DEF Agree, Has
<1>2. m[i].matched \in Ids
  BY <1>1, Entries, BookConstants DEF SoundBook, Covered, Order
<1>3. d[m[i].matched] = m[m[i].matched]
  BY <1>1, <1>2 DEF Mutual, Agree
<1> QED BY <1>1, <1>2, <1>3 DEF Mutual, Has

\* The partner of a matched order is in the book.
LEMMA Partner ==
    ASSUME NEW b, SoundBook(b), Mutual(b), NEW i \in Ids, InMatch(b, i)
    PROVE  /\ b[i].matched \in Ids /\ b[i].matched # i /\ InMatch(b, b[i].matched)
           /\ b[b[i].matched].matched = i
BY Entries DEF SoundBook, Mutual, InMatch, Covered, Order

\* Taking a whole pair, or an order that is in none, out of the matches leaves the rest in pairs.
LEMMA WithoutPair ==
    ASSUME NEW b, SoundBook(b), Mutual(b), NEW c, NEW i \in Ids, NEW p \in Ids,
           \A j \in Ids \ {i, p} : c[j] = b[j],
           InMatch(b, i) => p = b[i].matched, ~InMatch(b, i) => p = i,
           ~InMatch(c, i), ~InMatch(c, p)
    PROVE  Mutual(c)
<1> SUFFICES ASSUME NEW j \in Ids, InMatch(c, j)
             PROVE  LET q == c[j].matched IN
                    /\ q # j /\ Has(c, q)
                    /\ c[q].status = "Matched" /\ c[q].matched = j
                    /\ c[q].in_flight = c[j].in_flight
  BY DEF Mutual, InMatch
<1>1. j \notin {i, p} /\ c[j] = b[j] /\ InMatch(b, j)
  BY DEF InMatch, Has
<1> DEFINE q == b[j].matched
<1>2. q \in Ids /\ q # j /\ InMatch(b, q) /\ b[q].matched = j /\ b[q].in_flight = b[j].in_flight
  BY <1>1, Partner DEF Mutual, InMatch
<1>3. q \notin {i, p}
  BY <1>1, <1>2, Partner
<1> QED BY <1>1, <1>2, <1>3 DEF InMatch, Has

\* The order a pair call writes second.
Second(b, i) == IF HasPeer(b, i) THEN b[i].matched ELSE i

\* What the calls on a pair have in common: they change i and its partner only, and
\* leave neither in a match.
Unpairs(b, c, i) ==
    /\ Second(b, i) \in Ids
    /\ \A j \in Ids \ {i, Second(b, i)} : c[j] = b[j]
    /\ Mutual(b) => Mutual(c)

\* The orders of a pair are the two rows its calls write.
LEMMA PairIsSecond ==
    ASSUME NEW b, SoundBook(b), NEW i \in Ids
    PROVE  /\ Second(b, i) \in Ids /\ Pair(b, i) \subseteq {i, Second(b, i)}
           /\ Mutual(b) => /\ Pair(b, i) = {i, Second(b, i)}
                           /\ InMatch(b, i) => Second(b, i) = b[i].matched
                           /\ ~InMatch(b, i) => Second(b, i) = i
<1>1. Second(b, i) \in Ids
  BY Entries DEF Second, HasPeer, SoundBook, Order
<1>2. Pair(b, i) \subseteq {i, Second(b, i)}
  BY DEF Pair, Second
<1>3. ASSUME Mutual(b), InMatch(b, i)
      PROVE  HasPeer(b, i) /\ Pair(b, i) = {i, b[i].matched}
  BY <1>3, Partner, BookConstants DEF HasPeer, InMatch, Pair
<1>4. ~InMatch(b, i) => ~HasPeer(b, i)
  BY DEF HasPeer, InMatch
<1> QED BY <1>1, <1>2, <1>3, <1>4 DEF Second, Pair

\* An order whose match was settled or released is in none.
LEMMA OutOfMatch ==
    ASSUME NEW o \in Order, NEW amount
    PROVE  Consume(o, amount).status # "Matched" /\ Release(o).status = "Active"
BY DEF Consume, Release, Order

\* Calls that take every order of the pair out of its match and change no other.
LEMMA PairGone ==
    ASSUME NEW b, SoundBook(b), NEW i \in Ids, NEW c,
           \A j \in Ids \ ({i} \cup Pair(b, i)) : c[j] = b[j],
           \A j \in {i} \cup Pair(b, i) : ~InMatch(c, j)
    PROVE  Unpairs(b, c, i)
<1>1. Second(b, i) \in Ids /\ Pair(b, i) \subseteq {i, Second(b, i)}
  BY PairIsSecond
<1>2. ASSUME Mutual(b) PROVE Mutual(c)
  <2> DEFINE p == Second(b, i)
  <2>1. /\ Pair(b, i) = {i, p}
        /\ InMatch(b, i) => p = b[i].matched
        /\ ~InMatch(b, i) => p = i
    BY <1>2, PairIsSecond
  <2>2. ~InMatch(c, i) /\ ~InMatch(c, p)
    BY <2>1
  <2>3. \A j \in Ids \ {i, p} : c[j] = b[j]
    BY <2>1
  <2> HIDE DEF p
  <2>4. p \in Ids
    BY <1>1 DEF p
  <2> QED BY <1>2, <2>1, <2>2, <2>3, <2>4, WithoutPair
<1> QED BY <1>1, <1>2 DEF Unpairs

\* Fill takes a pair apart.
LEMMA FillUnpairs ==
    ASSUME NEW b, SoundBook(b), NEW i \in Ids, NEW c \in Fill(b, i)
    PROVE  Unpairs(b, c, i)
<1>1. /\ InMatch(b, i)
      /\ c = [j \in Ids |-> IF j \in Pair(b, i) THEN Consume(b[j], b[i].in_flight) ELSE b[j]]
  BY DEF Fill, InMatch
<1>2. ASSUME NEW j \in Pair(b, i) PROVE j \in Ids /\ ~InMatch(c, j)
  <2>1. j \in Ids /\ b[j] \in Order
    BY <1>1, <1>2, PairIsMatched DEF InMatch
  <2>2. c[j] = Consume(b[j], b[i].in_flight)
    BY <1>1, <1>2, <2>1
  <2> QED BY <2>1, <2>2, OutOfMatch DEF InMatch
<1>3. i \in Pair(b, i)
  BY DEF Pair
<1>4. \A j \in Ids \ ({i} \cup Pair(b, i)) : c[j] = b[j]
  BY <1>1
<1>5. \A j \in {i} \cup Pair(b, i) : ~InMatch(c, j)
  BY <1>2, <1>3
<1> QED BY <1>4, <1>5, PairGone

\* Unmatch takes a pair apart.
LEMMA UnmatchUnpairs ==
    ASSUME NEW b, SoundBook(b), NEW i \in Ids, NEW c \in Unmatch(b, i)
    PROVE  Unpairs(b, c, i)
<1>1. /\ InMatch(b, i)
      /\ c = [j \in Ids |-> IF j \in Pair(b, i) THEN Release(b[j]) ELSE b[j]]
  BY DEF Unmatch, InMatch
<1>2. ASSUME NEW j \in Pair(b, i) PROVE j \in Ids /\ ~InMatch(c, j)
  <2>1. j \in Ids /\ b[j] \in Order
    BY <1>1, <1>2, PairIsMatched DEF InMatch
  <2>2. c[j] = Release(b[j])
    BY <1>1, <1>2, <2>1
  <2> QED BY <2>1, <2>2, OutOfMatch DEF InMatch
<1>3. i \in Pair(b, i)
  BY DEF Pair
<1>4. \A j \in Ids \ ({i} \cup Pair(b, i)) : c[j] = b[j]
  BY <1>1
<1>5. \A j \in {i} \cup Pair(b, i) : ~InMatch(c, j)
  BY <1>2, <1>3
<1> QED BY <1>4, <1>5, PairGone

\* Cancel takes a pair apart, or ends an order that is in none.
LEMMA CancelUnpairs ==
    ASSUME NEW b, SoundBook(b), NEW i \in Ids, NEW c \in Cancel(b, i)
    PROVE  Unpairs(b, c, i)
<1>1. /\ Has(b, i) /\ b[i] \in Order
      /\ c = [j \in Ids |->
                 IF j = i THEN [Release(b[j]) EXCEPT !.status = "Cancelled"]
                 ELSE IF j \in Pair(b, i) THEN Release(b[j]) ELSE b[j]]
  BY Entries DEF Cancel, SoundBook
<1>2. ~InMatch(c, i)
  BY <1>1 DEF InMatch, Release, Order
<1>3. ASSUME NEW j \in Pair(b, i), j # i PROVE j \in Ids /\ ~InMatch(c, j)
  <2>1. j \in Ids /\ InMatch(b, i) /\ b[j] \in Order
    BY <1>3, PairIsMatched DEF Pair, HasPeer, InMatch
  <2>2. c[j] = Release(b[j])
    BY <1>1, <1>3, <2>1
  <2> QED BY <2>1, <2>2, OutOfMatch DEF InMatch
<1>4. \A j \in Ids \ ({i} \cup Pair(b, i)) : c[j] = b[j]
  BY <1>1
<1>5. \A j \in {i} \cup Pair(b, i) : ~InMatch(c, j)
  BY <1>2, <1>3
<1> QED BY <1>4, <1>5, PairGone

\* What the calls on one row have in common.
Lone(b, c, i) ==
    /\ \A j \in Ids \ {i} : c[j] = b[j]
    /\ Mutual(b) => Mutual(c)

\* A call on an order that is in no match before or after it.
LEMMA LoneOutside ==
    ASSUME NEW b, SoundBook(b), NEW i \in Ids, ~InMatch(b, i), NEW o, o.status # "Matched"
    PROVE  Lone(b, [b EXCEPT ![i] = o], i)
<1> DEFINE c == [b EXCEPT ![i] = o]
<1>1. c[i] = o /\ \A j \in Ids \ {i} : c[j] = b[j]
  BY DEF SoundBook, Book
<1>2. ~InMatch(c, i)
  BY <1>1 DEF InMatch
<1> HIDE DEF c
<1>3. ASSUME Mutual(b) PROVE Mutual(c)
  BY <1>1, <1>2, <1>3, WithoutPair
<1>4. Lone(b, c, i)
  BY <1>1, <1>3 DEF Lone
<1> QED BY <1>4 DEF c

\* Create adds an order that is in no match.
LEMMA CreateLone ==
    ASSUME NEW b, SoundBook(b), NEW i \in Ids, NEW c \in Create(b, i)
    PROVE  Lone(b, c, i)
<1>1. ~InMatch(b, i) /\ c = [b EXCEPT ![i] = NewOrder(i)]
  BY DEF Create, InMatch
<1>2. NewOrder(i).status # "Matched"
  BY DEF NewOrder
<1> QED BY <1>1, <1>2, LoneOutside

\* Import adds an order that is in no match.
LEMMA ImportLone ==
    ASSUME NEW b, SoundBook(b), NEW i \in Ids, NEW u, NEW now_, NEW c \in Import(b, i, u, now_)
    PROVE  Lone(b, c, i)
<1> DEFINE o == [NewOrder(i) EXCEPT !.max = u.max, !.foreign = u.foreign, !.remaining = u.max]
<1>1. o.status # "Matched"
  BY DEF NewOrder
<1>2. ~InMatch(b, i) /\ c = [b EXCEPT ![i] = o]
  BY DEF Import, InMatch
<1> HIDE DEF o
<1> QED BY <1>1, <1>2, LoneOutside

\* LinkSwap leaves the match alone.
LEMMA LinkLone ==
    ASSUME NEW b, SoundBook(b), NEW i \in Ids, NEW s \in Swaps, NEW c \in LinkSwap(b, i, s)
    PROVE  Lone(b, c, i)
<1>1. Has(b, i) /\ b[i] \in Order /\ c = [b EXCEPT ![i] = [b[i] EXCEPT !.linked = s]]
  BY Entries DEF LinkSwap, SoundBook
<1>2. /\ \A j \in Ids \ {i} : c[j] = b[j]
      /\ c[i].status = b[i].status /\ c[i].matched = b[i].matched
      /\ c[i].in_flight = b[i].in_flight
  BY <1>1 DEF SoundBook, Book, Order
<1>3. Has(c, i)
  BY <1>1, LinkSound DEF Follows
<1>4. ASSUME Mutual(b) PROVE Mutual(c)
  <2>1. \A j \in Ids : /\ InMatch(c, j) = InMatch(b, j) /\ Has(c, j) = Has(b, j)
                       /\ c[j].matched = b[j].matched /\ c[j].in_flight = b[j].in_flight
                       /\ c[j].status = b[j].status
    BY <1>1, <1>2, <1>3 DEF InMatch, Has
  <2>2. ASSUME NEW j \in Ids, InMatch(c, j)
        PROVE  LET q == c[j].matched IN
               /\ q # j /\ Has(c, q)
               /\ c[q].status = "Matched" /\ c[q].matched = j
               /\ c[q].in_flight = c[j].in_flight
    BY <1>4, <2>1, <2>2, Partner DEF Mutual, InMatch
  <2> QED BY <2>2 DEF Mutual, InMatch
<1> QED BY <1>2, <1>4 DEF Lone

\* An update of an order that is in no match.
LEMMA UpdateLone ==
    ASSUME NEW b, SoundBook(b), NEW i \in Ids, ~InMatch(b, i), NEW u, NEW c \in ApplyImportedUpdate(b, i, u)
    PROVE  Lone(b, c, i)
<1>1. /\ Has(b, i) /\ b[i] \in Order
      /\ c = [b EXCEPT ![i] = ShrunkTo(b[i], u)]
  BY Entries DEF ApplyImportedUpdate, SoundBook
<1>2. ShrunkTo(b[i], u).status # "Matched"
  BY <1>1 DEF ShrunkTo, Order, InMatch
<1> QED BY <1>1, <1>2, LoneOutside

\* A linked fill of an order that is in no match.
LEMMA LinkedFillLone ==
    ASSUME NEW b, SoundBook(b), NEW i \in Ids, ~InMatch(b, i), NEW amount, NEW c \in FillFromLinkedSwap(b, i, amount)
    PROVE  Lone(b, c, i)
<1>1. /\ Has(b, i) /\ b[i] \in Order
      /\ c = [b EXCEPT ![i] = Consume(b[i], amount)]
  BY Entries DEF FillFromLinkedSwap, SoundBook
<1> QED BY <1>1, OutOfMatch, LoneOutside

\* Match makes a pair of two orders that are in none.
LEMMA MatchPairs ==
    ASSUME NEW b, SoundBook(b), NEW m \in Ids, NEW t \in Ids, NEW amount \in Nat, NEW now_,
           NEW c \in Match(b, m, t, amount, now_)
    PROVE  /\ \A j \in Ids \ {m, t} : c[j] = b[j]
           /\ Mutual(b) => Mutual(c)
<1> DEFINE Reserved(i, peer) == [b[i] EXCEPT !.status = "Matched", !.in_flight = amount,
                                             !.matched = peer]
<1>1. /\ m # t /\ EvaluateMatch(b, m, t, amount, now_)
      /\ c = [b EXCEPT ![m] = Reserved(m, t), ![t] = Reserved(t, m)]
  BY DEF Match
<1>2. /\ Has(b, m) /\ Has(b, t) /\ b[m].status = "Active" /\ b[t].status = "Active"
      /\ b[m] \in Order /\ b[t] \in Order
  BY <1>1, Entries DEF EvaluateMatch, IsTradeable, SoundBook
<1>3. \A i \in {m, t}, peer \in Ids : /\ Reserved(i, peer).status = "Matched"
                                      /\ Reserved(i, peer).in_flight = amount
                                      /\ Reserved(i, peer).matched = peer
  BY <1>2 DEF Order
<1> HIDE DEF Reserved
<1>4. /\ c[m] = Reserved(m, t) /\ c[t] = Reserved(t, m)
      /\ \A j \in Ids \ {m, t} : c[j] = b[j]
  BY <1>1 DEF SoundBook, Book
<1>5. Has(c, m) /\ Has(c, t)
  BY <1>2, MatchSound DEF Follows
<1>6. ASSUME Mutual(b), NEW j \in Ids, InMatch(c, j)
      PROVE  LET q == c[j].matched IN
             /\ q # j /\ Has(c, q)
             /\ c[q].status = "Matched" /\ c[q].matched = j
             /\ c[q].in_flight = c[j].in_flight
  <2>1. CASE j \in {m, t}
    BY <2>1, <1>1, <1>3, <1>4, <1>5
  <2>2. CASE j \notin {m, t}
    <3>1. InMatch(b, j) /\ c[j] = b[j]
      BY <2>2, <1>4, <1>6 DEF InMatch, Has
    <3>2. /\ b[j].matched \in Ids /\ b[j].matched # j /\ InMatch(b, b[j].matched)
          /\ b[b[j].matched].matched = j
          /\ b[b[j].matched].in_flight = b[j].in_flight
      BY <3>1, <1>6, Partner DEF Mutual, InMatch
    <3>3. b[j].matched \notin {m, t}
      BY <3>2, <1>2 DEF InMatch
    <3> QED BY <3>1, <3>2, <3>3, <1>4 DEF InMatch, Has
  <2> QED BY <2>1, <2>2
<1> QED BY <1>4, <1>6 DEF Mutual, InMatch

\* The sweep marks no order that is in a match.
LEMMA SweepMutual ==
    ASSUME NEW b, SoundBook(b), Mutual(b), NEW now_
    PROVE  Mutual(SweepExpired(b, now_))
<1> DEFINE c == SweepExpired(b, now_)
<1>1. ASSUME NEW j \in Ids, InMatch(b, j) PROVE c[j] = b[j]
  BY <1>1 DEF InMatch, SweepExpired, Expired
<1>2. ASSUME NEW j \in Ids, InMatch(c, j) PROVE InMatch(b, j)
  BY <1>2, Entries DEF InMatch, SweepExpired, Expired, SoundBook, Order, Has
<1>3. ASSUME NEW j \in Ids, InMatch(c, j)
      PROVE  LET q == c[j].matched IN
             /\ q # j /\ Has(c, q)
             /\ c[q].status = "Matched" /\ c[q].matched = j
             /\ c[q].in_flight = c[j].in_flight
  <2>1. InMatch(b, j) /\ c[j] = b[j]
    BY <1>1, <1>2, <1>3
  <2>2. /\ b[j].matched \in Ids /\ b[j].matched # j /\ InMatch(b, b[j].matched)
        /\ b[b[j].matched].matched = j
        /\ b[b[j].matched].in_flight = b[j].in_flight
    BY <2>1, Partner DEF Mutual, InMatch
  <2>3. c[b[j].matched] = b[b[j].matched]
    BY <1>1, <2>2
  <2> QED BY <2>1, <2>2, <2>3 DEF InMatch, Has
<1> QED BY <1>3 DEF Mutual, InMatch

\* Rows written from c over rows that agreed with b agree with c.
LEMMA WriteAgrees ==
    ASSUME NEW d, NEW b, NEW c, NEW S, Agree(d, b), \A j \in Ids \ S : c[j] = b[j]
    PROVE  Agree(Write(d, c, S), c)
BY DEF Agree, Write, Has

\* The marks a sweep wrote, and the ones it could not write.
LEMMA SweptAgrees ==
    ASSUME SoundBook(View), Agree(rows, View), NEW d \in SweptRows(View)
    PROVE  Agree(d, SweepExpired(View, now))
<1> DEFINE c == SweepExpired(View, now)
<1>1. PICK S \in SUBSET {i \in Ids : Expired(View, i, now)} : d = Write(rows, c, S)
  BY DEF SweptRows
<1>2. ASSUME NEW j \in Ids
      PROVE  d[j] = c[j] \/ (Has(d, j) /\ d[j].status = "Active" /\ c[j].status = "Expired")
  <2>1. CASE j \in S
    BY <1>1, <2>1 DEF Write
  <2>2. CASE j \notin S /\ Expired(View, j, now)
    <3>1. Has(View, j) /\ View[j].status = "Active" /\ View[j] \in Order
      BY <2>2, Entries DEF Expired, SoundBook
    <3>2. rows[j] = View[j] /\ d[j] = rows[j]
      BY <1>1, <2>2, <3>1 DEF Agree, Write
    <3>3. c[j].status = "Expired"
      BY <2>2, <3>1 DEF SweepExpired, Order
    <3> QED BY <3>1, <3>2, <3>3 DEF Has
  <2>3. CASE j \notin S /\ ~Expired(View, j, now)
    BY <1>1, <2>3 DEF SweepExpired, Write, Agree, Has
  <2> QED BY <2>1, <2>2, <2>3
<1> QED BY <1>2 DEF Agree

\* The pairs of the book the next call sees, and their rows.
PairsInv == mutual => Mutual(View) /\ Agree(rows, View)

\* A write that went through, or wrote nothing, leaves matches in pairs.
LEMMA PersistPairs ==
    ASSUME NEW b, NEW c, NEW d, NEW f \in Ids, NEW g \in Ids, Persist(b, c, d, f, g),
           SoundBook(b), Agree(d, b), Mutual(b), Mutual(c),
           \A j \in Ids \ {f, g} : c[j] = b[j],
           rows' = d \/ (loaded' /\ mem' = c)
    PROVE  Mutual(View') /\ Agree(rows', View')
<1>1. CASE mem' = c /\ loaded' = TRUE /\ rows' = Write(d, c, {f, g})
  BY <1>1, WriteAgrees DEF View
<1>2. CASE mem' = b /\ loaded' = TRUE /\ rows' = d
  BY <1>2 DEF View
<1>3. CASE mem' = b /\ loaded' = TRUE /\ rows' = Write(d, c, {f}) /\ rows' # d
  <2>1. b = c
    BY <1>3
  <2>2. Agree(Write(d, c, {f}), c)
    BY <2>1, WriteAgrees
  <2> QED BY <1>3, <2>1, <2>2 DEF View
<1>4. CASE loaded' = FALSE
  <2>1. rows' = d
    BY <1>4
  <2> QED BY <1>4, <2>1, RowsMutual DEF View, Agree
<1> QED BY <1>1, <1>2, <1>3, <1>4 DEF Persist

\* A refused call.
LEMMA RefusedPairs ==
    ASSUME PairsInv, Refused
    PROVE  PairsInv'
BY DEF PairsInv, Refused, View

\* A call on one row.
LEMMA OneRowPairs ==
    ASSUME StoreInv, PairsInv, NEW C, NEW i \in Ids, OneRow(C, i), \A c \in C : Lone(View, c, i)
    PROVE  PairsInv'
<1>1. CASE C = {} /\ Refused
  BY <1>1, RefusedPairs
<1>2. ASSUME NEW c \in C, Persist(View, c, rows, i, i), UNCHANGED mutual, mutual'
      PROVE  Mutual(View') /\ Agree(rows', View')
  <2>1. SoundBook(View) /\ Mutual(View) /\ Agree(rows, View)
    BY <1>2 DEF PairsInv, StoreInv, View
  <2>2. Mutual(c) /\ \A j \in Ids \ {i, i} : c[j] = View[j]
    BY <2>1 DEF Lone
  <2>3. rows' = rows \/ (loaded' /\ mem' = c)
    BY <1>2 DEF Persist
  <2> QED BY <1>2, <2>1, <2>2, <2>3, PersistPairs
<1> QED BY <1>1, <1>2 DEF OneRow, PairsInv

\* A call on the rows of a pair.
LEMMA TwoRowsPairs ==
    ASSUME StoreInv, PairsInv, NEW C, NEW i \in Ids, TwoRows(C, i), \A c \in C : Unpairs(View, c, i)
    PROVE  PairsInv'
<1>1. CASE C = {} /\ Refused
  BY <1>1, RefusedPairs
<1>2. ASSUME NEW c \in C, Persist(View, c, rows, i, Second(View, i)), StaysMutual(rows, c), mutual'
      PROVE  Mutual(View') /\ Agree(rows', View')
  <2>1. mutual /\ (rows' = rows \/ (loaded' /\ mem' = c))
    BY <1>2 DEF StaysMutual
  <2>2. SoundBook(View) /\ Mutual(View) /\ Agree(rows, View)
    BY <2>1 DEF PairsInv, StoreInv, View
  <2>3. Mutual(c) /\ Second(View, i) \in Ids /\ \A j \in Ids \ {i, Second(View, i)} : c[j] = View[j]
    BY <2>2 DEF Unpairs
  <2> QED BY <1>2, <2>1, <2>2, <2>3, PersistPairs
<1> QED BY <1>1, <1>2 DEF TwoRows, PairsInv, Second

\* An update or a linked fill of one order: of a pair only if it is taken back.
LEMMA OneSidedPairs ==
    ASSUME StoreInv, PairsInv, NEW i \in Ids, Has(View, i), NEW c, Persist(View, c, rows, i, i),
           mutual' = (mutual /\ (View[i].status = "Matched" => mem' = View)),
           \A j \in Ids \ {i} : c[j] = View[j],
           ~InMatch(View, i) => Lone(View, c, i)
    PROVE  PairsInv'
<1> SUFFICES ASSUME mutual' PROVE Mutual(View') /\ Agree(rows', View')
  BY DEF PairsInv
<1>1. SoundBook(View) /\ Mutual(View) /\ Agree(rows, View)
  BY DEF PairsInv, StoreInv, View
<1>2. rows' = rows \/ (loaded' /\ mem' = c)
  BY DEF Persist
<1>3. CASE ~InMatch(View, i)
  BY <1>1, <1>2, <1>3, PersistPairs DEF Lone
<1>4. CASE InMatch(View, i)
  <2>1. mem' = View
    BY <1>4 DEF InMatch
  <2>2. CASE mem' = c
    BY <1>1, <1>2, <2>1, <2>2, PersistPairs
  <2>3. CASE mem' # c
    <3>1. loaded' = TRUE /\ rows' = rows
      BY <2>3 DEF Persist
    <3> QED BY <1>1, <2>1, <3>1 DEF View
  <2> QED BY <2>2, <2>3
<1> QED BY <1>3, <1>4

\* Every step leaves matches in pairs unless it breaks one.
LEMMA StepPairs ==
    ASSUME StoreInv, PairsInv, [Next]_vars
    PROVE  PairsInv'
<1>1. SoundBook(View)
  BY DEF StoreInv, View
<1>2. CASE CallCreate
  BY <1>1, <1>2, CreateLone, OneRowPairs DEF CallCreate
<1>3. CASE CallImport
  <2>1. PICK i \in Ids : \E u \in Uris(i) : OneRow(Import(View, i, u, now), i)
    BY <1>3 DEF CallImport
  <2>2. PICK u \in Uris(i) : OneRow(Import(View, i, u, now), i)
    BY <2>1
  <2>3. \A c \in Import(View, i, u, now) : Lone(View, c, i)
    BY <1>1, ImportLone
  <2> QED BY <2>2, <2>3, OneRowPairs
<1>4. CASE CallApplyImportedUpdate
  <2>1. PICK i \in Ids : \E u \in Uris(i) :
            LET C == ApplyImportedUpdate(View, i, u) IN
            \/ \E c \in C : /\ Persist(View, c, rows, i, i)
                             /\ mutual' = (mutual /\ (View[i].status = "Matched" => mem' = View))
            \/ C = {} /\ Refused
    BY <1>4 DEF CallApplyImportedUpdate
  <2>2. PICK u \in Uris(i) :
            \/ \E c \in ApplyImportedUpdate(View, i, u) :
                   /\ Persist(View, c, rows, i, i)
                   /\ mutual' = (mutual /\ (View[i].status = "Matched" => mem' = View))
            \/ Refused
    BY <2>1
  <2>3. CASE Refused
    BY <2>3, RefusedPairs
  <2>4. ASSUME NEW c \in ApplyImportedUpdate(View, i, u), Persist(View, c, rows, i, i),
               mutual' = (mutual /\ (View[i].status = "Matched" => mem' = View))
        PROVE  PairsInv'
    <3>1. Has(View, i) /\ \A j \in Ids \ {i} : c[j] = View[j]
      BY <1>1 DEF ApplyImportedUpdate, SoundBook, Book
    <3>2. ~InMatch(View, i) => Lone(View, c, i)
      BY <1>1, UpdateLone
    <3> QED BY <2>4, <3>1, <3>2, OneSidedPairs
  <2> QED BY <2>2, <2>3, <2>4
<1>5. CASE CallCancel
  BY <1>1, <1>5, CancelUnpairs, TwoRowsPairs DEF CallCancel
<1>6. CASE CallFill
  BY <1>1, <1>6, FillUnpairs, TwoRowsPairs DEF CallFill
<1>7. CASE CallUnmatch
  BY <1>1, <1>7, UnmatchUnpairs, TwoRowsPairs DEF CallUnmatch
<1>8. CASE CallLinkSwap
  BY <1>1, <1>8, LinkLone, OneRowPairs DEF CallLinkSwap
<1>9. CASE CallFillFromLinkedSwap
  <2>1. PICK i \in Ids, amount \in Amounts :
            \/ \E c \in FillFromLinkedSwap(View, i, amount) :
                   /\ Persist(View, c, rows, i, i)
                   /\ mutual' = (mutual /\ (View[i].status = "Matched" => mem' = View))
            \/ Refused
    BY <1>9 DEF CallFillFromLinkedSwap
  <2>2. CASE Refused
    BY <2>2, RefusedPairs
  <2>3. ASSUME NEW c \in FillFromLinkedSwap(View, i, amount), Persist(View, c, rows, i, i),
               mutual' = (mutual /\ (View[i].status = "Matched" => mem' = View))
        PROVE  PairsInv'
    <3>1. Has(View, i) /\ \A j \in Ids \ {i} : c[j] = View[j]
      BY <1>1 DEF FillFromLinkedSwap, SoundBook, Book
    <3>2. ~InMatch(View, i) => Lone(View, c, i)
      BY <1>1, LinkedFillLone
    <3> QED BY <2>3, <3>1, <3>2, OneSidedPairs
  <2> QED BY <2>1, <2>2, <2>3
<1>10. CASE CallMatch
  <2>1. PICK m, t \in Ids, amount \in Amounts :
            \E d \in SweptRows(View) :
            \/ \E c \in Match(SweepExpired(View, now), m, t, amount, now) :
                   Persist(SweepExpired(View, now), c, d, m, t) /\ StaysMutual(d, c)
            \/ /\ unlocked
               /\ mem' = SweepExpired(View, now) /\ loaded' = TRUE /\ rows' = d
               /\ UNCHANGED <<unlocked, now, faults, mutual>>
    BY <1>10 DEF CallMatch
  <2> DEFINE b == SweepExpired(View, now)
  <2>2. PICK d \in SweptRows(View) :
            \/ \E c \in Match(b, m, t, amount, now) : Persist(b, c, d, m, t) /\ StaysMutual(d, c)
            \/ /\ unlocked
               /\ mem' = b /\ loaded' = TRUE /\ rows' = d
               /\ UNCHANGED <<unlocked, now, faults, mutual>>
    BY <2>1
  <2>3. SoundBook(b)
    BY <1>1, SweepSound DEF Follows
  <2>4. mutual => Mutual(b) /\ Agree(d, b)
    BY <1>1, SweepMutual, SweptAgrees DEF PairsInv
  <2> HIDE DEF b
  <2>5. ASSUME NEW c \in Match(b, m, t, amount, now), Persist(b, c, d, m, t), StaysMutual(d, c), mutual'
        PROVE  Mutual(View') /\ Agree(rows', View')
    <3>1. mutual /\ (rows' = d \/ (loaded' /\ mem' = c))
      BY <2>5 DEF StaysMutual
    <3>2. Mutual(c) /\ \A j \in Ids \ {m, t} : c[j] = b[j]
      BY <2>3, <2>4, <3>1, MatchPairs, AmountsAreNaturals
    <3> QED BY <2>3, <2>4, <2>5, <3>1, <3>2, PersistPairs
  <2>6. CASE /\ mem' = b /\ loaded' = TRUE /\ rows' = d
             /\ UNCHANGED <<unlocked, now, faults, mutual>>
    BY <2>4, <2>6 DEF PairsInv, View
  <2> QED BY <2>2, <2>5, <2>6 DEF PairsInv
<1>11. CASE Look
  <2>1. mutual => Mutual(mem') /\ Agree(rows', mem')
    BY <1>1, <1>11, SweepMutual, SweptAgrees DEF PairsInv, Look
  <2> QED BY <1>11, <2>1 DEF Look, PairsInv, View
<1>12. CASE Clock
  BY <1>12 DEF Clock, PairsInv, View
<1>13. CASE ToggleLock
  BY <1>13 DEF ToggleLock, PairsInv, View
<1>14. CASE Restart
  <2>1. View' = rows /\ rows' = rows /\ mutual' = mutual
    BY <1>14 DEF Restart, View
  <2> QED BY <1>1, <2>1, RowsMutual DEF PairsInv, Agree
<1>15. CASE UNCHANGED vars
  BY <1>15 DEF vars, PairsInv, View
<1> QED BY <1>2, <1>3, <1>4, <1>5, <1>6, <1>7, <1>8, <1>9, <1>10, <1>11, <1>12, <1>13, <1>14, <1>15 DEF Next

-----------------------------------------------------------------------------
(* Theorems. *)

\* The invariant and what every step does to the cached orders.
LEMMA Invariance ==
    Spec => [](StoreInv /\ PairsInv) /\ [][Kept]_vars
<1>1. Init => StoreInv /\ PairsInv
  <2> SUFFICES ASSUME Init PROVE StoreInv /\ PairsInv
    OBVIOUS
  <2>1. StoreInv
    BY EmptySound DEF Init, StoreInv, Rest
  <2>2. PairsInv
    BY DEF Init, PairsInv, View, Mutual, Agree, Empty, Has
  <2> QED BY <2>1, <2>2
<1>2. StoreInv /\ PairsInv /\ [Next]_vars => (StoreInv /\ PairsInv)' /\ [Kept]_vars
  BY StepSound, StepPairs DEF Kept, StoreInv
<1> QED BY <1>1, <1>2, PTL DEF Spec

\* Rows, cached orders and the rest have their types in every state.
THEOREM TypeCorrect == Spec => []TypeOK
<1>1. StoreInv => TypeOK
  BY DEF StoreInv, SoundBook, Rest, TypeOK
<1> QED BY <1>1, Invariance, PTL

\* Whatever fails, shrinks, expires or restarts, every order's account adds up
\* (pricoin_offer.h: pric_remaining_sat and pric_in_flight_sat).
THEOREM AccountsAddUp == Spec => []ReservedIsCovered
<1>1. StoreInv => ReservedIsCovered
  BY DEF StoreInv, SoundBook, ReservedIsCovered
<1> QED BY <1>1, Invariance, PTL

\* Matched orders come in pairs until a half-written call, or a call on one order
\* of a pair alone, breaks one (Match, Fill, Unmatch, Cancel).
THEOREM MatchesInPairs == Spec => []MatchIsMutual
<1>1. StoreInv /\ PairsInv => MatchIsMutual
  BY RowsMutual DEF StoreInv, PairsInv, MatchIsMutual, View
<1> QED BY <1>1, Invariance, PTL

\* While the wallet runs, no call reopens a Filled, Cancelled or Expired order.
THEOREM NoReopening == Spec => SettledIsFinal
<1>1. [Kept]_vars =>
        [loaded /\ loaded' =>
            \A i \in Ids : Has(mem, i) /\ mem[i].status \in Settled =>
                Has(mem', i) /\ mem'[i].status = mem[i].status]_vars
  BY DEF Kept, Follows, Successor
<1> QED BY <1>1, Invariance, PTL DEF SettledIsFinal

\* While the wallet runs, no call gives an order back what was consumed of it.
THEOREM NoRefill == Spec => NeverGrows
<1>1. [Kept]_vars =>
        [loaded /\ loaded' =>
            \A i \in Ids : Has(mem, i) =>
                /\ Has(mem', i)
                /\ mem'[i].remaining <= mem[i].remaining
                /\ mem'[i].max <= mem[i].max]_vars
  BY DEF Kept, Follows, Successor
<1> QED BY <1>1, Invariance, PTL DEF NeverGrows

-----------------------------------------------------------------------------
(* Settlement.  A call other than the two fills changes no account.  The   *)
(* fills are called for a swap the tick knows to be complete, from the     *)
(* record or from its list; the list may be old, but a swap that was       *)
(* complete stays so.                                                      *)

\* The orders hold what they held.
SameAccounts(b, c) ==
    \A i \in Ids : c[i].remaining = b[i].remaining /\ c[i].max = b[i].max

\* Every order is in the book.
FullBook(b) == SoundBook(b) /\ \A i \in Ids : Has(b, i)

TickInv ==
    /\ tick = [at |-> tick.at, orders |-> tick.orders, states |-> tick.states,
               swap |-> tick.swap, order |-> tick.order]
    /\ tick.at \in {"idle", "hook", "settle", "orders", "reconcile"}
    /\ tick.at \in {"hook", "settle"} => tick.swap \in Swaps
    /\ tick.at = "settle" => tick.order \in Ids
    /\ DOMAIN tick.orders \subseteq Ids
    /\ \A i \in DOMAIN tick.orders : tick.orders[i].linked \in Swaps \cup {None}
    /\ tick.at = "reconcile" =>
        \A s \in Swaps : tick.states[s] = "Complete" => swaps[s].state = "Complete"

SettlementInv ==
    /\ FullBook(book)
    /\ swaps \in [Swaps -> SwapRecord]
    /\ TickInv
    /\ NothingConsumedInVain

-----------------------------------------------------------------------------
(* Calls that leave the accounts alone. *)

\* Matching reserves and takes nothing (Match).
LEMMA MatchKeeps ==
    ASSUME NEW b, FullBook(b), NEW m \in Ids, NEW t \in Ids, NEW amount, NEW at,
           NEW c \in Match(b, m, t, amount, at)
    PROVE  SameAccounts(b, c)
<1>1. b \in [Ids -> Order]
  BY Entries DEF FullBook, SoundBook, Book
<1> DEFINE Reserved(i, peer) == [b[i] EXCEPT !.status = "Matched", !.in_flight = amount,
                                             !.matched = peer]
<1>2. c = [b EXCEPT ![m] = Reserved(m, t), ![t] = Reserved(t, m)]
  BY DEF Match
<1>3. \A i \in Ids, peer \in Ids : Reserved(i, peer).remaining = b[i].remaining
                                   /\ Reserved(i, peer).max = b[i].max
  BY <1>1 DEF Order
<1> HIDE DEF Reserved
<1>4. \A i \in Ids : c[i] = b[i] \/ (\E peer \in Ids : c[i] = Reserved(i, peer))
  BY <1>1, <1>2
<1>5. ASSUME NEW i \in Ids
      PROVE  c[i].remaining = b[i].remaining /\ c[i].max = b[i].max
  <2>1. CASE c[i] = b[i]
    BY <2>1
  <2>2. CASE \E peer \in Ids : c[i] = Reserved(i, peer)
    <3>1. PICK peer \in Ids : c[i] = Reserved(i, peer)
      BY <2>2
    <3>2. Reserved(i, peer).remaining = b[i].remaining /\ Reserved(i, peer).max = b[i].max
      BY <1>3
    <3> QED BY <3>1, <3>2
  <2> QED BY <1>4, <2>1, <2>2
<1> QED BY <1>5 DEF SameAccounts

\* Releasing a match gives back the reservation only (Unmatch).
LEMMA UnmatchKeeps ==
    ASSUME NEW b, FullBook(b), NEW i \in Ids, NEW c \in Unmatch(b, i)
    PROVE  SameAccounts(b, c)
<1>1. \A j \in Ids : b[j] \in Order
  BY Entries DEF FullBook, SoundBook
<1>2. \A j \in Ids : Release(b[j]).remaining = b[j].remaining /\ Release(b[j]).max = b[j].max
  BY <1>1 DEF Release, Order
<1>3. \A j \in Ids : c[j] = b[j] \/ c[j] = Release(b[j])
  BY DEF Unmatch
<1> QED BY <1>2, <1>3 DEF SameAccounts

\* A cancelled order keeps what it had (Cancel).
LEMMA CancelKeeps ==
    ASSUME NEW b, FullBook(b), NEW i \in Ids, NEW c \in Cancel(b, i)
    PROVE  SameAccounts(b, c)
<1>1. \A j \in Ids : b[j] \in Order
  BY Entries DEF FullBook, SoundBook
<1> DEFINE Ended_(o) == [Release(o) EXCEPT !.status = "Cancelled"]
<1>2. \A j \in Ids : /\ Release(b[j]).remaining = b[j].remaining /\ Release(b[j]).max = b[j].max
                     /\ Ended_(b[j]).remaining = b[j].remaining /\ Ended_(b[j]).max = b[j].max
  BY <1>1 DEF Release, Order
<1>3. \A j \in Ids : c[j] = b[j] \/ c[j] = Release(b[j]) \/ c[j] = Ended_(b[j])
  BY DEF Cancel
<1> QED BY <1>2, <1>3 DEF SameAccounts

\* A book that follows a full one is full.
LEMMA FullFollows ==
    ASSUME NEW b, FullBook(b), NEW c, Follows(b, c)
    PROVE  FullBook(c)
BY DEF FullBook, Follows

\* What has not been taken is still there after a step that keeps the accounts.
LEMMA StillNothing ==
    ASSUME NothingConsumedInVain, SameAccounts(book, book'),
           \A s \in Swaps : swaps[s].state = "Complete" => swaps'[s].state = "Complete"
    PROVE  NothingConsumedInVain'
BY DEF NothingConsumedInVain, SameAccounts

-----------------------------------------------------------------------------
(* Steps. *)

\* The tick is over (IdleTick).
LEMMA IdleSound ==
    ASSUME tick' = IdleTick
    PROVE  TickInv'
BY DEF TickInv, IdleTick, NoList

\* The record of a swap that ends: a complete one stays so.
LEMMA EndSound ==
    ASSUME swaps \in [Swaps -> SwapRecord], NEW s \in Swaps, swaps[s].state # "Complete",
           NEW r \in SwapRecord, swaps' = [swaps EXCEPT ![s] = r]
    PROVE  /\ swaps' \in [Swaps -> SwapRecord]
           /\ \A q \in Swaps : swaps[q].state = "Complete" => swaps'[q].state = "Complete"
OBVIOUS

\* A tick that waits knows of no swap more than is true.
LEMMA TickWaits ==
    ASSUME TickInv, UNCHANGED tick,
           \A q \in Swaps : swaps[q].state = "Complete" => swaps'[q].state = "Complete"
    PROVE  TickInv'
BY DEF TickInv

\* The calls of the hook and the pass leave a full book, and take something only for
\* a completed swap (Fill, Unmatch, FillFromLinkedSwap).
LEMMA SettleSound ==
    ASSUME SettlementInv, NEW i \in Ids, UNCHANGED swaps,
           NEW s \in Swaps, NEW call,
           \/ swaps[s].state = "Complete" /\ call = Fill(book, i)
           \/ swaps[s].state = "Complete" /\ call = FillFromLinkedSwap(book, i, swaps[s].amount)
           \/ call = Unmatch(book, i),
           After(call)
    PROVE  FullBook(book') /\ NothingConsumedInVain'
<1>1. FullBook(book) /\ SoundBook(book) /\ swaps[s].amount \in Nat
  BY DEF SettlementInv, FullBook, SwapRecord
<1>2. CASE book' = book
  BY <1>1, <1>2 DEF SettlementInv, NothingConsumedInVain
<1>3. CASE book' \in call
  <2>1. Follows(book, book')
    BY <1>1, <1>3, FillSound, LinkedFillSound, UnmatchSound
  <2>2. FullBook(book')
    BY <1>1, <2>1, FullFollows
  <2>3. CASE swaps[s].state = "Complete"
    BY <2>2, <2>3 DEF NothingConsumedInVain
  <2>4. CASE call = Unmatch(book, i)
    <3>1. SameAccounts(book, book')
      BY <1>1, <1>3, <2>4, UnmatchKeeps
    <3> QED BY <2>2, <3>1, StillNothing DEF SettlementInv
  <2> QED BY <2>3, <2>4
<1> QED BY <1>2, <1>3 DEF After

\* A step of the page or of the network keeps the invariant.
LEMMA OutsideSound ==
    ASSUME SettlementInv, UNCHANGED <<swaps, tick>>, Follows(book, book'), SameAccounts(book, book')
    PROVE  SettlementInv'
<1>1. FullBook(book') /\ NothingConsumedInVain' /\ TickInv'
  BY FullFollows, StillNothing, TickWaits DEF SettlementInv
<1> QED BY <1>1 DEF SettlementInv

\* Linking changes no account (LinkSwap).
LEMMA LinksSound ==
    ASSUME NEW b, FullBook(b), NEW s \in Swaps, NEW L, NEW c,
           c = [j \in Ids |-> IF j \in L /\ b[j].linked = None
                              THEN [b[j] EXCEPT !.linked = s] ELSE b[j]]
    PROVE  Follows(b, c) /\ SameAccounts(b, c)
<1>1. SoundBook(b) /\ \A j \in Ids : Has(b, j) /\ b[j] \in Order /\ Covered(b[j])
  BY Entries DEF FullBook, SoundBook
<1>2. ASSUME NEW o \in Order, Covered(o)
      PROVE  LET p == [o EXCEPT !.linked = s]
             IN  p.remaining = o.remaining /\ p.max = o.max /\ Successor(o, p)
  <2> DEFINE p == [o EXCEPT !.linked = s]
  <2>1. /\ p \in Order /\ Covered(p) /\ p.remaining = o.remaining /\ p.max = o.max
        /\ p.status = o.status
    BY <1>2 DEF Order, Covered
  <2> QED BY <2>1 DEF Successor, Order
<1>3. \A j \in Ids : c[j] = b[j] \/ (Has(b, j) /\ Successor(b[j], c[j]))
  BY <1>1, <1>2
<1>4. SameAccounts(b, c)
  BY <1>1, <1>2 DEF SameAccounts
<1> QED BY <1>1, <1>3, <1>4, ManyEntries

\* One tick of the pass over an order (TryReconcileMatchedOrders).
LEMMA ReconcileSound ==
    ASSUME SettlementInv, NEW i \in Ids, Reconcile(i)
    PROVE  SettlementInv'
<1> DEFINE o == tick.orders[i]
<1>1. /\ TickInv /\ FullBook(book) /\ tick.at = "reconcile" /\ UNCHANGED swaps
      /\ i \in DOMAIN tick.orders /\ o.linked \in Swaps \cup {None}
  BY DEF SettlementInv, Reconcile, TickInv
<1>2. FullBook(book') /\ NothingConsumedInVain'
  <2>1. CASE LinkedComplete(o) /\ After(FillFromLinkedSwap(book, i, swaps[o.linked].amount))
    <3>1. o.linked \in Swaps /\ swaps[o.linked].state = "Complete"
      BY <1>1, <2>1 DEF LinkedComplete, LinkedOpen, TickInv
    <3> QED BY <1>1, <2>1, <3>1, SettleSound
  <2>2. CASE \E s \in Candidates(o) : After(SettleMatched(i, s))
    <3>1. PICK s \in Swaps : After(SettleMatched(i, s))
      BY <2>2 DEF Candidates
    <3>2. tick.states[s] = "Complete" => swaps[s].state = "Complete"
      BY <1>1 DEF TickInv
    <3>3. \/ swaps[s].state = "Complete" /\ SettleMatched(i, s) = Fill(book, i)
          \/ SettleMatched(i, s) = Unmatch(book, i)
      BY <3>2 DEF SettleMatched
    <3> QED BY <1>1, <3>1, <3>3, SettleSound
  <2>3. CASE UNCHANGED book
    BY <1>1, <2>3 DEF SettlementInv, NothingConsumedInVain
  <2> QED BY <2>1, <2>2, <2>3 DEF Reconcile
<1>3. TickInv'
  <2> DEFINE rest == DOMAIN tick.orders \ {i}
  <2>1. CASE rest = {}
    BY <2>1, IdleSound DEF Reconcile
  <2>2. CASE rest # {}
    <3>1. tick' = [tick EXCEPT !.orders = [j \in rest |-> tick.orders[j]]]
      BY <2>2 DEF Reconcile
    <3>2. /\ tick'.orders = [j \in rest |-> tick.orders[j]] /\ tick'.at = tick.at
          /\ tick'.states = tick.states /\ tick'.swap = tick.swap /\ tick'.order = tick.order
          /\ tick' = [at |-> tick'.at, orders |-> tick'.orders, states |-> tick'.states,
                      swap |-> tick'.swap, order |-> tick'.order]
      BY <1>1, <3>1 DEF TickInv
    <3> QED BY <1>1, <3>2 DEF TickInv
  <2> QED BY <2>1, <2>2
<1> QED BY <1>1, <1>2, <1>3 DEF SettlementInv

-----------------------------------------------------------------------------
(* The invariant. *)

\* Nothing is taken and nothing read at the start.
LEMMA InitSound == SettlementInit => SettlementInv
<1> SUFFICES ASSUME SettlementInit PROVE SettlementInv
  OBVIOUS
<1>1. \A i \in Ids : book[i] \in Order /\ Covered(book[i])
                     /\ book[i].remaining = book[i].max
  BY NewOrderSound DEF SettlementInit, NewOrder
<1>2. book \in [Ids -> Order]
  BY <1>1 DEF SettlementInit
<1>3. FullBook(book)
  <2>1. book \in Book
    BY <1>2 DEF Book
  <2> QED BY <1>1, <2>1, Entries DEF FullBook, SoundBook
<1>4. swaps \in [Swaps -> SwapRecord]
  BY DEF SettlementInit, SwapRecord
<1>5. TickInv
  BY DEF SettlementInit, TickInv, IdleTick, NoList
<1> QED BY <1>1, <1>3, <1>4, <1>5 DEF SettlementInv, NothingConsumedInVain

\* Every step keeps the invariant, one case per action.
LEMMA SettlementStep ==
    ASSUME SettlementInv, [SettlementNext]_settlementVars
    PROVE  SettlementInv'
<1>0. /\ FullBook(book) /\ SoundBook(book) /\ swaps \in [Swaps -> SwapRecord] /\ TickInv
      /\ NothingConsumedInVain
  BY DEF SettlementInv, FullBook
<1>1. CASE MatchOrders
  <2>1. PICK mine \in Ids, theirs \in Ids, amount \in Amounts :
             book' \in Match(book, mine, theirs, amount, 0)
    BY <1>1 DEF MatchOrders
  <2>2. amount \in Nat
    BY AmountsAreNaturals
  <2>3. Follows(book, book') /\ SameAccounts(book, book')
    BY <1>0, <2>1, <2>2, MatchSound, MatchKeeps
  <2> QED BY <1>1, <2>3, OutsideSound DEF MatchOrders
<1>2. ASSUME NEW i \in Ids, ReleaseMatch(i)
      PROVE  SettlementInv'
  BY <1>0, <1>2, UnmatchSound, UnmatchKeeps, OutsideSound DEF ReleaseMatch
<1>3. ASSUME NEW i \in Ids, CancelOrder(i)
      PROVE  SettlementInv'
  BY <1>0, <1>3, CancelSound, CancelKeeps, OutsideSound DEF CancelOrder
<1>4. ASSUME NEW s \in Swaps, StartSwap(s)
      PROVE  SettlementInv'
  <2>0. PICK i \in Ids :
          /\ HasPeer(book, i)
          /\ swaps' = [swaps EXCEPT ![s] = [state |-> "live", amount |-> book[i].in_flight]]
          /\ \E L \in SUBSET {i, book[i].matched} :
               book' = [j \in Ids |-> IF j \in L /\ book[j].linked = None
                                      THEN [book[j] EXCEPT !.linked = s] ELSE book[j]]
    BY <1>4 DEF StartSwap
  <2>1. PICK L \in SUBSET {i, book[i].matched} :
          book' = [j \in Ids |-> IF j \in L /\ book[j].linked = None
                                 THEN [book[j] EXCEPT !.linked = s] ELSE book[j]]
    BY <2>0
  <2>2. Follows(book, book') /\ SameAccounts(book, book')
    BY <1>0, <2>1, LinksSound
  <2>3. book[i].in_flight \in Nat
    BY <1>0, Entries DEF FullBook, SoundBook, Order
  <2>4. [state |-> "live", amount |-> book[i].in_flight] \in SwapRecord
    BY <2>3 DEF SwapRecord
  <2>5. swaps[s].state # "Complete" /\ UNCHANGED tick
    BY <1>4 DEF StartSwap
  <2>6. /\ swaps' \in [Swaps -> SwapRecord]
        /\ \A q \in Swaps : swaps[q].state = "Complete" => swaps'[q].state = "Complete"
    BY <1>0, <2>0, <2>4, <2>5, EndSound
  <2> QED BY <1>0, <2>2, <2>5, <2>6, FullFollows, StillNothing, TickWaits DEF SettlementInv
<1>5. ASSUME NEW s \in Swaps, EndSwap(s) \/ HandleEntry(s)
      PROVE  SettlementInv'
  <2>1. PICK end \in Ended : swaps' = [swaps EXCEPT ![s].state = end]
    BY <1>5 DEF EndSwap, HandleEntry
  <2>2. swaps[s].state = "live" /\ UNCHANGED book
    BY <1>5 DEF EndSwap, HandleEntry
  <2> DEFINE r == [swaps[s] EXCEPT !.state = end]
  <2>3. r \in SwapRecord /\ swaps' = [swaps EXCEPT ![s] = r]
    BY <1>0, <2>1 DEF SwapRecord, Ended
  <2>4. /\ swaps' \in [Swaps -> SwapRecord]
        /\ \A q \in Swaps : swaps[q].state = "Complete" => swaps'[q].state = "Complete"
    BY <1>0, <2>2, <2>3, EndSound
  <2>5. FullBook(book') /\ NothingConsumedInVain'
    BY <1>0, <2>2, <2>4, StillNothing DEF SameAccounts
  <2>6. TickInv'
    <3>1. CASE UNCHANGED tick
      BY <1>0, <2>4, <3>1, TickWaits
    <3>2. CASE tick' = [IdleTick EXCEPT !.at = "hook", !.swap = s]
      BY <3>2 DEF TickInv, IdleTick, NoList
    <3> QED BY <1>5, <3>1, <3>2 DEF EndSwap, HandleEntry
  <2> QED BY <2>4, <2>5, <2>6 DEF SettlementInv
<1>6. CASE HookList
  <2>1. UNCHANGED <<book, swaps>> /\ tick.at = "hook"
    BY <1>6 DEF HookList
  <2>2. TickInv'
    <3>1. CASE tick' = IdleTick
      BY <3>1, IdleSound
    <3>2. CASE \E i \in Ids : tick' = [tick EXCEPT !.at = "settle", !.order = i]
      BY <1>0, <2>1, <3>2 DEF TickInv
    <3> QED BY <1>6, <3>1, <3>2 DEF HookList
  <2> QED BY <1>0, <2>1, <2>2 DEF SettlementInv, NothingConsumedInVain
<1>7. CASE HookSettle
  <2>1. /\ tick.swap \in Swaps /\ tick.order \in Ids /\ UNCHANGED swaps /\ tick' = IdleTick
    BY <1>0, <1>7 DEF HookSettle, TickInv
  <2> DEFINE call == IF swaps[tick.swap].state = "Complete" THEN Fill(book, tick.order)
                                                            ELSE Unmatch(book, tick.order)
  <2>2. After(call)
    BY <1>7 DEF HookSettle
  <2>3. \/ swaps[tick.swap].state = "Complete" /\ call = Fill(book, tick.order)
        \/ call = Unmatch(book, tick.order)
    OBVIOUS
  <2> HIDE DEF call
  <2>4. FullBook(book') /\ NothingConsumedInVain'
    BY <2>1, <2>2, <2>3, SettleSound
  <2> QED BY <1>0, <2>1, <2>4, IdleSound DEF SettlementInv
<1>8. CASE ReconcileOrders
  <2>1. /\ UNCHANGED <<book, swaps>>
        /\ tick' = [IdleTick EXCEPT !.at = "orders", !.orders = [i \in Listed |-> Seen(book[i])]]
    BY <1>8 DEF ReconcileOrders
  <2>2. \A i \in Ids : book[i].linked \in Swaps \cup {None}
    BY <1>0, Entries DEF FullBook, SoundBook, Order
  <2>3. \A i \in Listed : i \in Ids /\ Seen(book[i]).linked \in Swaps \cup {None}
    BY <2>2 DEF Listed, Seen
  <2>4. TickInv'
    <3> HIDE DEF Listed, Seen
    <3> QED BY <2>1, <2>3 DEF TickInv, IdleTick
  <2> QED BY <1>0, <2>1, <2>4 DEF SettlementInv, NothingConsumedInVain
<1>9. CASE ReconcileSwaps
  <2>1. /\ UNCHANGED <<book, swaps>>
        /\ tick' = [tick EXCEPT !.at = "reconcile", !.states = [s \in Swaps |-> swaps[s].state]]
    BY <1>9 DEF ReconcileSwaps
  <2>2. TickInv'
    BY <1>0, <2>1 DEF TickInv
  <2> QED BY <1>0, <2>1, <2>2 DEF SettlementInv, NothingConsumedInVain
<1>10. ASSUME NEW i \in Ids, Reconcile(i)
       PROVE  SettlementInv'
  BY <1>10, ReconcileSound
<1>11. CASE UNCHANGED settlementVars
  BY <1>0, <1>11 DEF SettlementInv, NothingConsumedInVain, TickInv, settlementVars
<1> QED BY <1>1, <1>2, <1>3, <1>4, <1>5, <1>6, <1>7, <1>8, <1>9, <1>10, <1>11 DEF SettlementNext, Pass

\* The invariant holds throughout.
LEMMA SettlementInvariance == SettlementSpec => []SettlementInv
<1>1. SettlementInit => SettlementInv
  BY InitSound
<1>2. SettlementInv /\ [SettlementNext]_settlementVars => SettlementInv'
  BY SettlementStep
<1> QED BY <1>1, <1>2, PTL DEF SettlementSpec

\* What is remembered of an order's match are swaps (StartSwap, Follow).
LEMMA StartedAreSwaps == SettlementSpec => [](started \in [Ids -> SUBSET Swaps])
<1> DEFINE T == started \in [Ids -> SUBSET Swaps]
<1>1. SettlementInit => T
  BY DEF SettlementInit
<1>2. T /\ [SettlementNext]_settlementVars => T'
  <2> SUFFICES ASSUME T, [SettlementNext]_settlementVars PROVE T'
    OBVIOUS
  <2>1. CASE Follow
    BY <2>1 DEF Follow
  <2>2. CASE UNCHANGED settlementVars
    BY <2>2 DEF settlementVars
  <2>3. ASSUME NEW s \in Swaps, StartSwap(s)
        PROVE  T'
    <3>1. PICK i \in Ids : started' = [j \in Ids |-> IF j \in {i, book[i].matched}
                                                     THEN started[j] \cup {s} ELSE started[j]]
      BY <2>3 DEF StartSwap
    <3> QED BY <3>1
  <2>4. SettlementNext => Follow \/ (\E s \in Swaps : StartSwap(s))
    BY Zenon DEF SettlementNext, Pass
  <2> QED BY <2>1, <2>2, <2>3, <2>4
<1> QED BY <1>1, <1>2, PTL DEF SettlementSpec

\* The orders, the swaps and the lists a tick has read keep their types.
THEOREM SettlementTypeCorrect == SettlementSpec => []SettlementTypeOK
<1>1. SettlementInv /\ started \in [Ids -> SUBSET Swaps] => SettlementTypeOK
  BY DEF SettlementInv, FullBook, SoundBook, TickInv, SettlementTypeOK
<1> QED BY <1>1, SettlementInvariance, StartedAreSwaps, PTL

\* For any orders and swaps: nothing is taken from an order before a swap completes
\* (the hook of HandleEntry and TryReconcileMatchedOrders).
THEOREM ConsumesForSwapsOnly == SettlementSpec => []NothingConsumedInVain
<1>1. SettlementInv => NothingConsumedInVain
  BY DEF SettlementInv
<1> QED BY <1>1, SettlementInvariance, PTL
================================================================================
