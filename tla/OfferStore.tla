------------------------------- MODULE OfferStore -------------------------------
(***************************************************************************)
(* The order book between a cache and the wallet database.                 *)
(*                                                                         *)
(* Every call holds the module's mutex, fills the cache from the database  *)
(* on first use, changes the cached orders and writes their rows one by    *)
(* one.  A call that changes a matched pair writes two rows: if the second *)
(* write fails the cache is restored but the first row stays, and if the   *)
(* process dies between the writes only the first row is there.  Orders    *)
(* whose time is up are marked in the cache by the next look at the book,  *)
(* and their rows are written if that works.                               *)
(***************************************************************************)
EXTENDS OfferBook

CONSTANTS
    MaxNow,    \* bound: the clock
    MaxFaults  \* bound: failed writes, and stops between the two writes of a pair

ASSUME StoreConstants == MaxNow \in Nat /\ MaxFaults \in Nat

VARIABLES
    rows,      \* the rows in the wallet database
    mem,       \* WalletCache.by_id
    loaded,    \* WalletCache.loaded
    unlocked,  \* RequireUnlocked(wallet)
    now,       \* the wall clock
    faults,    \* writes that failed, and stops between two writes, so far
    mutual     \* history: nothing has yet changed one order of a matched pair alone

vars == <<rows, mem, loaded, unlocked, now, faults, mutual>>

Empty == [i \in Ids |-> NoOrder]

Init ==
    /\ rows = Empty /\ mem = Empty
    /\ loaded = FALSE /\ unlocked \in BOOLEAN
    /\ now = 0 /\ faults = 0 /\ mutual = TRUE

-----------------------------------------------------------------------------
(* The cache and the writes. *)

\* The book a call works on: EnsureLoadedLocked has read the rows.  A load that
\* fails leaves loaded FALSE, and the next one reads every row again.
View == IF loaded THEN mem ELSE rows

\* d with the rows in S as c has them.
Write(d, c, S) == [i \in Ids |-> IF i \in S THEN c[i] ELSE d[i]]

\* The call refused, or changes nothing.
Refused ==
    /\ unlocked /\ loaded' = TRUE
    /\ mem' = View
    /\ UNCHANGED <<rows, unlocked, now, faults, mutual>>

\* The rows first and then second of c are written over d and the cache is c; a
\* failed write restores the cache to b, whatever was written before it.
Persist(b, c, d, first, second) ==
    /\ unlocked
    /\ \/ /\ mem' = c /\ loaded' = TRUE
          /\ rows' = Write(d, c, {first, second})
          /\ UNCHANGED faults
       \/ /\ faults < MaxFaults /\ faults' = faults + 1
          /\ mem' = b /\ loaded' = TRUE
          /\ rows' \in {d} \cup (IF first = second THEN {} ELSE {Write(d, c, {first})})
       \/ /\ faults < MaxFaults /\ faults' = faults + 1
          /\ first # second
          /\ mem' = Empty /\ loaded' = FALSE
          /\ rows' = Write(d, c, {first})
    /\ UNCHANGED <<unlocked, now>>

\* A pair's two rows are as one if the call that changed them into c went through,
\* or wrote nothing.
StaysMutual(d, c) == mutual' = (mutual /\ (rows' = d \/ (loaded' /\ mem' = c)))

\* The rows d may become while the sweep marks b's orders: each write may fail.
SweptRows(b) == {Write(rows, SweepExpired(b, now), S) : S \in SUBSET {i \in Ids : Expired(b, i, now)}}

-----------------------------------------------------------------------------
(* The calls. *)

\* The one row of i, of a call that turns the book into one of C.
OneRow(C, i) ==
    \/ \E c \in C : Persist(View, c, rows, i, i) /\ UNCHANGED mutual
    \/ C = {} /\ Refused

\* The row of i and the row of the order it is matched with.
TwoRows(C, i) ==
    \/ \E c \in C : LET p == IF HasPeer(View, i) THEN View[i].matched ELSE i IN
        Persist(View, c, rows, i, p) /\ StaysMutual(rows, c)
    \/ C = {} /\ Refused

CallCreate == \E i \in Ids : Create(View, i) # {} /\ OneRow(Create(View, i), i)

CallImport == \E i \in Ids : \E u \in Uris(i) : OneRow(Import(View, i, u, now), i)

CallApplyImportedUpdate == \E i \in Ids : \E u \in Uris(i) :
    LET C == ApplyImportedUpdate(View, i, u) IN
    \/ \E c \in C : /\ Persist(View, c, rows, i, i)
                     /\ mutual' = (mutual /\ (View[i].status = "Matched" => mem' = View))
    \/ C = {} /\ Refused

CallCancel == \E i \in Ids : TwoRows(Cancel(View, i), i)
CallFill == \E i \in Ids : TwoRows(Fill(View, i), i)
CallUnmatch == \E i \in Ids : TwoRows(Unmatch(View, i), i)

CallLinkSwap == \E i \in Ids, s \in Swaps : OneRow(LinkSwap(View, i, s), i)

CallFillFromLinkedSwap == \E i \in Ids, amount \in Amounts :
    LET C == FillFromLinkedSwap(View, i, amount) IN
    \/ \E c \in C : /\ Persist(View, c, rows, i, i)
                     /\ mutual' = (mutual /\ (View[i].status = "Matched" => mem' = View))
    \/ C = {} /\ Refused

\* The sweep comes first and stays, whatever becomes of the match.
CallMatch == \E mine, theirs \in Ids, amount \in Amounts :
    LET b == SweepExpired(View, now)
        C == Match(b, mine, theirs, amount, now)
    IN  \E d \in SweptRows(View) :
        \/ \E c \in C : Persist(b, c, d, mine, theirs) /\ StaysMutual(d, c)
        \/ /\ C = {} /\ unlocked
           /\ mem' = b /\ loaded' = TRUE /\ rows' = d
           /\ UNCHANGED <<unlocked, now, faults, mutual>>

\* Get, List, FindMatches, ExportUri and SweepExpired.
Look ==
    /\ unlocked /\ loaded' = TRUE
    /\ mem' = SweepExpired(View, now)
    /\ rows' \in SweptRows(View)
    /\ UNCHANGED <<unlocked, now, faults, mutual>>

-----------------------------------------------------------------------------
Clock ==
    /\ now < MaxNow /\ now' = now + 1
    /\ UNCHANGED <<rows, mem, loaded, unlocked, faults, mutual>>

ToggleLock ==
    /\ unlocked' = ~unlocked
    /\ UNCHANGED <<rows, mem, loaded, now, faults, mutual>>

\* Shutdown or a crash, and the next start.
Restart ==
    /\ mem' = Empty /\ loaded' = FALSE
    /\ unlocked' \in BOOLEAN
    /\ UNCHANGED <<rows, now, faults, mutual>>

Next ==
    \/ CallCreate \/ CallImport \/ CallApplyImportedUpdate
    \/ CallCancel \/ CallMatch \/ CallFill \/ CallUnmatch
    \/ CallLinkSwap \/ CallFillFromLinkedSwap \/ Look
    \/ Clock \/ ToggleLock \/ Restart

Spec == Init /\ [][Next]_vars

-----------------------------------------------------------------------------
(* Properties. *)

\* The variables have their types.
TypeOK ==
    /\ rows \in Book /\ mem \in Book
    /\ loaded \in BOOLEAN /\ unlocked \in BOOLEAN /\ mutual \in BOOLEAN
    /\ now \in Nat /\ faults \in Nat

\* Every row and every cached order keeps its account (the partial-fill state
\* machine of pricoin_offer.h), whatever fails, shrinks, expires or restarts.
\* When a shrink cuts into a reservation this relies on the clamp of
\* ApplyImportedUpdate (pricoin_offer.cpp:540-542), which the header denies:
\* ShrinkKeepsReservation below is what the header says.
ReservedIsCovered ==
    \A i \in Ids : /\ Has(rows, i) => Covered(rows[i])
                   /\ Has(mem, i) => Covered(mem[i])

Mutual(b) ==
    \A i \in Ids : Has(b, i) /\ b[i].status = "Matched" =>
        LET p == b[i].matched IN
        /\ p # i /\ Has(b, p)
        /\ b[p].status = "Matched" /\ b[p].matched = i
        /\ b[p].in_flight = b[i].in_flight

\* Matched orders come in pairs that name each other and reserve the same
\* amount, so that Fill accepts them, as long as both rows of every pair were
\* written or none and neither order of a pair was settled or shrunk alone.
MatchIsMutual == mutual => Mutual(rows) /\ Mutual(View)

\* While the wallet runs, a Filled, Cancelled or Expired order keeps its status.
SettledIsFinal ==
    [][loaded /\ loaded' =>
        \A i \in Ids : Has(mem, i) /\ mem[i].status \in Settled =>
            Has(mem', i) /\ mem'[i].status = mem[i].status]_vars

\* While the wallet runs, no call gives an order back an amount it has consumed
\* or lets it grow: releases, rollbacks and stale updates included.
NeverGrows ==
    [][loaded /\ loaded' =>
        \A i \in Ids : Has(mem, i) =>
            /\ Has(mem', i)
            /\ mem'[i].remaining <= mem[i].remaining
            /\ mem'[i].max <= mem[i].max]_vars

\* "pric_in_flight_sat / matched_with_order_id are NOT touched (an active match
\* against the order is unaffected by a shrink)" (pricoin_offer.h:333-334).  The
\* code cuts the reservation, and Fill then refuses the pair, whose reservations
\* differ.
ShrinkKeepsReservation ==
    [][loaded /\ loaded' =>
        \A i \in Ids : Has(mem, i) /\ Has(mem', i) /\ mem'[i].max < mem[i].max =>
            /\ mem'[i].in_flight = mem[i].in_flight
            /\ mem'[i].matched = mem[i].matched]_vars
=================================================================================
