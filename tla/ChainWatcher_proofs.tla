-------------------------- MODULE ChainWatcher_proofs --------------------------
(***************************************************************************)
(* Proofs about ChainWatcher.                                              *)
(*                                                                         *)
(* A record settles when the tick applies an entry.  By then the tick has  *)
(* seen the entry's transaction confirmed, in an earlier step, and what is *)
(* confirmed stays so, provided the entry is the swap's own and asks for a *)
(* confirmation.  An entry is fit in that sense, or its kind was reported  *)
(* wrongly, or it is the spend of an output that was: this is what has to  *)
(* be kept of the entries, of those the tick has listed before one of them *)
(* was replaced, and of the output that the record names.                  *)
(*                                                                         *)
(* Tick and scan change the record by its calls only, so the invariant of  *)
(* the record (AdaptorSwapRecord_proofs) is one of the watcher, and what a *)
(* call never undoes, the watcher never undoes.                            *)
(***************************************************************************)
EXTENDS ChainWatcher, AdaptorSwapRecord_proofs

\* An entry that is fit, or unfit because of a report: of its own kind, or of the output
\* whose spend the watcher found.
Trusted(e) ==
    \/ Fit(e)
    \/ e[1] \in misled
    \/ e[1] = "ForeignClaim" /\ "ForeignFunding" \in misled

InHand == job.at \in {"apply", "remove", "add"}

JobInv ==
    /\ \A e \in job.todo : Trusted(e)
    /\ InHand => job.on \in Entries /\ Trusted(job.on)
    /\ job.at = "apply" /\ Fit(job.on) => chain[job.on[2]] = "confirmed"

WatchInv == \A k \in Kinds : watch[k] # None => Trusted(<<k, watch[k][1], watch[k][2]>>)

\* The record names the swap's output, or what was reported as such.
LegsInv == legs.funding \in {None, "foreign_funding"} \/ "ForeignFunding" \in misled

\* What the record says of the chains has happened there.
Grounded == SettledOnChain /\ SecretOutlivesClaim

WatcherInv == TypeOK /\ WatchInv /\ JobInv /\ LegsInv /\ Grounded /\ RecordInv(swap)

-----------------------------------------------------------------------------
(* Records and chains. *)

\* SetTSecret with the t that the claim shows.
Recovered(s, r) == s # NoSwap /\ "pric_claim" \in s.presigs /\ SetTSecret(s.T, s, r)

\* The scan's two calls, both accepted.
RecoverAndClaim(s, r) ==
    LET q == [s EXCEPT !.t = s.T] IN Recovered(s, q) /\ SetPricClaimed(q, r)

\* The changes of a record that are calls.
Moved(s, r) == Call(s, r) \/ Recovered(s, r) \/ RecoverAndClaim(s, r)

\* Calls keep the invariant of the record, and undo nothing.
LEMMA MovedSound ==
    ASSUME NEW s \in Swap, RecordInv(s), NEW r, Moved(s, r)
    PROVE  Sound(s, r)
<1>1. CASE Call(s, r)
  BY <1>1, CallSound DEF Slot
<1>2. CASE Recovered(s, r)
  BY <1>2, RecoverSound DEF Recovered
<1>3. CASE RecoverAndClaim(s, r)
  <2> DEFINE q == [s EXCEPT !.t = s.T]
  <2>1. Recovered(s, q) /\ SetPricClaimed(q, r)
    BY <1>3 DEF RecoverAndClaim
  <2> HIDE DEF q
  <2>2. Sound(s, q)
    BY <2>1, RecoverSound DEF Recovered
  <2>3. q \in Swap /\ RecordInv(q)
    BY <2>2 DEF Sound
  <2>4. Sound(q, r)
    BY <2>1, <2>3, CallSound DEF Slot, Call
  <2> QED BY <2>2, <2>3, <2>4, SoundTransitive
<1> QED BY <1>1, <1>2, <1>3 DEF Moved

\* A confirmation makes a call, which settles the record only for the kinds that settle
\* and wipes the secret only for the claim.
LEMMA SetXSound ==
    ASSUME NEW s \in Swap, RecordInv(s), NEW r, NEW k \in Kinds, SetX(k, s, r)
    PROVE  /\ Moved(s, r) /\ r \in Swap /\ RecordInv(r) /\ r.role = s.role
           /\ r.state = "Complete" => k = "ForeignClaim"
           /\ r.state = "Refunded" => k \in {"PricRefund", "ForeignRefund"}
           /\ r.t = None => s.t = None \/ k = "PricClaim"
<1>1. Call(s, r)
  BY DEF SetX, Call
<1>2. Moved(s, r)
  BY <1>1 DEF Moved
<1>3. r \in Swap /\ RecordInv(r) /\ r.role = s.role
  BY <1>2, MovedSound, SwapIsSwap DEF Sound, Keeps
<1>4. CASE SetBtcFunded(s, r)
  <2>1. r.state = "BtcFunded" /\ r.t = s.t
    BY <1>4 DEF SetBtcFunded, Swap
  <2> QED BY <1>2, <1>3, <2>1
<1>5. CASE SetPricFunded(s, r)
  <2>1. r.state = "BothFunded" /\ r.t = s.t
    BY <1>5 DEF SetPricFunded, Swap
  <2> QED BY <1>2, <1>3, <2>1
<1>6. CASE k = "PricClaim" /\ SetPricClaimed(s, r)
  <2>1. r.state = "PricClaimed"
    BY <1>6 DEF SetPricClaimed, Swap
  <2> QED BY <1>2, <1>3, <1>6, <2>1
<1>7. CASE k = "ForeignClaim" /\ SetComplete(s, r)
  <2>1. r.state = "Complete" /\ r.t = s.t
    BY <1>7 DEF SetComplete, Swap
  <2> QED BY <1>2, <1>3, <1>7, <2>1
<1>8. CASE k \in {"PricRefund", "ForeignRefund"} /\ SetRefunded(s, r)
  <2>1. r.state = "Refunded" /\ r.t = s.t
    BY <1>8 DEF SetRefunded, Swap
  <2> QED BY <1>2, <1>3, <1>8, <2>1
<1> QED BY <1>4, <1>5, <1>6, <1>7, <1>8 DEF SetX

\* The scan of a claim makes calls, settles nothing, and leaves Bob's record alone.
LEMMA ScanSound ==
    ASSUME NEW s \in Swap, RecordInv(s), NEW r, Scan(s, r)
    PROVE  /\ r = s \/ Moved(s, r)
           /\ r \in Swap /\ RecordInv(r) /\ r.role = s.role
           /\ s.role = "Bob" => r = s
           /\ r.state \in Terminal => r.state = s.state
<1>1. CASE r = s
  BY <1>1
<1>2. CASE r # s
  <2> DEFINE first == [s EXCEPT !.t = s.T]
  <2>1. s.role = "Alice" /\ s.t = None /\ s.state \in {"BothFunded", "PricClaimed"}
    BY <1>2 DEF Scan
  <2>2. \/ r = [s EXCEPT !.t = s.T, !.state = "PricClaimed"]
        \/ r = [s EXCEPT !.t = s.T]
        \/ r = [s EXCEPT !.state = "PricClaimed"]
    BY <1>2 DEF Scan
  <2>3. s # NoSwap /\ "pric_claim" \in s.presigs /\ s.state \in States
    BY <2>1, SwapIsSwap DEF RecordInv, Unsigned, Unfunded, IsComplete, Swap
  <2>4. Recovered(s, first)
    BY <2>1, <2>3 DEF Recovered, SetTSecret, In
  <2>5. first \in Swap /\ first.state = s.state /\ first.role = s.role
    BY <2>4, RecoverSound DEF Recovered, Sound, Swap
  <2>6. Moved(s, r)
    <3>1. CASE r = first
      BY <2>4, <3>1 DEF Moved
    <3>2. CASE r = [s EXCEPT !.state = "PricClaimed"]
      <4>1. s.state = "BothFunded"
        BY <1>2, <2>1, <3>2 DEF Swap
      <4>2. SetPricClaimed(s, r)
        BY <2>1, <2>3, <3>2, <4>1 DEF SetPricClaimed, In, Swap
      <4> QED BY <4>2 DEF Moved, Call
    <3>3. CASE r = [s EXCEPT !.t = s.T, !.state = "PricClaimed"]
      <4>1. CASE s.state = "PricClaimed"
        <5>1. r = first
          BY <3>3, <4>1 DEF Swap
        <5> QED BY <3>1, <5>1
      <4>2. CASE s.state = "BothFunded"
        <5>1. first # NoSwap /\ r = [first EXCEPT !.state = "PricClaimed", !.t = first.t]
          BY <2>5, <3>3, SwapIsSwap DEF Swap
        <5>2. SetPricClaimed(first, r)
          BY <2>1, <2>5, <4>2, <5>1 DEF SetPricClaimed, In
        <5> QED BY <2>4, <5>2 DEF Moved, RecoverAndClaim
      <4> QED BY <2>1, <4>1, <4>2
    <3> QED BY <2>2, <3>1, <3>2, <3>3
  <2>7. r \in Swap /\ RecordInv(r) /\ r.role = s.role
    BY <2>3, <2>6, MovedSound DEF Sound, Keeps
  <2>8. r.state \in {s.state, "PricClaimed"}
    BY <2>2 DEF Swap
  <2> QED BY <2>1, <2>6, <2>7, <2>8 DEF Terminal
<1> QED BY <1>1, <1>2

\* A relayed transaction displaces nothing that has confirmed.
LEMMA RelayedSound ==
    ASSUME chain \in [Txs -> {"absent", "mempool", "confirmed"}], NEW x \in Txs, Spendable(x)
    PROVE  /\ Relayed(x) \in [Txs -> {"absent", "mempool", "confirmed"}]
           /\ \A y \in Txs : chain[y] = "confirmed" => Relayed(x)[y] = "confirmed"
<1>1. chain[x] # "confirmed" /\ \A y \in Rivals(x) : chain[y] # "confirmed"
  BY DEF Spendable
<1> QED BY <1>1 DEF Relayed

Views == [Txs -> {"absent", "mempool", "confirmed"}]
Watches == [Kinds -> (Txs \X Thresholds) \cup {None}]
Jobs == [at: Stages, todo: SUBSET Entries, on: Entries \cup {<<>>}]

\* An entry stays trusted: a wrong report is remembered.
LEMMA TrustedStays ==
    ASSUME misled \subseteq misled', NEW e, Trusted(e)
    PROVE  Trusted(e)'
BY DEF Trusted, Fit, Meant, Refunds, ForeignSpends

\* So does what the tick holds, while nothing that has confirmed is displaced.
LEMMA JobStays ==
    ASSUME JobInv, UNCHANGED job, misled \subseteq misled',
           \A y \in Txs : chain[y] = "confirmed" => chain'[y] = "confirmed"
    PROVE  JobInv'
<1>1. \A e \in job'.todo : Trusted(e)'
  BY TrustedStays DEF JobInv
<1>2. InHand' => job'.on \in Entries /\ Trusted(job.on)'
  BY TrustedStays DEF JobInv, InHand
<1>3. job'.at = "apply" /\ Fit(job.on) => chain'[job.on[2]] = "confirmed"
  BY DEF JobInv, InHand, Entries
<1> QED BY <1>1, <1>2, <1>3 DEF JobInv, InHand, Trusted, Fit, Meant, Refunds, ForeignSpends

\* And so do the entries.
LEMMA WatchStays ==
    ASSUME WatchInv, UNCHANGED watch, misled \subseteq misled'
    PROVE  WatchInv'
BY TrustedStays DEF WatchInv, Trusted, Fit, Meant, Refunds, ForeignSpends

\* An entry that is written is trusted afterwards, and so are the others.
LEMMA EntrySound ==
    ASSUME watch \in Watches, WatchInv, misled \subseteq misled', NEW e \in Entries, Trusted(e)',
           watch' = [watch EXCEPT ![e[1]] = <<e[2], e[3]>>]
    PROVE  watch' \in Watches /\ WatchInv'
<1>1. e[1] \in Kinds /\ <<e[2], e[3]>> \in Txs \X Thresholds /\ e = <<e[1], e[2], e[3]>>
  BY DEF Entries
<1>2. watch' \in Watches
  BY <1>1 DEF Watches
<1>3. ASSUME NEW k \in Kinds, watch'[k] # None
      PROVE  Trusted(<<k, watch[k][1], watch[k][2]>>)'
  <2>1. CASE k = e[1]
    <3>1. <<k, watch'[k][1], watch'[k][2]>> = e
      BY <1>1, <2>1 DEF Watches
    <3> QED BY <3>1
  <2>2. CASE k # e[1]
    <3>1. watch'[k] = watch[k]
      BY <1>1, <2>2 DEF Watches
    <3>2. Trusted(<<k, watch[k][1], watch[k][2]>>)
      BY <1>3, <3>1 DEF WatchInv
    <3> QED BY <3>1, <3>2 DEF Trusted, Fit, Meant, Refunds, ForeignSpends
  <2> QED BY <2>1, <2>2
<1> QED BY <1>2, <1>3 DEF WatchInv

\* A step that makes no call on Bob's record, settles nothing and displaces nothing that
\* has confirmed keeps the invariant, if it keeps the entries and the tick's job right.
LEMMA StepKeeps ==
    ASSUME WatcherInv, UNCHANGED <<legs, args>>, misled \subseteq misled', misled' \subseteq Kinds,
           reports' \in Nat, due' \in BOOLEAN, calm' \in BOOLEAN,
           attempted' \subseteq {"pric", "foreign"},
           watch' \in Watches, WatchInv', job' \in Jobs, JobInv',
           chain' \in Views, \A y \in Txs : chain[y] = "confirmed" => chain'[y] = "confirmed",
           swap' \in Swap, RecordInv(swap'), swap'.role = swap.role,
           swap'.state \in Terminal => swap'.state = swap.state,
           swap.role = "Bob" => swap' = swap
    PROVE  WatcherInv'
<1>1. TypeOK'
  BY DEF WatcherInv, TypeOK, Watches, Jobs, Views
<1>2. LegsInv'
  BY DEF WatcherInv, LegsInv
<1>3. SettledOnChain'
  BY DEF WatcherInv, Grounded, SettledOnChain, Terminal, Txs, ForeignSpends, PricSpends
<1>4. SecretOutlivesClaim'
  BY DEF WatcherInv, Grounded, SecretOutlivesClaim, Txs, PricSpends
<1> QED BY <1>1, <1>2, <1>3, <1>4 DEF WatcherInv, Grounded

\* The call that a confirmation makes, by the tick or for the user, says nothing that has
\* not happened on the chains, if the transaction is the swap's and has confirmed, or the
\* step was reported wrongly.
LEMMA CallGrounded ==
    ASSUME WatcherInv, NEW e \in Entries, SetX(e[1], swap, swap'), legs' = Noted(e),
           UNCHANGED chain, misled \subseteq misled',
           \/ e[2] \in Meant(e[1]) /\ chain[e[2]] = "confirmed"
           \/ e[1] \in misled'
           \/ e[1] = "ForeignClaim" /\ "ForeignFunding" \in misled'
    PROVE  /\ swap' \in Swap /\ RecordInv(swap') /\ LegsInv' /\ Grounded'
           /\ legs' \in [funding: Txs \cup {None}, refund: Txs \cup {None}]
<1>1. e[1] \in Kinds /\ e[2] \in Txs
  BY DEF Entries
<1>2. /\ swap' \in Swap /\ RecordInv(swap') /\ swap'.role = swap.role
      /\ swap'.state = "Complete" => e[1] = "ForeignClaim"
      /\ swap'.state = "Refunded" => e[1] \in {"PricRefund", "ForeignRefund"}
      /\ swap'.t = None => swap.t = None \/ e[1] = "PricClaim"
  BY <1>1, SetXSound DEF WatcherInv, TypeOK
<1>3. /\ legs' \in [funding: Txs \cup {None}, refund: Txs \cup {None}]
      /\ legs'.funding = IF e[1] = "ForeignFunding" THEN e[2] ELSE legs.funding
  BY <1>1 DEF Noted, WatcherInv, TypeOK
<1>4. LegsInv'
  BY <1>3 DEF WatcherInv, LegsInv, Meant
<1>5. SettledOnChain'
  <2>1. CASE e[1] = "ForeignClaim"
    <3>1. (\E x \in ForeignSpends : chain[x] = "confirmed")
            \/ {"ForeignClaim", "ForeignFunding"} \cap misled' # {}
      BY <2>1 DEF Meant
    <3> QED BY <1>2, <2>1, <3>1 DEF SettledOnChain
  <2>2. CASE e[1] \in {"PricRefund", "ForeignRefund"}
    <3>1. (\E x \in Refunds \cup {"pric_refund"} : chain[x] = "confirmed")
            \/ {"ForeignRefund", "PricRefund"} \cap misled' # {}
      BY <2>2 DEF Meant
    <3> QED BY <1>2, <2>2, <3>1 DEF SettledOnChain
  <2> QED BY <1>2, <2>1, <2>2 DEF SettledOnChain
<1>6. SecretOutlivesClaim'
  <2>1. e[1] = "PricClaim" => chain["pric_claim"] = "confirmed" \/ "PricClaim" \in misled'
    BY DEF Meant
  <2> QED BY <1>2, <2>1 DEF WatcherInv, Grounded, SecretOutlivesClaim
<1> QED BY <1>2, <1>3, <1>4, <1>5, <1>6 DEF Grounded
-----------------------------------------------------------------------------
(* Steps of the tick. *)

\* A tick that is over has nothing in hand.
LEMMA IdleSound ==
    ASSUME NEW at \in Stages, at \notin {"apply", "remove", "add"}, job' = [Idle EXCEPT !.at = at]
    PROVE  job' \in Jobs /\ JobInv'
<1>1. job' = [at |-> at, todo |-> {}, on |-> <<>>]
  BY DEF Idle
<1>2. job' \in Jobs
  <2>1. [at |-> at, todo |-> {}, on |-> <<>>] \in Jobs
    BY Zenon DEF Jobs
  <2> QED BY <1>1, <2>1
<1>3. job'.at = at /\ job'.todo = {}
  BY <1>1
<1>4. JobInv'
  BY <1>3 DEF JobInv, InHand
<1> QED BY <1>2, <1>4

\* A tick that goes on with nothing in hand.
LEMMA GotoSound ==
    ASSUME job \in Jobs, JobInv, UNCHANGED misled,
           NEW at \in Stages \ {"apply", "remove", "add"}, Goto(at)
    PROVE  job' \in Jobs /\ JobInv'
<1>1. job' \in Jobs /\ job'.at = at /\ job'.todo = job.todo
  BY DEF Goto, Jobs
<1> QED BY <1>1 DEF JobInv, InHand, Trusted

\* A tick that takes an entry in hand.
LEMMA TakeSound ==
    ASSUME job \in Jobs, JobInv, UNCHANGED misled,
           NEW at \in {"remove", "add"}, NEW e \in Entries, Trusted(e), Take(at, e)
    PROVE  job' \in Jobs /\ JobInv'
<1>1. job' \in Jobs /\ job'.at = at /\ job'.todo = job.todo /\ job'.on = e
  BY DEF Take, Jobs, Stages
<1> QED BY <1>1 DEF JobInv, InHand, Trusted

\* A tick that is done with an entry.
LEMMA LeaveSound ==
    ASSUME job \in Jobs, JobInv, UNCHANGED misled, NEW e, Leave(e)
    PROVE  job' \in Jobs /\ JobInv'
<1>1. job' = [at |-> "entries", todo |-> job.todo \ {e}, on |-> <<>>] /\ job.todo \in SUBSET Entries
  BY DEF Leave, Jobs
<1> QED BY <1>1 DEF Jobs, JobInv, InHand, Stages, Trusted

\* A fit entry that the tick applies has its transaction confirmed.
LEMMA ReachedSound ==
    ASSUME NEW e \in Entries, NEW status \in TxStatus(e), Reached(e, status), Fit(e)
    PROVE  chain[e[2]] = "confirmed"
<1>1. status = "confirmed"
  BY DEF Reached, Fit
<1> QED BY <1>1 DEF TxStatus

\* A step of the tick that changes neither the record nor the chains.
LEMMA TickStep ==
    ASSUME WatcherInv, UNCHANGED <<swap, legs, chain, due, calm, args, reports, misled>>,
           attempted' \subseteq {"pric", "foreign"},
           watch' \in Watches, WatchInv', job' \in Jobs, JobInv'
    PROVE  WatcherInv'
BY StepKeeps DEF WatcherInv, TypeOK, Views

\* Every step of a tick keeps the invariant, one case per stage.
LEMMA TickSound ==
    ASSUME WatcherInv, Tick
    PROVE  WatcherInv'
<1>0. /\ TypeOK /\ WatchInv /\ JobInv /\ LegsInv /\ Grounded /\ RecordInv(swap)
      /\ job \in Jobs /\ swap \in Swap /\ watch \in Watches /\ chain \in Views
      /\ attempted \subseteq {"pric", "foreign"}
  BY DEF WatcherInv, TypeOK, Jobs, Watches, Views
<1>a. UNCHANGED <<due, calm, args, reports, misled>>
  BY DEF Tick, Begin, HandleEntry, Apply, Remove, TryAutoDetectForeignClaim, TryAutoRefundForeign,
       AutoBroadcastForeignRefund, TryAutoRefundPric, AutoBroadcastPricRefund, Add, told
<1>b. UNCHANGED watch => WatchInv'
  BY <1>0, <1>a, WatchStays
<1>1. CASE Begin
  <2> DEFINE T == {e \in Entries : watch[e[1]] = <<e[2], e[3]>>}
  <2>1. \A e \in T : e \in Entries /\ Trusted(e)
    <3> SUFFICES ASSUME NEW e \in Entries, watch[e[1]] = <<e[2], e[3]>>
                 PROVE  Trusted(e)
      OBVIOUS
    <3>1. e[1] \in Kinds /\ <<e[2], e[3]>> \in Txs \X Thresholds /\ e = <<e[1], e[2], e[3]>>
      BY DEF Entries
    <3>2. watch[e[1]] # None /\ watch[e[1]][1] = e[2] /\ watch[e[1]][2] = e[3]
      BY <3>1, WatcherConstants
    <3> QED BY <1>0, <3>1, <3>2 DEF WatchInv
  <2>2. job' = [at |-> "entries", todo |-> T, on |-> <<>>]
    BY <1>1 DEF Begin, Idle
  <2> HIDE DEF T
  <2>3. job' \in Jobs /\ JobInv'
    BY <1>a, <2>1, <2>2 DEF Jobs, JobInv, InHand, Stages, Trusted
  <2> QED BY <1>0, <1>a, <1>b, <1>1, <2>3, TickStep DEF Begin
<1>2. CASE HandleEntry
  <2>1. PICK e \in job.todo :
          \/ Take("remove", e)
          \/ Leave(e)
          \/ \E status \in TxStatus(e) : Reached(e, status) /\ Take("apply", e)
    BY <1>2 DEF HandleEntry
  <2>2. e \in Entries /\ Trusted(e) /\ UNCHANGED chain
    BY <1>0, <1>2 DEF Jobs, JobInv, HandleEntry
  <2>3. job' \in Jobs /\ JobInv'
    <3>1. CASE Take("remove", e)
      BY <1>0, <1>a, <2>2, <3>1, TakeSound
    <3>2. CASE Leave(e)
      BY <1>0, <1>a, <3>2, LeaveSound
    <3>3. CASE \E status \in TxStatus(e) : Reached(e, status) /\ Take("apply", e)
      <4>1. job' \in Jobs /\ job'.at = "apply" /\ job'.todo = job.todo /\ job'.on = e
        BY <1>0, <2>2, <3>3 DEF Take, Jobs, Stages
      <4>2. Fit(e) => chain[e[2]] = "confirmed"
        BY <2>2, <3>3, ReachedSound
      <4> QED BY <1>0, <1>a, <2>2, <4>1, <4>2 DEF JobInv, InHand, Trusted
    <3> QED BY <2>1, <3>1, <3>2, <3>3
  <2> QED BY <1>0, <1>a, <1>b, <1>2, <2>3, TickStep DEF HandleEntry
<1>3. CASE Apply
  <2> DEFINE k == job.on[1]
  <2>1. /\ job.on \in Entries /\ k \in Kinds /\ job.on[2] \in Txs /\ job.on[3] \in Thresholds
        /\ Trusted(job.on) /\ (Fit(job.on) => chain[job.on[2]] = "confirmed")
    BY <1>0, <1>3 DEF Apply, JobInv, InHand, Entries
  <2>2. job' \in Jobs /\ JobInv'
    <3>1. job' \in Jobs /\ job'.at = "remove" /\ job'.todo = job.todo /\ job'.on = job.on
      BY <1>0, <1>3 DEF Apply, Goto, Jobs, Stages
    <3> QED BY <1>0, <1>a, <2>1, <3>1 DEF JobInv, InHand, Trusted
  <2>3. UNCHANGED <<chain, watch, attempted>>
    BY <1>3 DEF Apply
  <2>4. CASE UNCHANGED <<swap, legs>>
    BY <1>0, <1>a, <1>b, <2>2, <2>3, <2>4, TickStep
  <2>5. CASE SetX(k, swap, swap') /\ legs' = Noted(job.on)
    <3>1. PICK e \in Entries : e = job.on
      BY <2>1
    <3>2. \/ e[2] \in Meant(e[1]) /\ chain[e[2]] = "confirmed"
          \/ e[1] \in misled'
          \/ e[1] = "ForeignClaim" /\ "ForeignFunding" \in misled'
      BY <1>a, <2>1, <3>1 DEF Trusted, Fit
    <3>3. SetX(e[1], swap, swap') /\ legs' = Noted(e)
      BY <2>5, <3>1
    <3>4. /\ swap' \in Swap /\ RecordInv(swap') /\ LegsInv' /\ Grounded'
          /\ legs' \in [funding: Txs \cup {None}, refund: Txs \cup {None}]
      BY <1>a, <2>3, <3>2, <3>3, CallGrounded
    <3>5. TypeOK'
      BY <1>0, <1>a, <2>2, <2>3, <3>4 DEF TypeOK, Jobs
    <3> QED BY <1>b, <2>2, <2>3, <3>4, <3>5 DEF WatcherInv
  <2> QED BY <1>3, <2>4, <2>5 DEF Apply
<1>4. CASE Remove
  <2>1. job' \in Jobs /\ JobInv'
    BY <1>0, <1>a, <1>4, LeaveSound DEF Remove
  <2>2. watch' \in Watches /\ WatchInv'
    <3>1. CASE UNCHANGED watch
      BY <1>0, <1>b, <3>1
    <3>2. CASE watch' = [watch EXCEPT ![job.on[1]] = None]
      BY <1>0, <1>a, <3>2 DEF WatchInv, Watches, Trusted
    <3> QED BY <1>4, <3>1, <3>2 DEF Remove
  <2> QED BY <1>0, <1>a, <1>4, <2>1, <2>2, TickStep DEF Remove
<1>5. CASE TryAutoDetectForeignClaim
  <2>1. CASE Goto("foreign")
    BY <1>0, <1>a, <1>b, <1>5, <2>1, GotoSound, TickStep DEF TryAutoDetectForeignClaim, Stages
  <2>2. CASE Unreported /\ \E x \in Spenders : Take("add", <<"ForeignClaim", x, 1>>)
    <3>1. PICK x \in Spenders : Take("add", <<"ForeignClaim", x, 1>>)
      BY <2>2
    <3>2. x \in Txs /\ (x \in ForeignSpends \/ "ForeignFunding" \in misled)
      BY <1>0, <2>2 DEF Spenders, Unreported, LegsInv, Txs, Strays
    <3>3. <<"ForeignClaim", x, 1>> \in Entries /\ Trusted(<<"ForeignClaim", x, 1>>)
      BY <3>2 DEF Entries, Thresholds, Kinds, ForeignKinds, Trusted, Fit, Meant
    <3>4. job' \in Jobs /\ JobInv'
      BY <1>0, <1>a, <3>1, <3>3, TakeSound
    <3> QED BY <1>0, <1>a, <1>b, <1>5, <3>4, TickStep DEF TryAutoDetectForeignClaim
  <2> QED BY <1>5, <2>1, <2>2 DEF TryAutoDetectForeignClaim
<1>6. CASE TryAutoRefundForeign
  <2>1. \E at \in {"broadcast", "pric"} : Goto(at)
    BY <1>6 DEF TryAutoRefundForeign
  <2>2. job' \in Jobs /\ JobInv'
    BY <1>0, <1>a, <2>1, GotoSound DEF Stages
  <2> QED BY <1>0, <1>a, <1>b, <1>6, <2>2, TickStep DEF TryAutoRefundForeign
<1>7. CASE AutoBroadcastForeignRefund
  <2>1. PICK x \in ForeignRefunds :
          \/ Spendable(x) /\ chain' = Relayed(x) /\ Take("add", <<"ForeignRefund", x, 1>>)
          \/ Goto("pric") /\ UNCHANGED chain
    BY <1>7 DEF AutoBroadcastForeignRefund
  <2>2. x \in Txs /\ <<"ForeignRefund", x, 1>> \in Entries /\ Trusted(<<"ForeignRefund", x, 1>>)
    <3>1. x \in Refunds
      BY DEF ForeignRefunds, Refunds
    <3> QED BY <3>1 DEF Entries, Thresholds, Kinds, ForeignKinds, Txs, ForeignSpends, Trusted, Fit, Meant
  <2>3. UNCHANGED <<swap, legs, watch, attempted>>
    BY <1>7 DEF AutoBroadcastForeignRefund
  <2>4. CASE Goto("pric") /\ UNCHANGED chain
    BY <1>0, <1>a, <1>b, <2>3, <2>4, GotoSound, TickStep DEF Stages
  <2>5. CASE Spendable(x) /\ chain' = Relayed(x) /\ Take("add", <<"ForeignRefund", x, 1>>)
    <3>1. job' \in Jobs /\ JobInv'
      BY <1>0, <1>a, <2>2, <2>5, TakeSound
    <3>2. chain' \in Views /\ \A y \in Txs : chain[y] = "confirmed" => chain'[y] = "confirmed"
      BY <1>0, <2>2, <2>5, RelayedSound DEF Views
    <3> QED BY <1>0, <1>a, <1>b, <2>3, <3>1, <3>2, StepKeeps DEF TypeOK
  <2> QED BY <2>1, <2>4, <2>5
<1>8. CASE TryAutoRefundPric
  <2>1. Goto("broadcast_pric") \/ job' = Idle
    BY <1>8 DEF TryAutoRefundPric
  <2>2. job' \in Jobs /\ JobInv'
    <3>1. Idle = [Idle EXCEPT !.at = "idle"]
      BY DEF Idle
    <3> QED BY <1>0, <1>a, <2>1, <3>1, GotoSound, IdleSound DEF Stages
  <2> QED BY <1>0, <1>a, <1>b, <1>8, <2>2, TickStep DEF TryAutoRefundPric
<1>9. CASE AutoBroadcastPricRefund
  <2> DEFINE x == "pric_refund"
  <2>1. \/ Spendable(x) /\ chain' = Relayed(x) /\ Take("add", <<"PricRefund", x, 1>>)
        \/ job' = Idle /\ UNCHANGED chain
    BY <1>9 DEF AutoBroadcastPricRefund
  <2>2. x \in Txs /\ <<"PricRefund", x, 1>> \in Entries /\ Trusted(<<"PricRefund", x, 1>>)
    BY DEF Entries, Thresholds, Kinds, ForeignKinds, Txs, PricSpends, Trusted, Fit, Meant
  <2>3. UNCHANGED <<swap, legs, watch, attempted>>
    BY <1>9 DEF AutoBroadcastPricRefund
  <2> HIDE DEF x
  <2>4. CASE job' = Idle /\ UNCHANGED chain
    <3>1. Idle = [Idle EXCEPT !.at = "idle"]
      BY DEF Idle
    <3>2. job' \in Jobs /\ JobInv'
      BY <2>4, <3>1, IdleSound DEF Stages
    <3> QED BY <1>0, <1>a, <1>b, <2>3, <2>4, <3>2, TickStep
  <2>5. CASE Spendable(x) /\ chain' = Relayed(x) /\ Take("add", <<"PricRefund", x, 1>>)
    <3>1. job' \in Jobs /\ JobInv'
      BY <1>0, <1>a, <2>2, <2>5, TakeSound
    <3>2. chain' \in Views /\ \A y \in Txs : chain[y] = "confirmed" => chain'[y] = "confirmed"
      BY <1>0, <2>2, <2>5, RelayedSound DEF Views
    <3> QED BY <1>0, <1>a, <1>b, <2>3, <3>1, <3>2, StepKeeps DEF TypeOK
  <2> QED BY <2>1, <2>4, <2>5
<1>10. CASE Add
  <2>1. job.on \in Entries /\ Trusted(job.on)
    BY <1>0, <1>10 DEF Add, JobInv, InHand
  <2>2. watch' \in Watches /\ WatchInv'
    <3>1. CASE UNCHANGED watch
      BY <1>0, <1>b, <3>1
    <3>2. CASE watch' = [watch EXCEPT ![job.on[1]] = <<job.on[2], job.on[3]>>]
      <4>1. PICK e \in Entries : e = job.on
        BY <2>1
      <4>2. Trusted(e)' /\ watch' = [watch EXCEPT ![e[1]] = <<e[2], e[3]>>]
        BY <1>a, <2>1, <3>2, <4>1 DEF Trusted
      <4> QED BY <1>0, <1>a, <4>2, EntrySound
    <3> QED BY <1>10, <3>1, <3>2 DEF Add
  <2>3. \E at \in {"foreign", "pric", "idle"} : job' = [Idle EXCEPT !.at = at]
    <3>1. Idle = [Idle EXCEPT !.at = "idle"]
      BY DEF Idle
    <3> QED BY <1>10, <3>1 DEF Add
  <2>4. job' \in Jobs /\ JobInv'
    BY <2>3, IdleSound DEF Stages
  <2>5. attempted' \subseteq {"pric", "foreign"}
    BY <1>0, <1>10 DEF Add
  <2> QED BY <1>a, <1>10, <2>2, <2>4, <2>5, TickStep DEF Add
<1> QED BY <1>1, <1>2, <1>3, <1>4, <1>5, <1>6, <1>7, <1>8, <1>9, <1>10 DEF Tick
-----------------------------------------------------------------------------
(* The invariant. *)

\* A swap whose ceremonies are over is a record that has not settled and that satisfies
\* the invariant of the record; Bob has his secret.
LEMMA PreparedSound ==
    ASSUME NEW role \in Roles, NEW c \in Chains, NEW t \in Secrets, NEW l \in Timelocks,
           NEW content \in Contents, ValidateRefundTimelocks(l)
    PROVE  /\ Prepared(role, c, t, l, content) \in Swap
           /\ Prepared(role, c, t, l, content).state = "PreSigned"
           /\ Prepared(role, c, t, l, content).role = role
           /\ RecordInv(Prepared(role, c, t, l, content))
           /\ role = "Bob" => Prepared(role, c, t, l, content).t # None
<1> DEFINE parts == IF c = "ltc" THEN {"pric_claim", "pric_refund"} ELSE PreSigParts
           arts == [a \in Artefacts |->
                      IF \/ a = "pric_refund_tx" /\ role = "Bob"
                         \/ a = "btc_refund_tx" /\ <<role, c>> # <<"Bob", "btc">>
                      THEN None ELSE content]
           known == IF role = "Bob" THEN t ELSE None
<1>1. parts \in SUBSET PreSigParts /\ arts \in [Artefacts -> Contents \cup {None}]
        /\ known \in Secrets \cup {None} /\ "PreSigned" \in States
  BY DEF PreSigParts, States
<1> HIDE DEF parts, arts, known
<1>2. Prepared(role, c, t, l, content) =
        [NewSwap(role, c) EXCEPT !.state = "PreSigned", !.T = t, !.t = known,
            !.timelocks = l, !.presigs = parts, !.once = arts]
  BY DEF Prepared, parts, arts, known
<1>3. NewSwap(role, c) \in Swap /\ NewSwap(role, c).role = role /\ NewSwap(role, c).chain = c
  BY DEF NewSwap, Swap, States
<1> DEFINE r == Prepared(role, c, t, l, content)
<1>4. /\ r \in Swap /\ r.state = "PreSigned" /\ r.T = t /\ r.t = known /\ r.timelocks = l
      /\ r.presigs = parts /\ r.role = role /\ r.chain = c
  BY <1>1, <1>2, <1>3 DEF Swap
<1> HIDE DEF r
<1>5. t # None /\ l # None
  BY Distinguished
<1>6. IsComplete(parts, c)
  BY DEF IsComplete, parts, PreSigParts
<1>7. RecordInv(r) /\ (role = "Bob" => r.t # None)
  BY <1>4, <1>5, <1>6 DEF RecordInv, Unsigned, Unfunded, known
<1> QED BY <1>4, <1>7 DEF r

\* Nothing has settled, and nothing that settles is watched, when the watcher starts.
LEMMA InitSound ==
    ASSUME Init
    PROVE  WatcherInv
<1>1. PICK p \in Parties : \E t \in Secrets : \E l \in Timelocks : \E content \in Contents :
          ValidateRefundTimelocks(l) /\ swap = Prepared(p[1], p[2], t, l, content)
  BY DEF Init
<1>2. p[1] \in Roles /\ p[2] \in Chains
  BY WatcherConstants
<1>3. /\ swap \in Swap /\ swap.state = "PreSigned" /\ RecordInv(swap)
      /\ swap.role = "Bob" => swap.t # None
  <2>1. PICK t \in Secrets, l \in Timelocks, content \in Contents :
          ValidateRefundTimelocks(l) /\ swap = Prepared(p[1], p[2], t, l, content)
    BY <1>1
  <2> QED BY <1>2, <2>1, PreparedSound
<1>4. PICK F \in {{"foreign_funding"}, Fundings} :
        /\ chain = [x \in Txs |-> IF x \in F \cup Strays THEN "confirmed" ELSE "absent"]
        /\ watch = [k \in Kinds |->
                      IF k = "ForeignFunding" THEN <<"foreign_funding", 1>>
                      ELSE IF k = "PricFunding" /\ F = Fundings THEN <<"pric_funding", 1>>
                      ELSE None]
  BY DEF Init
<1>5. watch \in Watches /\ WatchInv
  <2>1. {<<"foreign_funding", 1>>, <<"pric_funding", 1>>} \subseteq Txs \X Thresholds
    BY DEF Txs, Fundings, Thresholds
  <2>2. watch \in Watches
    BY <1>4, <2>1 DEF Watches
  <2>3. ASSUME NEW k \in Kinds, watch[k] # None
        PROVE  Trusted(<<k, watch[k][1], watch[k][2]>>)
    <3>1. \/ k = "ForeignFunding" /\ watch[k] = <<"foreign_funding", 1>>
          \/ k = "PricFunding" /\ watch[k] = <<"pric_funding", 1>>
      BY <1>4, <2>3
    <3> QED BY <3>1 DEF Trusted, Fit, Meant
  <2> QED BY <2>2, <2>3 DEF WatchInv
<1>6. /\ due = FALSE /\ attempted = {} /\ calm = FALSE
      /\ job = [at |-> "idle", todo |-> {}, on |-> <<>>]
      /\ legs = [funding |-> None, refund |-> None]
      /\ args \subseteq {"autorefund", "ltcrefundaddr"} /\ reports = 0 /\ misled = {}
  BY WatcherConstants DEF Init, Idle
<1>7. job \in Jobs /\ JobInv /\ LegsInv
  BY <1>6 DEF Jobs, JobInv, InHand, Stages, LegsInv
<1>8. Grounded
  BY <1>3 DEF Grounded, SettledOnChain, SecretOutlivesClaim
<1>9. TypeOK
  BY <1>3, <1>4, <1>5, <1>6, <1>7 DEF TypeOK, Jobs, Watches
<1> QED BY <1>3, <1>5, <1>7, <1>8, <1>9 DEF WatcherInv

\* Every step keeps the invariant: the tick's, the parties' and the chains', the
\* reports, a crash.
LEMMA StepSound ==
    ASSUME WatcherInv, [Next]_vars
    PROVE  WatcherInv'
<1>0. /\ TypeOK /\ WatchInv /\ JobInv /\ RecordInv(swap)
      /\ job \in Jobs /\ swap \in Swap /\ watch \in Watches /\ chain \in Views
      /\ attempted \subseteq {"pric", "foreign"} /\ misled \subseteq Kinds /\ reports \in Nat
      /\ due \in BOOLEAN /\ calm \in BOOLEAN
  BY DEF WatcherInv, TypeOK, Jobs, Watches, Views
<1>a. ASSUME NEW e \in Entries, misled' = misled \cup (IF Fit(e) THEN {} ELSE {e[1]})
      PROVE  misled \subseteq misled' /\ misled' \subseteq Kinds /\ Trusted(e)'
  <2>1. e[1] \in Kinds
    BY DEF Entries
  <2> QED BY <1>0, <1>a, <2>1 DEF Trusted, Fit, Meant, Refunds, ForeignSpends
<1>b. ASSUME NEW x, IF x = "pric_claim" THEN Scan(swap, swap') ELSE UNCHANGED swap,
             UNCHANGED <<legs, watch, due, attempted, job, told, calm>>,
             chain' \in Views, \A y \in Txs : chain[y] = "confirmed" => chain'[y] = "confirmed"
      PROVE  WatcherInv'
  <2>1. /\ swap' \in Swap /\ RecordInv(swap') /\ swap'.role = swap.role
        /\ swap.role = "Bob" => swap' = swap
        /\ swap'.state \in Terminal => swap'.state = swap.state
    BY <1>0, <1>b, ScanSound
  <2>2. UNCHANGED <<args, reports, misled>>
    BY <1>b DEF told
  <2>3. JobInv' /\ WatchInv'
    BY <1>0, <1>b, <2>2, JobStays, WatchStays
  <2> QED BY <1>0, <1>b, <2>1, <2>2, <2>3, StepKeeps
<1>c. ASSUME NEW e \in Entries, BroadcastAndWatch(e)
      PROVE  WatcherInv'
  <2>1. UNCHANGED <<swap, legs, due, attempted, job, args, calm>> /\ reports' \in Nat
    BY <1>0, <1>c DEF BroadcastAndWatch
  <2>2. chain' \in Views /\ \A y \in Txs : chain[y] = "confirmed" => chain'[y] = "confirmed"
    BY <1>0, <1>c, RelayedSound DEF BroadcastAndWatch, Views, Entries
  <2>3. CASE UNCHANGED <<watch, misled>>
    <3>1. JobInv' /\ WatchInv'
      BY <1>0, <2>1, <2>2, <2>3, JobStays, WatchStays
    <3> QED BY <1>0, <2>1, <2>2, <2>3, <3>1, StepKeeps
  <2>4. CASE /\ watch' = [watch EXCEPT ![e[1]] = <<e[2], e[3]>>]
             /\ misled' = misled \cup (IF Fit(e) THEN {} ELSE {e[1]})
    <3>1. misled \subseteq misled' /\ misled' \subseteq Kinds /\ Trusted(e)'
      BY <1>a, <2>4
    <3>2. watch' \in Watches /\ WatchInv'
      BY <1>0, <2>4, <3>1, EntrySound
    <3>3. JobInv'
      BY <1>0, <2>1, <2>2, <3>1, JobStays
    <3> QED BY <1>0, <2>1, <2>2, <3>1, <3>2, <3>3, StepKeeps
  <2> QED BY <1>c, <2>3, <2>4 DEF BroadcastAndWatch
<1>1. CASE Tick
  BY <1>1, TickSound
<1>2. CASE \E n \in Thresholds : AdaptPricClaim(n) \/ AdaptForeignClaim(n)
  <2>1. PICK n \in Thresholds :
          \/ BroadcastAndWatch(<<"PricClaim", "pric_claim", n>>)
          \/ BroadcastAndWatch(<<"ForeignClaim", "foreign_claim", n>>)
    BY <1>2 DEF AdaptPricClaim, AdaptForeignClaim
  <2>2. {<<"PricClaim", "pric_claim", n>>, <<"ForeignClaim", "foreign_claim", n>>} \subseteq Entries
    BY DEF Entries, Kinds, ForeignKinds, Txs, PricSpends, ForeignSpends
  <2> QED BY <1>c, <2>1, <2>2
<1>3. CASE \E x \in {"pric_claim", "foreign_claim"} : PeerClaim(x)
  <2>1. PICK x \in {"pric_claim", "foreign_claim"} : PeerClaim(x)
    BY <1>3
  <2>2. x \in Txs
    BY DEF Txs, PricSpends, ForeignSpends
  <2>3. chain' \in Views /\ \A y \in Txs : chain[y] = "confirmed" => chain'[y] = "confirmed"
    BY <1>0, <2>1, <2>2, RelayedSound DEF PeerClaim, Views
  <2> QED BY <1>b, <2>1, <2>3 DEF PeerClaim
<1>4. CASE \E x \in Txs : Confirm(x)
  <2>1. PICK x \in Txs : Confirm(x)
    BY <1>4
  <2>2. chain' \in Views /\ \A y \in Txs : chain[y] = "confirmed" => chain'[y] = "confirmed"
    BY <1>0, <2>1 DEF Confirm, Views
  <2> QED BY <1>b, <2>1, <2>2 DEF Confirm
<1>5. CASE TimelockPasses \/ CalmDown \/ UNCHANGED vars
  <2>1. /\ UNCHANGED <<swap, legs, watch, chain, attempted, job, args, reports, misled>>
        /\ due' \in BOOLEAN /\ calm' \in BOOLEAN
    BY <1>0, <1>5 DEF TimelockPasses, CalmDown, vars, told
  <2>2. JobInv' /\ WatchInv'
    BY <1>0, <2>1, JobStays, WatchStays
  <2> QED BY <1>0, <2>1, <2>2, StepKeeps
<1>6. CASE \E e \in Reports[Party] : Register(e)
  <2>1. PICK e \in Reports[Party] : Register(e)
    BY <1>6
  <2>2. e \in Entries
    BY <1>0, WatcherConstants DEF Party, Swap
  <2>3. /\ watch' = [watch EXCEPT ![e[1]] = <<e[2], e[3]>>] /\ reports' \in Nat
        /\ misled' = misled \cup (IF Fit(e) THEN {} ELSE {e[1]})
        /\ UNCHANGED <<swap, legs, chain, due, attempted, job, args, calm>>
    BY <1>0, <2>1 DEF Register
  <2>4. misled \subseteq misled' /\ misled' \subseteq Kinds /\ Trusted(e)'
    BY <1>a, <2>2, <2>3
  <2>5. watch' \in Watches /\ WatchInv'
    BY <1>0, <2>2, <2>3, <2>4, EntrySound
  <2>6. JobInv'
    BY <1>0, <2>3, <2>4, JobStays
  <2> QED BY <1>0, <2>3, <2>4, <2>5, <2>6, StepKeeps
<1>7. CASE \E k \in Removals[Party] : Unregister(k)
  <2>1. PICK k : Unregister(k)
    BY <1>7
  <2>2. /\ watch' = [watch EXCEPT ![k] = None] /\ reports' \in Nat
        /\ UNCHANGED <<swap, legs, chain, due, attempted, job, args, misled, calm>>
    BY <1>0, <2>1 DEF Unregister
  <2>3. watch' \in Watches /\ WatchInv'
    BY <1>0, <2>2 DEF Watches, WatchInv, Trusted
  <2>4. JobInv'
    BY <1>0, <2>2, JobStays
  <2> QED BY <1>0, <2>2, <2>3, <2>4, StepKeeps
<1>8. CASE \E e \in Reports[Party] : Notify(e)
  <2>1. PICK e \in Reports[Party] : Notify(e)
    BY <1>8
  <2>2. e \in Entries
    BY <1>0, WatcherConstants DEF Party, Swap
  <2>3. /\ SetX(e[1], swap, swap') /\ legs' = Noted(e) /\ reports' \in Nat
        /\ UNCHANGED <<chain, due, attempted, job, args, calm>>
    BY <1>0, <2>1 DEF Notify
  <2>4. /\ misled \subseteq misled' /\ misled' \subseteq Kinds
        /\ (e[2] \in Meant(e[1]) /\ chain[e[2]] = "confirmed") \/ e[1] \in misled'
    BY <1>0, <2>1, <2>2 DEF Notify, Entries
  <2>5. /\ swap' \in Swap /\ RecordInv(swap') /\ LegsInv' /\ Grounded'
        /\ legs' \in [funding: Txs \cup {None}, refund: Txs \cup {None}]
    BY <2>2, <2>3, <2>4, CallGrounded
  <2>6. JobInv'
    BY <1>0, <2>3, <2>4, JobStays
  <2>7. watch' \in Watches /\ WatchInv'
    <3>1. CASE UNCHANGED watch
      BY <1>0, <2>4, <3>1, WatchStays
    <3>2. CASE watch' = [watch EXCEPT ![e[1]] = None]
      BY <1>0, <2>4, <3>2 DEF Watches, WatchInv, Trusted, Fit, Meant, Refunds, ForeignSpends
    <3> QED BY <2>1, <3>1, <3>2 DEF Notify
  <2>8. TypeOK'
    BY <1>0, <2>3, <2>4, <2>5, <2>7 DEF TypeOK, Watches
  <2> QED BY <2>5, <2>6, <2>7, <2>8 DEF WatcherInv
<1>9. CASE Crash
  <2>1. Idle = [Idle EXCEPT !.at = "idle"]
    BY DEF Idle
  <2>2. job' \in Jobs /\ JobInv'
    BY <1>9, <2>1, IdleSound DEF Crash, Stages
  <2>3. UNCHANGED <<swap, legs, watch, chain, due, calm, args, reports, misled>> /\ attempted' = {}
    BY <1>9 DEF Crash, told
  <2>4. WatchInv'
    BY <1>0, <2>3, WatchStays
  <2> QED BY <1>0, <2>2, <2>3, <2>4, TickStep
<1> QED BY <1>1, <1>2, <1>3, <1>4, <1>5, <1>6, <1>7, <1>8, <1>9 DEF Next

\* The inductive invariant of the watcher and the record it moves.
LEMMA Invariance == Spec => []WatcherInv
<1>1. Init => WatcherInv
  BY InitSound
<1>2. WatcherInv /\ [Next]_vars => WatcherInv'
  BY StepSound
<1> QED BY <1>1, <1>2, PTL DEF Spec

\* The watch list, the record and the tick keep their types.
THEOREM TypeCorrect == Spec => []TypeOK
<1>1. WatcherInv => TypeOK
  BY DEF WatcherInv
<1> QED BY <1>1, Invariance, PTL

\* HandleEntry settles a record only on a confirmed transaction of the kind that
\* settles it so, or after a wrong report of that kind, for every set of parties,
\* timelocks, reports, removals and order of the entries, and whatever fails or crashes
\* between its steps.
THEOREM SettlesOnConfirmation == Spec => []SettledOnChain
<1>1. WatcherInv => SettledOnChain
  BY DEF WatcherInv, Grounded
<1> QED BY <1>1, Invariance, PTL

\* SetPricClaimed wipes Bob's secret only on a confirmed PRIC claim, or after a wrong
\* report of one, under the same generality.
THEOREM SecretSafety == Spec => []SecretOutlivesClaim
<1>1. WatcherInv => SecretOutlivesClaim
  BY DEF WatcherInv, Grounded
<1> QED BY <1>1, Invariance, PTL

-----------------------------------------------------------------------------
(* The record under the watcher. *)

\* A step of the watcher, of the parties or of the chains leaves the record alone or
\* makes calls on it.
LEMMA StepMoves ==
    ASSUME WatcherInv, [Next]_vars
    PROVE  UNCHANGED swap \/ Moved(swap, swap')
<1>0. swap \in Swap /\ RecordInv(swap) /\ JobInv
  BY DEF WatcherInv, TypeOK
<1>1. CASE Apply
  <2>1. job.on[1] \in Kinds
    BY <1>0, <1>1 DEF Apply, JobInv, InHand, Entries
  <2> QED BY <1>0, <1>1, <2>1, SetXSound DEF Apply
<1>2. CASE \E x \in {"pric_claim", "foreign_claim"} : PeerClaim(x)
  BY <1>0, <1>2, ScanSound DEF PeerClaim
<1>3. CASE \E x \in Txs : Confirm(x)
  BY <1>0, <1>3, ScanSound DEF Confirm
<1>4. CASE \/ Begin \/ HandleEntry \/ Remove \/ TryAutoDetectForeignClaim
           \/ TryAutoRefundForeign \/ AutoBroadcastForeignRefund \/ TryAutoRefundPric
           \/ AutoBroadcastPricRefund \/ Add
  BY <1>4 DEF Begin, HandleEntry, Remove, TryAutoDetectForeignClaim, TryAutoRefundForeign,
       AutoBroadcastForeignRefund, TryAutoRefundPric, AutoBroadcastPricRefund, Add
<1>5. CASE \/ \E n \in Thresholds : AdaptPricClaim(n) \/ AdaptForeignClaim(n)
           \/ \E e \in Reports[Party] : Register(e)
           \/ \E k \in Removals[Party] : Unregister(k)
           \/ TimelockPasses \/ Crash \/ CalmDown
  BY <1>5 DEF AdaptPricClaim, AdaptForeignClaim, BroadcastAndWatch, Register, Unregister,
       TimelockPasses, Crash, CalmDown
<1>6. CASE UNCHANGED vars
  BY <1>6 DEF vars
<1>7. CASE \E e \in Reports[Party] : Notify(e)
  <2>1. PICK e \in Reports[Party] : Notify(e)
    BY <1>7
  <2>2. e[1] \in Kinds
    BY <1>0, WatcherConstants DEF Party, Swap, Entries
  <2> QED BY <1>0, <2>1, <2>2, SetXSound DEF Notify
<1> QED BY <1>1, <1>2, <1>3, <1>4, <1>5, <1>6, <1>7 DEF Next, Tick

\* Whatever confirms, fails or restarts, the watcher never takes a record back, never
\* unsettles one, and never changes what the parties have signed over.
THEOREM WatcherUndoesNothing == Spec => [][Forward(swap, swap') /\ Keeps(swap, swap')]_swap
<1>1. WatcherInv /\ [Next]_vars => [Forward(swap, swap') /\ Keeps(swap, swap')]_swap
  <2> SUFFICES ASSUME WatcherInv, [Next]_vars, swap' # swap
               PROVE  Forward(swap, swap') /\ Keeps(swap, swap')
    OBVIOUS
  <2>1. swap \in Swap /\ RecordInv(swap) /\ Moved(swap, swap')
    BY StepMoves DEF WatcherInv, TypeOK
  <2> QED BY <2>1, MovedSound DEF Sound
<1> QED BY <1>1, Invariance, PTL DEF Spec

\* A record that the watcher moves has every pre-signature and both refund heights in
\* order from the funding on: what AdaptorSwapStore's FundedIsRefundable says of a row.
THEOREM WatchedRecordIsSound == Spec => []RecordInv(swap)
<1>1. WatcherInv => RecordInv(swap)
  BY DEF WatcherInv
<1> QED BY <1>1, Invariance, PTL

\* The calls of the instance are the record's.
LEMMA SameCalls ==
    ASSUME NEW s, NEW r
    PROVE  /\ Call(s, r) => Record!Call(s, r)
           /\ Recovered(s, r) => Record!Recover(s, r)
BY DEF Call, Create, SetAdaptorMaterials, SetRefundTimelocks, SetPeerStealthPubkeys, SetScratch,
       SetUnsignedTx, SetPricClaimRing, SetPricFundingPlanned, SetBtcFundingPlanned,
       SetPreSigned, SetBtcFunded, SetPricFunded, SetPricClaimed, SetComplete, SetRefunded,
       Abort, Roles, NewSwap, Terminal, States, PreSigParts, UnsignedTxs, ClaimDetails,
       Artefacts, Timelocks, ValidateRefundTimelocks, IsComplete, RecomputeAdaptorReady, In,
       Agrees, Filled, Offers, SetTSecret, Recovered, Record!Call, Record!Create,
       Record!SetAdaptorMaterials, Record!SetRefundTimelocks, Record!SetPeerStealthPubkeys,
       Record!SetScratch, Record!SetUnsignedTx, Record!SetPricClaimRing,
       Record!SetPricFundingPlanned, Record!SetBtcFundingPlanned, Record!SetPreSigned,
       Record!SetBtcFunded, Record!SetPricFunded, Record!SetPricClaimed, Record!SetComplete,
       Record!SetRefunded, Record!Abort, Record!Roles, Record!NewSwap, Record!Terminal,
       Record!States, Record!PreSigParts, Record!UnsignedTxs, Record!ClaimDetails,
       Record!Artefacts, Record!Timelocks, Record!ValidateRefundTimelocks, Record!IsComplete,
       Record!RecomputeAdaptorReady, Record!In, Record!Agrees, Record!Filled, Record!Offers,
       Record!SetTSecret, Record!Recover

\* The watcher and the scan change the record by calls that AdaptorSwap accepts only.
THEOREM WatcherMakesCalls == Spec => MovedByCalls
<1> DEFINE Step == \/ Record!Next
                   \/ LET q == [swap EXCEPT !.t = swap.T]
                      IN  Record!Recover(swap, q) /\ SetPricClaimed(q, swap')
<1>1. ASSUME Moved(swap, swap') PROVE Step
  BY <1>1, SameCalls DEF Moved, RecoverAndClaim, Record!Next
<1>2. WatcherInv /\ [Next]_vars => [Step]_swap
  BY <1>1, StepMoves
<1> QED BY <1>2, Invariance, PTL DEF Spec, MovedByCalls
================================================================================
