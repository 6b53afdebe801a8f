------------------------------ MODULE AdaptorSwap ------------------------------
(***************************************************************************)
(* What a wallet promises about a swap: there is one record, and every     *)
(* change of it is one whole accepted call.  No cache, no failed write, no *)
(* lock and no restart can be seen in it.                                  *)
(***************************************************************************)
EXTENDS AdaptorSwapRecord

VARIABLE swap

\* t recovered from the signature of the PRIC claim through the pre-signature.
Recover(s, r) == s # NoSwap /\ "pric_claim" \in s.presigs /\ SetTSecret(s.T, s, r)

Init == swap = NoSwap

Next == Call(swap, swap') \/ Recover(swap, swap')

Spec == Init /\ [][Next]_swap
================================================================================
