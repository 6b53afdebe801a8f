-------------------------- MODULE MCClsagNonceRecords --------------------------
(* Small instances of ClsagNonceRecords for TLC. *)
EXTENDS ClsagNonceRecords, TLC

Symmetry == Permutations(Keys) \cup Permutations(Sessions) \cup Permutations(Alphas)

=============================================================================
