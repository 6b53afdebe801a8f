------------------------- MODULE MCMusig2NonceRecords -------------------------
(* Finite instances of Musig2NonceRecords.  No definition tells two keys, two *)
(* nonces, two aggregates or two handles apart.                               *)
EXTENDS Musig2NonceRecords, TLC

Symmetry ==
    Permutations(Keys) \cup Permutations(Nonces) \cup Permutations(Aggs)
        \cup Permutations(Handles)

=============================================================================
