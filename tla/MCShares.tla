------------------------------- MODULE MCShares -------------------------------
(* Shares between a few accounts. *)
EXTENDS Shares, TLC

Symmetry == Permutations(Fps) \union Permutations(Keys) \union Permutations(Requests)
=============================================================================
