------------------------------- MODULE MCFiles --------------------------------
(* Symmetry of Files: its requests are interchangeable, and so are its     *)
(* accounts and its files.                                                 *)
EXTENDS Files, TLC

Symmetry == Permutations(Requests) \union Permutations(Fps) \union Permutations(Hashes)
=============================================================================
