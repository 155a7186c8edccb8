---------------------------- MODULE MCEncryptedFiles ----------------------------
(* Values for EncryptedFiles: files of one, two and three chunk groups (of *)
(* two bytes each), and one that is too large.                             *)
EXTENDS EncryptedFiles, TLC

CONSTANTS x, y

Files == {<<>>, <<y, x, x>>, <<x, y, x, x, y>>, <<x, x, x, x, x, x, x>>}
Asked == {<<1, 5>>, <<3, 4>>}
Symmetry == Permutations(Commands)
=============================================================================
