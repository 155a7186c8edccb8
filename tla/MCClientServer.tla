---------------------------- MODULE MCClientServer -----------------------------
(* ClientServer for TLC: Alice has two identities with one Ed25519 key, as *)
(* nothing keeps a user from pairing it with another ML-DSA key, Bob has   *)
(* one; Alice has shared a file with Bob.                                  *)
EXTENDS ClientServer, TLC

CONSTANTS alice, bob, m1, m2, m3, doc, pic

MCIds == {[ed |-> alice, ml |-> m1], [ed |-> alice, ml |-> m2], [ed |-> bob, ml |-> m3]}
MCShared == {[from |-> alice, to |-> bob, file |-> doc]}

Symmetry == Permutations(Cmds)
===============================================================================
