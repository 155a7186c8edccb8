----------------------------- MODULE MCKeyspace -----------------------------
(* Values for KeyspaceMemory: member lists in which signing rights pass    *)
(* from one account to another.                                            *)
EXTENDS KeyspaceMemory, TLC

CONSTANTS a, b

Body(m, s, f) == [members |-> m, signers |-> s, adder |-> f]

HandOver == {Body({a, b}, {a}, a), Body({b}, {b}, a), Body({a}, {}, b)}
Symmetry == Permutations(Hash) \union Permutations(Requests)
=============================================================================
