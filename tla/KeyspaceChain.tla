---------------------------- MODULE KeyspaceChain ----------------------------
(***************************************************************************)
(* What a KeyspaceStore promises (trait KeyspaceStore, validate_chain):    *)
(* each keyspace is one append-only chain of documents, version numbers    *)
(* are positions, and each version names the hash of the one before it.    *)
(***************************************************************************)
EXTENDS Integers, Sequences

CONSTANTS Keyspaces, Hash, NoHash

VARIABLES
    docs,     \* the documents clients have written, by hash
    chain     \* per keyspace, the hashes stored, in order

Unwritten == [version |-> -1]

Init ==
    /\ docs = [h \in Hash |-> Unwritten]
    /\ chain = [k \in Keyspaces |-> <<>>]

(* A client writes a document; what a hash stands for never changes.       *)
Write ==
    /\ \A h \in Hash : docs[h] # Unwritten => docs'[h] = docs[h]
    /\ UNCHANGED chain

Last(k) == IF chain[k] = <<>> THEN NoHash ELSE chain[k][Len(chain[k])]

Extend(k, h) ==
    /\ docs[h] # Unwritten
    /\ docs[h].ks = k
    /\ docs[h].version = Len(chain[k])
    /\ docs[h].parent = Last(k)
    /\ chain' = [chain EXCEPT ![k] = Append(@, h)]
    /\ UNCHANGED docs

Next == Write \/ \E k \in Keyspaces, h \in Hash : Extend(k, h)

Spec == Init /\ [][Next]_<<docs, chain>>
=============================================================================
