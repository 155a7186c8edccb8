---------------------------- MODULE KeyspaceMemory ----------------------------
(***************************************************************************)
(* The keyspace routes over InMemoryKeyspaceStore: four maps behind one    *)
(* RwLock, and a put that validates and writes under one write guard.      *)
(***************************************************************************)
EXTENDS KeyspaceRoutes

VARIABLES
    by_hash,        \* hashes of the stored documents
    latest,         \* keyspace -> hash of its latest version, or NoHash
    versions,       \* keyspace -> the hashes, in order
    member_index,   \* fingerprint -> keyspaces it is a current member of
    began           \* history: versions its keyspace had when a request arrived

store == <<by_hash, latest, versions, member_index>>
vars == <<docs, req, by_hash, latest, versions, member_index, began>>

Init ==
    /\ RoutesInit
    /\ by_hash = {}
    /\ latest = [k \in Keyspaces |-> NoHash]
    /\ versions = [k \in Keyspaces |-> <<>>]
    /\ member_index = [f \in Fps |-> {}]
    /\ began = [r \in Requests |-> 0]

Submit(r, op, k, f, h, d) ==
    /\ Arrive(r, op, k, f, h, d)
    /\ began' = [began EXCEPT ![r] = Len(versions[d.ks])]
    /\ UNCHANGED store

Check(r, k) ==
    /\ req[r].st = "check" /\ docs[req[r].hash].ks = k
    /\ CheckSigner(r, latest[k])
    /\ UNCHANGED <<store, began>>

MembersOf(h) == IF h = NoHash THEN {} ELSE docs[h].body.members

(* Mutant: the reverse index only learns. *)
StoreNoForget(d, h) ==
    LET k == d.ks IN
    /\ member_index' = [f \in Fps |->
         member_index[f] \union (IF f \in d.body.members THEN {k} ELSE {})]
    /\ latest' = [latest EXCEPT ![k] = h]
    /\ versions' = [versions EXCEPT ![k] = Append(@, h)]
    /\ by_hash' = by_hash \union {h}

(* put: the reverse index forgets the members of the old latest version    *)
(* and learns those of the new one.                                        *)
Store(d, h) ==
    LET k == d.ks IN
    /\ member_index' = [f \in Fps |->
         (IF f \in MembersOf(latest[k]) THEN member_index[f] \ {k} ELSE member_index[f])
         \union (IF f \in d.body.members THEN {k} ELSE {})]
    /\ latest' = [latest EXCEPT ![k] = h]
    /\ versions' = [versions EXCEPT ![k] = Append(@, h)]
    /\ by_hash' = by_hash \union {h}

Put(r) ==
    /\ req[r].st = "put"
    /\ LET h == req[r].hash
           d == docs[h]
           ok == validate_chain(versions[d.ks], d)
       IN  /\ Answer(r, ok)
           /\ IF ok THEN Store(d, h) ELSE UNCHANGED store
    /\ UNCHANGED <<docs, began>>

Next ==
    \E r \in Requests :
      \/ \E op \in {"create", "publish"}, k \in Keyspaces, f \in Fps,
            h \in Hash, d \in KeyspaceDoc : Submit(r, op, k, f, h, d)
      \/ \E k \in Keyspaces : Check(r, k)
      \/ Put(r)

Spec == Init /\ [][Next]_vars
-----------------------------------------------------------------------------
TypeOK ==
    /\ RoutesTypeOK
    /\ by_hash \subseteq Hash
    /\ latest \in [Keyspaces -> Hash \union {NoHash}]
    /\ versions \in [Keyspaces -> Seq(Hash)]
    /\ member_index \in [Fps -> SUBSET Keyspaces]
    /\ began \in [Requests -> Nat]

(* The four maps tell one story: latest is the end of versions, versions   *)
(* holds exactly the stored documents of the keyspace, and the reverse     *)
(* index lists a keyspace under exactly the members of its latest version, *)
(* whatever members earlier versions had.                                  *)
StoreConsistent ==
    /\ \A k \in Keyspaces :
         latest[k] = IF versions[k] = <<>> THEN NoHash ELSE versions[k][Len(versions[k])]
    /\ \A h \in Hash : h \in by_hash <=>
         Written(h) /\ \E i \in 1..Len(versions[docs[h].ks]) : versions[docs[h].ks][i] = h
    /\ \A f \in Fps, k \in Keyspaces :
         k \in member_index[f] <=> f \in MembersOf(latest[k])

(* The store implements the append-only chain. *)
Chain == INSTANCE KeyspaceChain WITH chain <- versions
ImplementsChain == Chain!Spec

(* f could sign rotations on version i, counted from 1, of keyspace k. *)
Signed(k, i, f) ==
    i \in 1..Len(versions[k]) /\ f \in docs[versions[k][i]].body.signers

(* Every answered publish stands directly after the version its document   *)
(* names, and its caller could sign rotations on a version that was the    *)
(* latest at some moment while the request was handled: neither a right    *)
(* lost before the request arrived nor one gained from a document stored   *)
(* after its own put will do.  publish_version checks the version it reads *)
(* and put links to the version stored later, so nothing stronger holds of *)
(* the replaced version; PublisherSignsPrior is the stronger claim.        *)
PublisherWasSigner ==
    \A r \in Requests : Created(r) /\ req[r].op = "publish" =>
        LET d == docs[req[r].hash] IN
            /\ d.version \in 1..Len(versions[d.ks])
            /\ versions[d.ks][d.version] = d.parent
            /\ \E i \in began[r]..d.version : Signed(d.ks, i, req[r].caller)

(* "Caller MUST currently be a member with SignRotation on the prior       *)
(* version": the caller of an answered publish could sign rotations on the *)
(* very version its document replaces.  The code does not give this: a     *)
(* version stored between the check and the put replaces the checked one.  *)
PublisherSignsPrior ==
    \A r \in Requests : Created(r) /\ req[r].op = "publish" =>
        req[r].caller \in docs[docs[req[r].hash].parent].body.signers
=============================================================================
