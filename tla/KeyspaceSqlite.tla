---------------------------- MODULE KeyspaceSqlite ----------------------------
(***************************************************************************)
(* The keyspace routes over SqliteKeyspaceStore.  Its put reads the        *)
(* version list in one database call and writes in another, a transaction; *)
(* the connection is shared, so other requests run in between.             *)
(***************************************************************************)
EXTENDS KeyspaceRoutes, SequencesExt

VARIABLES
    keyspaces,          \* table keyspaces: the summary row, or NoRow
    keyspace_docs,      \* table keyspace_docs: the hashes of each keyspace, as
                        \* the index on (keyspace_id, version) has them, equal
                        \* versions in row order
    keyspace_members,   \* table keyspace_members: its primary keys
    raced               \* history: keyspaces two puts were in at once

tables == <<keyspaces, keyspace_docs, keyspace_members>>
vars == <<docs, req, keyspaces, keyspace_docs, keyspace_members, raced>>

NoRow == [version |-> -1, hash |-> NoHash]

Init ==
    /\ RoutesInit
    /\ keyspaces = [k \in Keyspaces |-> NoRow]
    /\ keyspace_docs = [k \in Keyspaces |-> <<>>]
    /\ keyspace_members = {}
    /\ raced = {}

Stored(k) == Range(keyspace_docs[k])
AllStored == UNION {Stored(k) : k \in Keyspaces}
VersionAt(k, i) == docs[keyspace_docs[k][i]].version

(* INSERT INTO keyspace_docs: the index has a row of version v behind the  *)
(* rows of a version up to v.                                              *)
UpTo(k, v) == Cardinality({i \in DOMAIN keyspace_docs[k] : VersionAt(k, i) <= v})
Insert(k, v, h) == InsertAt(keyspace_docs[k], UpTo(k, v) + 1, h)

(* SELECT hash ... ORDER BY version, read off the index. *)
list_versions(k) == keyspace_docs[k]

(* The join of keyspace_members with the summary row's current_version.    *)
list_by_member(f) ==
    {k \in Keyspaces : <<k, keyspaces[k].version, f>> \in keyspace_members}

Submit(r, op, k, f, h, d) ==
    /\ Arrive(r, op, k, f, h, d)
    /\ UNCHANGED <<tables, raced>>

(* get_latest follows the summary row's current_hash. *)
Check(r, k) ==
    /\ req[r].st = "check" /\ docs[req[r].hash].ks = k
    /\ CheckSigner(r, keyspaces[k].hash)
    /\ UNCHANGED <<tables, raced>>

(* Is another put of the keyspace between its two database calls? *)
Overlaps(r, k) ==
    \E s \in Requests \ {r} : req[s].st = "write" /\ docs[req[s].hash].ks = k

(* put, first database call: list_versions, then validate_chain. *)
ReadVersions(r) ==
    /\ req[r].st = "put"
    /\ LET d == docs[req[r].hash]
           ok == validate_chain(list_versions(d.ks), d)
       IN  /\ req' = [req EXCEPT ![r] = IF ok THEN [@ EXCEPT !.st = "write"] ELSE Refused]
           /\ raced' = raced \union (IF ok /\ Overlaps(r, d.ks) THEN {d.ks} ELSE {})
    /\ UNCHANGED <<docs, tables>>

(* Mutant: the last put wins. *)
UpsertAlways(k, v, h) == [version |-> v, hash |-> h]

(* The upsert of the summary row advances it, or leaves it alone. *)
Upsert(k, v, h) ==
    IF v > keyspaces[k].version THEN [version |-> v, hash |-> h] ELSE keyspaces[k]

(* Mutant: the member rows carry the version that was current. *)
WriteTxOldMembers(r) ==
    /\ req[r].st = "write"
    /\ LET h == req[r].hash
           d == docs[h]
       IN  /\ h \notin AllStored
           /\ Answer(r, TRUE)
           /\ keyspaces' = [keyspaces EXCEPT ![d.ks] = Upsert(d.ks, d.version, h)]
           /\ keyspace_docs' = [keyspace_docs EXCEPT ![d.ks] = Insert(d.ks, d.version, h)]
           /\ keyspace_members' = keyspace_members \union
                {<<d.ks, keyspaces[d.ks].version, f>> : f \in d.body.members}
    /\ UNCHANGED <<docs, raced>>

(* put, second database call: the transaction.  A document whose hash is   *)
(* a row already fails on the primary key and rolls everything back.       *)
WriteTx(r) ==
    /\ req[r].st = "write"
    /\ LET h == req[r].hash
           d == docs[h]
       IN  IF h \in AllStored
           THEN Answer(r, FALSE) /\ UNCHANGED tables
           ELSE /\ Answer(r, TRUE)
                /\ keyspaces' = [keyspaces EXCEPT ![d.ks] = Upsert(d.ks, d.version, h)]
                /\ keyspace_docs' =
                     [keyspace_docs EXCEPT ![d.ks] = Insert(d.ks, d.version, h)]
                /\ keyspace_members' = keyspace_members \union
                     {<<d.ks, d.version, f>> : f \in d.body.members}
    /\ UNCHANGED <<docs, raced>>

Next ==
    \E r \in Requests :
      \/ \E op \in {"create", "publish"}, k \in Keyspaces, f \in Fps,
            h \in Hash, d \in KeyspaceDoc : Submit(r, op, k, f, h, d)
      \/ \E k \in Keyspaces : Check(r, k)
      \/ ReadVersions(r)
      \/ WriteTx(r)

Spec == Init /\ [][Next]_vars
-----------------------------------------------------------------------------
(* Row i has the highest version, and is the first of those that have it.  *)
Newest(k, i) ==
    \A j \in DOMAIN keyspace_docs[k] :
        /\ VersionAt(k, j) <= VersionAt(k, i)
        /\ j < i => VersionAt(k, j) < VersionAt(k, i)

(* However puts interleave, the summary row names the highest version      *)
(* stored, and of several documents at that version the one written        *)
(* first: a slow put never takes the current version back or replaces it.  *)
CurrentIsNewest ==
    \A k \in Keyspaces :
      IF keyspace_docs[k] = <<>> THEN keyspaces[k] = NoRow
      ELSE \E i \in DOMAIN keyspace_docs[k] :
             /\ keyspaces[k] = [version |-> VersionAt(k, i), hash |-> keyspace_docs[k][i]]
             /\ Newest(k, i)

(* Even where racing puts fork a chain, every stored document but version  *)
(* 0 has its parent stored, in the same keyspace, at a lower version: the  *)
(* history reached through parent is finite and ends in a version 0.       *)
AncestryStored ==
    \A k \in Keyspaces : \A h \in Stored(k) :
        IF docs[h].version = 0 THEN docs[h].parent = NoHash
        ELSE docs[h].parent \in Stored(k) /\ docs[docs[h].parent].version < docs[h].version

(* list_by_member misses no member of the current version, racing or not;  *)
(* and it finds nobody else ("Find all keyspaces where a fingerprint is a  *)
(* current member") unless two puts of the keyspace overlapped, which can  *)
(* merge their member lists.                                               *)
ListByMember ==
    \A k \in Keyspaces, f \in Fps :
        LET current == keyspaces[k] # NoRow /\ f \in docs[keyspaces[k].hash].body.members IN
          /\ current => k \in list_by_member(f)
          /\ k \in list_by_member(f) => current \/ k \in raced

(* Every step, as long as no two puts of a keyspace have overlapped, is a  *)
(* step of the append-only chain or leaves it alone.                       *)
chain == [k \in Keyspaces |-> list_versions(k)]
Chain == INSTANCE KeyspaceChain
ChainUnlessRaced ==
    /\ Chain!Init
    /\ [][raced' = {} => Chain!Next \/ UNCHANGED <<docs, chain>>]_vars
=============================================================================
