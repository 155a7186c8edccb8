------------------------- MODULE KeyspaceSqliteProofs -------------------------
(***************************************************************************)
(* Proofs about the keyspace routes over SQLite, where puts of a keyspace  *)
(* may overlap.  What a put has validated when it comes to write is stale; *)
(* the invariant says how much of it still holds: there are at least as    *)
(* many versions as it counted, and the parent it found is stored.         *)
(***************************************************************************)
EXTENDS KeyspaceSqlite, FiniteSetTheorems, SequenceTheorems, TLAPS

(* The types of the tables. *)
TypeOK ==
    /\ RoutesTypeOK
    /\ keyspaces \in [Keyspaces -> [version : -1..MaxVersion, hash : Hash \union {NoHash}]]
    /\ keyspace_docs \in [Keyspaces -> Seq(Hash)]
    /\ keyspace_members \subseteq Keyspaces \X (0..MaxVersion) \X Fps
    /\ raced \subseteq Keyspaces

(* The rows of a keyspace are its own documents, and there are more of     *)
(* them than the version of any says.                                      *)
RowsOK ==
    \A k \in Keyspaces : \A h \in Stored(k) :
        /\ Written(h)
        /\ docs[h].ks = k
        /\ docs[h].version < Len(keyspace_docs[k])

(* The index is in order. *)
Ordered ==
    \A k \in Keyspaces : \A i, j \in 1..Len(keyspace_docs[k]) :
        i < j => VersionAt(k, i) <= VersionAt(k, j)

(* The member rows are those of the stored documents. *)
MembersOK ==
    \A k \in Keyspaces, v \in 0..MaxVersion, f \in Fps :
        <<k, v, f>> \in keyspace_members <=>
            \E h \in Stored(k) : docs[h].version = v /\ f \in docs[h].body.members

(* What a put relies on between its two database calls, for document d. *)
StillFits(d) ==
    \/ d.version = 0 /\ d.parent = NoHash
    \/ /\ d.version \in 1..Len(keyspace_docs[d.ks])
       /\ d.parent \in Stored(d.ks)
       /\ docs[d.parent].version < d.version

Writes(r, k) == req[r].st = "write" /\ docs[req[r].hash].ks = k

Writing == \A r \in Requests : req[r].st = "write" => StillFits(docs[req[r].hash])

(* Where no two puts overlapped, version numbers are positions, and the    *)
(* one put that is about to write still has the newest version right.      *)
Unraced ==
    \A k \in Keyspaces \ raced :
        /\ \A i \in 1..Len(keyspace_docs[k]) : VersionAt(k, i) = i - 1
        /\ \A r \in Requests : Writes(r, k) =>
              /\ validate_chain(keyspace_docs[k], docs[req[r].hash])
              /\ \A s \in Requests : Writes(s, k) => s = r

IInv ==
    /\ TypeOK /\ RowsOK /\ Ordered /\ MembersOK /\ Writing /\ Unraced
    /\ CurrentIsNewest /\ AncestryStored
-----------------------------------------------------------------------------
(* A set of positions that has every position before one it has is an      *)
(* initial segment, and its cardinality says how long.                     *)
LEMMA InitialSegment ==
    ASSUME NEW L \in Nat, NEW S \in SUBSET (1..L),
           \A i, j \in 1..L : i < j /\ j \in S => i \in S
    PROVE  /\ Cardinality(S) \in 0..L
           /\ S = 1..Cardinality(S)
<1>1. \A n \in Nat : IsFiniteSet(1..n) /\ Cardinality(1..n) = n
  <2> SUFFICES ASSUME NEW n \in Nat PROVE IsFiniteSet(1..n) /\ Cardinality(1..n) = n
    OBVIOUS
  <2>1. 1 \in Int /\ n \in Int /\ (IF 1 > n THEN 0 ELSE n - 1 + 1) = n
    OBVIOUS
  <2>. QED
    BY <2>1, FS_Interval
<1>2. IsFiniteSet(S) /\ Cardinality(S) <= L
  <2>1. IsFiniteSet(1..L) /\ Cardinality(1..L) = L
    BY <1>1
  <2>2. IsFiniteSet(S) /\ Cardinality(S) <= Cardinality(1..L)
    BY ONLY <2>1, S \in SUBSET (1..L), FS_Subset
  <2>. QED
    BY <2>1, <2>2
<1>3. Cardinality(S) \in Nat
  BY <1>2, FS_CardinalityType
<1>4. ASSUME NEW i \in S PROVE i <= Cardinality(S)
  <2>1. i \in Nat /\ 1..i \in SUBSET S
    OBVIOUS
  <2>. QED
    BY <1>1, <1>2, <2>1, FS_Subset
<1>5. S \in SUBSET (1..Cardinality(S))
  BY <1>3, <1>4
<1>6. 1..Cardinality(S) = S
  BY <1>1, <1>3, <1>5, FS_Subset
<1>. QED
  BY <1>2, <1>3, <1>6

(* What InsertAt does to a sequence. *)
LEMMA InsertAtFacts ==
    ASSUME NEW S, NEW s \in Seq(S), NEW e \in S, NEW n \in 0..Len(s)
    PROVE  /\ InsertAt(s, n + 1, e) \in Seq(S)
           /\ Len(InsertAt(s, n + 1, e)) = Len(s) + 1
           /\ \A i \in 1..n : InsertAt(s, n + 1, e)[i] = s[i]
           /\ InsertAt(s, n + 1, e)[n + 1] = e
           /\ \A i \in (n + 2)..(Len(s) + 1) : InsertAt(s, n + 1, e)[i] = s[i - 1]
<1> DEFINE a == SubSeq(s, 1, n)
           b == SubSeq(s, n + 1, Len(s))
<1>1. InsertAt(s, n + 1, e) = a \o <<e>> \o b
  <2>1. (n + 1) - 1 = n
    OBVIOUS
  <2>. QED
    BY ONLY <2>1 DEF InsertAt, a, b
<1>2. a \in Seq(S) /\ Len(a) = n /\ \A i \in 1..n : a[i] = s[i]
  <2>1. 1 \in Int /\ n \in Int /\ \A i \in 1..n : s[i] \in S
    OBVIOUS
  <2>2. /\ a \in Seq(S) /\ Len(a) = (IF 1 <= n THEN n - 1 + 1 ELSE 0)
        /\ \A i \in 1..(n - 1 + 1) : a[i] = s[1 + i - 1]
    BY <2>1, SubSeqProperties
  <2> HIDE DEF a
  <2>. QED
    BY <2>2
<1>3. b \in Seq(S) /\ Len(b) = Len(s) - n /\ \A i \in 1..(Len(s) - n) : b[i] = s[n + i]
  <2>1. n + 1 \in Int /\ Len(s) \in Int /\ \A i \in (n + 1)..Len(s) : s[i] \in S
    OBVIOUS
  <2>2. /\ b \in Seq(S) /\ Len(b) = (IF n + 1 <= Len(s) THEN Len(s) - (n + 1) + 1 ELSE 0)
        /\ \A i \in 1..(Len(s) - (n + 1) + 1) : b[i] = s[n + 1 + i - 1]
    BY <2>1, SubSeqProperties
  <2> HIDE DEF b
  <2>. QED
    BY <2>2
<1> HIDE DEF a, b
<1>4. /\ a \o <<e>> \in Seq(S) /\ Len(a \o <<e>>) = n + 1
      /\ \A i \in 1..n : (a \o <<e>>)[i] = s[i]
      /\ (a \o <<e>>)[n + 1] = e
  <2>1. <<e>> \in Seq(S) /\ Len(<<e>>) = 1 /\ <<e>>[1] = e
    OBVIOUS
  <2>2. /\ a \o <<e>> \in Seq(S) /\ Len(a \o <<e>>) = Len(a) + Len(<<e>>)
        /\ \A i \in 1..(Len(a) + Len(<<e>>)) :
              (a \o <<e>>)[i] = IF i <= Len(a) THEN a[i] ELSE <<e>>[i - Len(a)]
    BY ONLY <1>2, <2>1, ConcatProperties
  <2>. QED
    BY <1>2, <2>1, <2>2
<1> DEFINE c == a \o <<e>>
<1>5. /\ c \o b \in Seq(S) /\ Len(c \o b) = Len(s) + 1
      /\ \A i \in 1..(n + 1) : (c \o b)[i] = c[i]
      /\ \A i \in (n + 2)..(Len(s) + 1) : (c \o b)[i] = b[i - (n + 1)]
  <2>1. c \in Seq(S) /\ Len(c) = n + 1
    BY <1>4
  <2> HIDE DEF c
  <2>2. /\ c \o b \in Seq(S) /\ Len(c \o b) = Len(c) + Len(b)
        /\ \A i \in 1..(Len(c) + Len(b)) :
              (c \o b)[i] = IF i <= Len(c) THEN c[i] ELSE b[i - Len(c)]
    BY ONLY <1>3, <2>1, ConcatProperties
  <2>. QED
    BY SMTT(30), <1>3, <2>1, <2>2
<1>6. ASSUME NEW i \in (n + 2)..(Len(s) + 1) PROVE b[i - (n + 1)] = s[i - 1]
  <2>1. i - (n + 1) \in 1..(Len(s) - n) /\ n + (i - (n + 1)) = i - 1
    OBVIOUS
  <2>. QED
    BY <1>3, <2>1
<1>7. c \in Seq(S) /\ \A i \in 1..n : c[i] = s[i]
  BY <1>4
<1>8. c[n + 1] = e
  BY <1>4
<1> HIDE DEF c
<1>9. InsertAt(s, n + 1, e) = c \o b
  BY <1>1 DEF c
<1>10. PICK t : t = c \o b
  OBVIOUS
<1>11. /\ \A i \in 1..n : i \in 1..(n + 1)
       /\ n + 1 \in 1..(n + 1)
  OBVIOUS
<1>12. /\ t \in Seq(S) /\ Len(t) = Len(s) + 1
       /\ \A i \in 1..n : t[i] = s[i]
       /\ t[n + 1] = e
       /\ \A i \in (n + 2)..(Len(s) + 1) : t[i] = s[i - 1]
  BY <1>5, <1>6, <1>7, <1>8, <1>10, <1>11
<1>. QED
  BY <1>9, <1>10, <1>12

(* What is stored are the rows, by their positions. *)
LEMMA StoredRows ==
    ASSUME TypeOK, NEW k \in Keyspaces
    PROVE  /\ keyspace_docs[k] \in Seq(Hash)
           /\ Len(keyspace_docs[k]) \in Nat
           /\ DOMAIN keyspace_docs[k] = 1..Len(keyspace_docs[k])
           /\ \A h : h \in Stored(k) <=>
                 \E i \in 1..Len(keyspace_docs[k]) : h = keyspace_docs[k][i]
           /\ Stored(k) \subseteq Hash
<1>1. keyspace_docs[k] \in Seq(Hash)
  BY DEF TypeOK
<1>2. DOMAIN keyspace_docs[k] = 1..Len(keyspace_docs[k]) /\ Len(keyspace_docs[k]) \in Nat
  BY <1>1
<1>3. \A i \in 1..Len(keyspace_docs[k]) : keyspace_docs[k][i] \in Hash
  BY <1>1
<1>. QED
  BY <1>1, <1>2, <1>3 DEF Stored, Range

(* A stored document is a document. *)
LEMMA StoredDocs ==
    ASSUME TypeOK, RowsOK, NEW k \in Keyspaces, NEW h \in Stored(k)
    PROVE  h \in Hash /\ Written(h) /\ docs[h] \in KeyspaceDoc /\ docs[h].version \in Nat
<1>1. h \in Hash /\ Written(h)
  BY StoredRows DEF RowsOK
<1>2. docs[h] \in KeyspaceDoc
  BY <1>1 DEF TypeOK, RoutesTypeOK, Written
<1>. QED
  BY <1>1, <1>2, KeyspaceAssumption DEF KeyspaceDoc

(* Where a row of version v goes: the rows up to version v stay in front   *)
(* of it, the others move up by one.                                       *)
LEMMA InsertFacts ==
    ASSUME TypeOK, RowsOK, Ordered, NEW k \in Keyspaces, NEW v \in Nat, NEW h \in Hash
    PROVE  \E n \in 0..Len(keyspace_docs[k]) :
             /\ \A i \in 1..Len(keyspace_docs[k]) : i <= n <=> VersionAt(k, i) <= v
             /\ Insert(k, v, h) \in Seq(Hash)
             /\ Len(Insert(k, v, h)) = Len(keyspace_docs[k]) + 1
             /\ \A i \in 1..n : Insert(k, v, h)[i] = keyspace_docs[k][i]
             /\ Insert(k, v, h)[n + 1] = h
             /\ \A i \in (n + 2)..(Len(keyspace_docs[k]) + 1) :
                   Insert(k, v, h)[i] = keyspace_docs[k][i - 1]
<1>1. PICK s : s = keyspace_docs[k]
  OBVIOUS
<1>2. /\ s \in Seq(Hash) /\ Len(s) \in Nat /\ DOMAIN s = 1..Len(s)
      /\ \A i \in 1..Len(s) : s[i] \in Stored(k)
  BY <1>1, StoredRows
<1>3. \A i \in 1..Len(s) : VersionAt(k, i) \in Nat
  BY <1>1, <1>2, StoredDocs DEF VersionAt
<1>4. PICK T : T = {i \in 1..Len(s) : VersionAt(k, i) <= v}
  OBVIOUS
<1>5. \A i, j \in 1..Len(s) : i < j /\ j \in T => i \in T
  <2>1. \A i, j \in 1..Len(s) : i < j => VersionAt(k, i) <= VersionAt(k, j)
    BY <1>1 DEF Ordered
  <2>. QED
    BY <1>3, <1>4, <2>1
<1>6. T \in SUBSET (1..Len(s))
  BY <1>4
<1>7. PICK n : n = Cardinality(T)
  OBVIOUS
<1>8. n \in 0..Len(s) /\ T = 1..n
  BY ONLY <1>2, <1>5, <1>6, <1>7, InitialSegment
<1>9. UpTo(k, v) = n
  BY <1>1, <1>2, <1>4, <1>7 DEF UpTo
<1>10. Insert(k, v, h) = InsertAt(s, n + 1, h)
  BY <1>1, <1>9 DEF Insert
<1>11. /\ InsertAt(s, n + 1, h) \in Seq(Hash)
       /\ Len(InsertAt(s, n + 1, h)) = Len(s) + 1
       /\ \A i \in 1..n : InsertAt(s, n + 1, h)[i] = s[i]
       /\ InsertAt(s, n + 1, h)[n + 1] = h
       /\ \A i \in (n + 2)..(Len(s) + 1) : InsertAt(s, n + 1, h)[i] = s[i - 1]
  <2>1. s \in Seq(Hash) /\ h \in Hash /\ n \in 0..Len(s)
    BY <1>2, <1>8
  <2>2. /\ InsertAt(s, n + 1, h) \in Seq(Hash)
        /\ Len(InsertAt(s, n + 1, h)) = Len(s) + 1
    BY ONLY <2>1, InsertAtFacts
  <2>3. \A i \in 1..n : InsertAt(s, n + 1, h)[i] = s[i]
    BY ONLY <2>1, InsertAtFacts
  <2>4. InsertAt(s, n + 1, h)[n + 1] = h
    BY ONLY <2>1, InsertAtFacts
  <2>5. \A i \in (n + 2)..(Len(s) + 1) : InsertAt(s, n + 1, h)[i] = s[i - 1]
    BY ONLY <2>1, InsertAtFacts
  <2>. QED
    BY <2>2, <2>3, <2>4, <2>5
<1>12. \A i \in 1..Len(s) : i <= n <=> VersionAt(k, i) <= v
  BY <1>4, <1>8
<1>. QED
  BY <1>1, <1>8, <1>10, <1>11, <1>12

(* Every list_by_member and every chain step is read off the invariant. *)
LEMMA CurrentStored ==
    ASSUME IInv, NEW k \in Keyspaces, keyspace_docs[k] # <<>>
    PROVE  \E i \in 1..Len(keyspace_docs[k]) :
             /\ keyspaces[k].version = VersionAt(k, i)
             /\ keyspaces[k].hash = keyspace_docs[k][i]
             /\ keyspaces[k].hash \in Stored(k)
<1>1. PICK i \in DOMAIN keyspace_docs[k] :
        keyspaces[k] = [version |-> VersionAt(k, i), hash |-> keyspace_docs[k][i]]
  BY DEF IInv, CurrentIsNewest
<1>2. i \in 1..Len(keyspace_docs[k]) /\ keyspace_docs[k][i] \in Stored(k)
  BY StoredRows DEF IInv
<1>. QED
  BY <1>1, <1>2

LEMMA ExactIndex == IInv => ListByMember
<1> SUFFICES ASSUME IInv, NEW k \in Keyspaces, NEW f \in Fps
             PROVE  LET current == /\ keyspaces[k] # NoRow
                                   /\ f \in docs[keyspaces[k].hash].body.members
                    IN /\ current => k \in list_by_member(f)
                       /\ k \in list_by_member(f) => current \/ k \in raced
  BY DEF ListByMember
<1>1. k \in list_by_member(f) <=> <<k, keyspaces[k].version, f>> \in keyspace_members
  BY DEF list_by_member
<1>2. CASE keyspace_docs[k] = <<>>
  <2>1. keyspaces[k] = NoRow
    BY <1>2 DEF IInv, CurrentIsNewest
  <2>2. <<k, keyspaces[k].version, f>> \notin keyspace_members
    <3>1. keyspaces[k].version \notin 0..MaxVersion
      BY <2>1, KeyspaceAssumption DEF NoRow
    <3>. QED
      BY <3>1 DEF IInv, TypeOK
  <2>. QED
    BY <1>1, <2>1, <2>2
<1>3. CASE keyspace_docs[k] # <<>>
  <2>1. PICK i \in 1..Len(keyspace_docs[k]) :
          /\ keyspaces[k].version = VersionAt(k, i)
          /\ keyspaces[k].hash = keyspace_docs[k][i]
          /\ keyspaces[k].hash \in Stored(k)
    BY <1>3, CurrentStored
  <2>2. keyspaces[k].version = docs[keyspaces[k].hash].version
    BY <2>1 DEF VersionAt
  <2>3. keyspaces[k].version \in 0..MaxVersion /\ keyspaces[k] # NoRow
    <3>1. docs[keyspaces[k].hash] \in KeyspaceDoc /\ keyspaces[k].hash \in Hash
      BY <2>1, StoredDocs DEF IInv
    <3>. QED
      BY <2>2, <3>1, KeyspaceAssumption DEF KeyspaceDoc, NoRow
  <2>4. <<k, keyspaces[k].version, f>> \in keyspace_members <=>
          \E h \in Stored(k) : docs[h].version = keyspaces[k].version /\ f \in docs[h].body.members
    BY <2>3 DEF IInv, MembersOK
  <2>5. k \notin raced =>
          \A h \in Stored(k) : docs[h].version = keyspaces[k].version => h = keyspaces[k].hash
    <3> SUFFICES ASSUME k \notin raced, NEW h \in Stored(k), docs[h].version = keyspaces[k].version
                 PROVE  h = keyspaces[k].hash
      OBVIOUS
    <3>1. PICK j \in 1..Len(keyspace_docs[k]) : h = keyspace_docs[k][j]
      BY StoredRows DEF IInv
    <3>2. VersionAt(k, j) = VersionAt(k, i)
      BY <2>1, <3>1 DEF VersionAt
    <3>3. j - 1 = i - 1
      BY <3>2 DEF IInv, Unraced
    <3>. QED
      BY <2>1, <3>1, <3>3
  <2>. QED
    BY <1>1, <2>1, <2>2, <2>3, <2>4, <2>5
<1>. QED
  BY <1>2, <1>3
-----------------------------------------------------------------------------
LEMMA InitIInv == Init => IInv
<1> SUFFICES ASSUME Init PROVE IInv
  OBVIOUS
<1>1. TypeOK
  BY KeyspaceAssumption DEF Init, RoutesInit, TypeOK, RoutesTypeOK, NoRow
<1>2. \A k \in Keyspaces : keyspace_docs[k] = <<>> /\ Stored(k) = {}
  <2> SUFFICES ASSUME NEW k \in Keyspaces PROVE keyspace_docs[k] = <<>> /\ Stored(k) = {}
    OBVIOUS
  <2>1. keyspace_docs[k] = <<>>
    BY DEF Init
  <2>2. 1..Len(keyspace_docs[k]) = {}
    BY <2>1
  <2>3. \A h : h \in Stored(k) <=> \E i \in 1..Len(keyspace_docs[k]) : h = keyspace_docs[k][i]
    BY <1>1, StoredRows
  <2>. QED
    BY <2>1, <2>2, <2>3
<1>3. \A r \in Requests : req[r].st # "write"
  BY DEF Init, RoutesInit, Idle
<1>4. RowsOK /\ Ordered /\ AncestryStored
  BY <1>2 DEF RowsOK, Ordered, AncestryStored
<1>5. MembersOK /\ CurrentIsNewest
  BY <1>2 DEF Init, MembersOK, CurrentIsNewest
<1>6. Writing /\ Unraced
  BY <1>2, <1>3 DEF Writing, Unraced, Writes
<1>. QED
  BY <1>1, <1>4, <1>5, <1>6 DEF IInv

(* The requests a typed state may hold. *)
ReqType == {Idle, Refused} \union
    [st : {"check", "put", "write", "created"}, op : {"create", "publish"},
     caller : Fps, hash : {h \in Hash : Written(h)}]

(* A request that is at a step of its handler. *)
LEMMA LiveRequest ==
    ASSUME TypeOK, NEW r \in Requests, req[r].st \in {"check", "put", "write"}
    PROVE  /\ req[r].hash \in Hash /\ Written(req[r].hash)
           /\ docs[req[r].hash] \in KeyspaceDoc
           /\ docs[req[r].hash].ks \in Keyspaces
           /\ \A s \in {"put", "write", "created"} : [req[r] EXCEPT !.st = s] \in ReqType
<1>1. req[r] \in [st : {"check", "put", "write", "created"}, op : {"create", "publish"},
                  caller : Fps, hash : {h \in Hash : Written(h)}]
  BY DEF TypeOK, RoutesTypeOK, Idle, Refused
<1>2. \A s \in {"put", "write", "created"} : [req[r] EXCEPT !.st = s] \in ReqType
  BY <1>1 DEF ReqType
<1>3. req[r].hash \in Hash /\ Written(req[r].hash)
  BY <1>1
<1>4. docs[req[r].hash] \in KeyspaceDoc
  BY <1>3 DEF TypeOK, RoutesTypeOK, Written
<1>. QED
  BY <1>2, <1>3, <1>4 DEF KeyspaceDoc

(* Writing a document leaves every document written before as it was. *)
LEMMA DraftStable ==
    ASSUME NEW h \in Hash, NEW d \in KeyspaceDoc, Draft(h, d),
           docs \in [Hash -> KeyspaceDoc \union {Unwritten}]
    PROVE  /\ docs' \in [Hash -> KeyspaceDoc \union {Unwritten}]
           /\ \A g \in Hash : Written(g) => docs'[g] = docs[g]
           /\ Written(h)'
<1>1. d # Unwritten
  BY KeyspaceAssumption DEF KeyspaceDoc, Unwritten
<1>. QED
  BY <1>1 DEF Draft, Written

(* As long as the tables stay and documents are only added, what the       *)
(* invariant says of the tables stays.                                     *)
LEMMA TablesKept ==
    ASSUME IInv, UNCHANGED tables,
           \A g \in Hash : Written(g) => docs'[g] = docs[g]
    PROVE  /\ RowsOK' /\ Ordered' /\ MembersOK' /\ CurrentIsNewest' /\ AncestryStored'
           /\ \A k \in Keyspaces : Stored(k)' = Stored(k)
           /\ \A k \in Keyspaces : \A i \in 1..Len(keyspace_docs[k]) :
                 VersionAt(k, i)' = VersionAt(k, i)
           /\ \A k \in Keyspaces : \A h \in Stored(k) : docs'[h] = docs[h]
<1>1. keyspace_docs' = keyspace_docs /\ keyspaces' = keyspaces
      /\ keyspace_members' = keyspace_members
  BY DEF tables
<1>2. \A k \in Keyspaces : Stored(k)' = Stored(k)
  BY <1>1 DEF Stored
<1>3. \A k \in Keyspaces : \A h \in Stored(k) : docs'[h] = docs[h] /\ Written(h)'
  BY StoredDocs DEF IInv, Written
<1>4. \A k \in Keyspaces : \A i \in 1..Len(keyspace_docs[k]) :
         VersionAt(k, i)' = VersionAt(k, i)
  <2> SUFFICES ASSUME NEW k \in Keyspaces, NEW i \in 1..Len(keyspace_docs[k])
               PROVE  VersionAt(k, i)' = VersionAt(k, i)
    OBVIOUS
  <2>1. keyspace_docs[k][i] \in Stored(k)
    BY StoredRows DEF IInv
  <2>. QED
    BY <1>1, <1>3, <2>1 DEF VersionAt
<1>5. RowsOK'
  BY <1>1, <1>2, <1>3 DEF IInv, RowsOK
<1>6. Ordered'
  BY <1>1, <1>4 DEF IInv, Ordered
<1>7. MembersOK'
  <2> SUFFICES ASSUME NEW k \in Keyspaces, NEW v \in 0..MaxVersion, NEW f \in Fps
               PROVE  <<k, v, f>> \in keyspace_members' <=>
                        \E h \in Stored(k)' : docs'[h].version = v /\ f \in docs'[h].body.members
    BY Zenon DEF MembersOK
  <2>1. <<k, v, f>> \in keyspace_members <=>
          \E h \in Stored(k) : docs[h].version = v /\ f \in docs[h].body.members
    BY DEF IInv, MembersOK
  <2>2. Stored(k)' = Stored(k) /\ \A h \in Stored(k) : docs'[h] = docs[h]
    BY <1>2, <1>3
  <2>. QED
    BY <1>1, <2>1, <2>2
<1>8. CurrentIsNewest'
  <2>1. \A k \in Keyspaces : DOMAIN keyspace_docs[k] = 1..Len(keyspace_docs[k])
    BY StoredRows DEF IInv
  <2>2. \A k \in Keyspaces : \A i \in DOMAIN keyspace_docs[k] : Newest(k, i) => Newest(k, i)'
    BY <1>1, <1>4, <2>1 DEF Newest
  <2>3. ASSUME NEW k \in Keyspaces, keyspace_docs[k] # <<>>
        PROVE  \E i \in DOMAIN keyspace_docs[k] :
                 /\ keyspaces[k] = [version |-> VersionAt(k, i)', hash |-> keyspace_docs[k][i]]
                 /\ Newest(k, i)'
    <3>1. PICK i \in DOMAIN keyspace_docs[k] :
            /\ keyspaces[k] = [version |-> VersionAt(k, i), hash |-> keyspace_docs[k][i]]
            /\ Newest(k, i)
      BY <2>3 DEF IInv, CurrentIsNewest
    <3>2. VersionAt(k, i)' = VersionAt(k, i)
      BY <1>4, <2>1
    <3>. QED
      BY <2>2, <3>1, <3>2
  <2>. QED
    BY <1>1, <2>3 DEF IInv, CurrentIsNewest
<1>9. AncestryStored'
  BY <1>2, <1>3 DEF IInv, AncestryStored
<1>. QED
  BY <1>2, <1>3, <1>4, <1>5, <1>6, <1>7, <1>8, <1>9

(* One request moves on to a state in which it is not about to write; the  *)
(* tables stay and documents are only added.                               *)
LEMMA RouteStep ==
    ASSUME IInv, NEW r \in Requests, UNCHANGED <<tables, raced>>,
           docs' \in [Hash -> KeyspaceDoc \union {Unwritten}],
           \A g \in Hash : Written(g) => docs'[g] = docs[g],
           req' = [req EXCEPT ![r] = req'[r]], req'[r] \in ReqType',
           req'[r].st # "write"
    PROVE  IInv'
<1>1. \A g \in Hash : Written(g) => Written(g)' /\ docs'[g] = docs[g]
  BY DEF Written
<1>2. TypeOK'
  <2>1. req \in [Requests -> ReqType]
    BY DEF IInv, TypeOK, RoutesTypeOK, ReqType
  <2>2. ReqType \subseteq ReqType'
    BY <1>1 DEF ReqType
  <2>3. req' \in [Requests -> ReqType']
    BY <2>1, <2>2
  <2>4. RoutesTypeOK'
    BY <2>3 DEF RoutesTypeOK, ReqType
  <2>. QED
    BY <2>4 DEF IInv, TypeOK, tables
<1>3. /\ RowsOK' /\ Ordered' /\ MembersOK' /\ CurrentIsNewest' /\ AncestryStored'
      /\ \A k \in Keyspaces : Stored(k)' = Stored(k)
      /\ \A k \in Keyspaces : \A i \in 1..Len(keyspace_docs[k]) :
            VersionAt(k, i)' = VersionAt(k, i)
      /\ \A k \in Keyspaces : \A h \in Stored(k) : docs'[h] = docs[h]
  BY TablesKept
<1>4. ASSUME NEW s \in Requests, (req[s].st = "write")'
      PROVE  /\ s # r /\ req'[s] = req[s] /\ req[s].st = "write"
             /\ req[s].hash \in Hash /\ docs[req[s].hash] \in KeyspaceDoc
             /\ docs'[req[s].hash] = docs[req[s].hash]
  <2>1. s # r
    BY <1>4
  <2>2. req'[s] = req[s] /\ req[s].st = "write"
    BY <1>4, <2>1 DEF IInv, TypeOK, RoutesTypeOK
  <2>3. req[s].hash \in Hash /\ Written(req[s].hash) /\ docs[req[s].hash] \in KeyspaceDoc
    BY <2>2, LiveRequest DEF IInv
  <2>. QED
    BY <1>1, <2>1, <2>2, <2>3
<1>5. Writing'
  <2> SUFFICES ASSUME NEW s \in Requests, (req[s].st = "write")'
               PROVE  StillFits(docs[req[s].hash])'
    BY DEF Writing
  <2>1. PICK d : d = docs[req[s].hash]
    OBVIOUS
  <2>2. d \in KeyspaceDoc /\ StillFits(d) /\ (docs[req[s].hash])' = d
    BY <1>4, <2>1 DEF IInv, Writing
  <2>3. d.ks \in Keyspaces
    BY <2>2 DEF KeyspaceDoc
  <2>4. keyspace_docs' = keyspace_docs /\ Stored(d.ks)' = Stored(d.ks)
    BY <1>3, <2>3 DEF tables
  <2>5. StillFits(d)'
    BY <1>3, <2>2, <2>3, <2>4 DEF StillFits
  <2>. QED
    BY <2>2, <2>5
<1>6. Unraced'
  <2> SUFFICES ASSUME NEW k \in Keyspaces, k \notin raced
               PROVE  /\ \A i \in 1..Len(keyspace_docs[k]) : VersionAt(k, i)' = i - 1
                      /\ \A s \in Requests : Writes(s, k)' =>
                            /\ validate_chain(keyspace_docs[k], docs'[req'[s].hash])
                            /\ \A p \in Requests : Writes(p, k)' => p = s
    BY DEF tables, Unraced
  <2>1. \A s \in Requests : Writes(s, k)' =>
           Writes(s, k) /\ docs'[req'[s].hash] = docs[req[s].hash]
    BY <1>4 DEF Writes
  <2>. QED
    BY <1>3, <2>1 DEF IInv, Unraced
<1>. QED
  BY <1>2, <1>3, <1>5, <1>6 DEF IInv

(* A request arrives. *)
LEMMA SubmitStep ==
    ASSUME IInv, NEW r \in Requests, NEW op \in {"create", "publish"},
           NEW k \in Keyspaces, NEW f \in Fps, NEW h \in Hash, NEW d \in KeyspaceDoc,
           Submit(r, op, k, f, h, d)
    PROVE  IInv'
<1>2. /\ docs' \in [Hash -> KeyspaceDoc \union {Unwritten}]
      /\ \A g \in Hash : Written(g) => docs'[g] = docs[g]
      /\ Written(h)'
  BY DraftStable DEF IInv, TypeOK, RoutesTypeOK, Submit, Arrive
<1>3. /\ req' = [req EXCEPT ![r] = req'[r]]
      /\ \/ req'[r] = Refused
         \/ req'[r] = Route("put", op, f, h)
         \/ req'[r] = Route("check", op, f, h)
  BY DEF Submit, Arrive, IInv, TypeOK, RoutesTypeOK
<1>5. \A s \in {"put", "check"} : Route(s, op, f, h) \in ReqType'
  BY <1>2 DEF ReqType, Route
<1>6. req'[r] \in ReqType' /\ req'[r].st # "write"
  BY <1>3, <1>5 DEF ReqType, Route, Refused
<1>. QED
  BY <1>2, <1>3, <1>6, RouteStep DEF Submit

(* A request moves on, but not to its transaction, and nothing else moves. *)
LEMMA MoveStep ==
    ASSUME IInv, NEW r \in Requests, UNCHANGED <<docs, tables, raced>>,
           req[r].st \in {"check", "put", "write"}, NEW s \in {"put", "created"},
           \/ req' = [req EXCEPT ![r] = Refused]
           \/ req' = [req EXCEPT ![r] = [req[r] EXCEPT !.st = s]]
    PROVE  IInv'
<1>1. [req[r] EXCEPT !.st = s] \in ReqType
  BY LiveRequest DEF IInv
<1>2. PICK q : q = [req[r] EXCEPT !.st = s]
  OBVIOUS
<1>3. q.st = s
  <2>1. req[r] \in [st : {"check", "put", "write", "created"}, op : {"create", "publish"},
                    caller : Fps, hash : {h \in Hash : Written(h)}]
    BY DEF IInv, TypeOK, RoutesTypeOK, Idle, Refused
  <2>. QED
    BY <1>2, <2>1
<1>4. /\ req' = [req EXCEPT ![r] = req'[r]]
      /\ req'[r] = Refused \/ req'[r] = q
  BY <1>2 DEF IInv, TypeOK, RoutesTypeOK
<1>5. ReqType' = ReqType
  BY DEF ReqType, Written
<1>6. req'[r] \in ReqType' /\ req'[r].st # "write"
  <2>1. Refused \in ReqType /\ Refused.st = "refused"
    BY DEF ReqType, Refused
  <2>2. q \in ReqType /\ q.st \in {"put", "created"}
    BY <1>1, <1>2, <1>3
  <2>. QED
    BY ONLY <1>4, <1>5, <2>1, <2>2
<1>. QED
  BY <1>4, <1>6, RouteStep DEF IInv, TypeOK, RoutesTypeOK

LEMMA CheckStep ==
    ASSUME IInv, NEW r \in Requests, NEW k \in Keyspaces, Check(r, k)
    PROVE  IInv'
<1>1. /\ UNCHANGED <<docs, tables, raced>> /\ req[r].st = "check"
      /\ \/ req' = [req EXCEPT ![r] = Refused]
         \/ req' = [req EXCEPT ![r] = [req[r] EXCEPT !.st = "put"]]
  BY DEF Check, CheckSigner, IInv, TypeOK, RoutesTypeOK
<1>. QED
  BY <1>1, MoveStep

(* What validate_chain accepts fits, until another put writes. *)
LEMMA AcceptedFits ==
    ASSUME IInv, NEW d \in KeyspaceDoc, validate_chain(list_versions(d.ks), d)
    PROVE  StillFits(d)
<1>1. PICK s : s = keyspace_docs[d.ks]
  OBVIOUS
<1>2. d.ks \in Keyspaces /\ d.version \in Nat
  BY KeyspaceAssumption DEF KeyspaceDoc
<1>3. /\ s \in Seq(Hash) /\ Len(s) \in Nat
      /\ \A i \in 1..Len(s) : s[i] \in Stored(d.ks)
  BY <1>1, <1>2, StoredRows DEF IInv
<1>4. CASE d.version = 0
  BY <1>4 DEF validate_chain, StillFits
<1>5. CASE d.version # 0
  <2>1. s # <<>> /\ d.version = Len(s) /\ d.parent = s[Len(s)]
    BY <1>1, <1>5 DEF validate_chain, list_versions
  <2>2. Len(s) \in 1..Len(s)
    BY <1>3, <2>1
  <2>3. d.parent \in Stored(d.ks)
    BY <1>3, <2>1, <2>2
  <2>4. docs[d.parent].version < d.version
    BY <1>1, <1>2, <2>1, <2>3 DEF IInv, RowsOK
  <2>. QED
    BY <1>1, <2>1, <2>2, <2>3, <2>4 DEF StillFits
<1>. QED
  BY <1>4, <1>5

(* The first database call of put. *)
LEMMA ReadStep ==
    ASSUME IInv, NEW r \in Requests, ReadVersions(r)
    PROVE  IInv'
<1>1. PICK h : h = req[r].hash
  OBVIOUS
<1>2. PICK d : d = docs[h]
  OBVIOUS
<1>3. PICK k : k = d.ks
  OBVIOUS
<1>4. /\ h \in Hash /\ Written(h) /\ d \in KeyspaceDoc /\ k \in Keyspaces
      /\ [req[r] EXCEPT !.st = "write"] \in ReqType
      /\ req[r].st = "put"
  BY <1>1, <1>2, <1>3, LiveRequest DEF IInv, ReadVersions
<1>5. CASE ~ validate_chain(list_versions(k), d)
  <2>1. req' = [req EXCEPT ![r] = Refused] /\ UNCHANGED <<docs, tables, raced>>
    BY <1>1, <1>2, <1>3, <1>5 DEF ReadVersions
  <2>. QED
    BY <1>4, <2>1, MoveStep
<1>6. CASE validate_chain(list_versions(k), d)
  <2>1. PICK q : q = [req[r] EXCEPT !.st = "write"]
    OBVIOUS
  <2>2. q \in ReqType /\ q.st = "write" /\ q.hash = h
    <3>1. req[r] \in [st : {"check", "put", "write", "created"}, op : {"create", "publish"},
                      caller : Fps, hash : {g \in Hash : Written(g)}]
      BY <1>4 DEF IInv, TypeOK, RoutesTypeOK, Idle, Refused
    <3>. QED
      BY <1>1, <1>4, <2>1, <3>1
  <2>3. /\ req' = [req EXCEPT ![r] = q]
        /\ raced' = raced \union (IF Overlaps(r, k) THEN {k} ELSE {})
        /\ UNCHANGED <<docs, tables>>
    BY <1>1, <1>2, <1>3, <1>6, <2>1 DEF ReadVersions
  <2>4. req'[r] = q /\ \A s \in Requests : s # r => req'[s] = req[s]
    BY <2>3 DEF IInv, TypeOK, RoutesTypeOK
  <2>5. TypeOK'
    <3>1. req' \in [Requests -> ReqType]
      BY <2>2, <2>3 DEF IInv, TypeOK, RoutesTypeOK, ReqType
    <3>2. RoutesTypeOK'
      BY <2>3, <3>1 DEF IInv, TypeOK, RoutesTypeOK, ReqType, Written
    <3>. QED
      BY <1>4, <2>3, <3>2 DEF IInv, TypeOK, tables
  <2>6. /\ RowsOK' /\ Ordered' /\ MembersOK' /\ CurrentIsNewest' /\ AncestryStored'
        /\ \A g \in Keyspaces : \A i \in 1..Len(keyspace_docs[g]) :
              VersionAt(g, i)' = VersionAt(g, i)
    BY <2>3, TablesKept
  <2>7. Writing'
    <3>1. \A e \in KeyspaceDoc : StillFits(e)' <=> StillFits(e)
      BY <2>3 DEF StillFits, Stored, tables
    <3>2. StillFits(d)
      BY <1>3, <1>4, <1>6, AcceptedFits
    <3>3. \A s \in Requests : req[s].st = "write" => docs[req[s].hash] \in KeyspaceDoc
      BY LiveRequest DEF IInv
    <3>. QED
      BY <1>2, <1>4, <2>2, <2>3, <2>4, <3>1, <3>2, <3>3 DEF IInv, Writing
  <2>8. Unraced'
    <3> SUFFICES ASSUME NEW g \in Keyspaces, g \notin raced'
                 PROVE  /\ \A i \in 1..Len(keyspace_docs[g]) : VersionAt(g, i)' = i - 1
                        /\ \A s \in Requests : Writes(s, g)' =>
                              /\ validate_chain(keyspace_docs[g], docs[req'[s].hash])
                              /\ \A p \in Requests : Writes(p, g)' => p = s
      BY <2>3 DEF tables, Unraced
    <3>1. g \notin raced /\ (g = k => ~ Overlaps(r, k))
      BY <2>3
    <3>2. \A s \in Requests : s # r => (Writes(s, g)' <=> Writes(s, g))
      BY <2>3, <2>4 DEF Writes
    <3>3. Writes(r, g)' => g = k
      BY <1>2, <1>3, <2>2, <2>3, <2>4 DEF Writes
    <3>4. CASE g # k
      BY <2>4, <2>6, <3>1, <3>2, <3>3, <3>4 DEF IInv, Unraced
    <3>5. CASE g = k
      <4>1. \A s \in Requests : Writes(s, g)' => s = r
        BY <3>1, <3>2, <3>5 DEF Overlaps, Writes
      <4>2. validate_chain(keyspace_docs[g], docs[req'[r].hash])
        BY <1>2, <1>6, <2>2, <2>4, <3>5 DEF list_versions
      <4>. QED
        BY <2>6, <3>1, <4>1, <4>2 DEF IInv, Unraced
    <3>. QED
      BY <3>4, <3>5
  <2>. QED
    BY <2>5, <2>6, <2>7, <2>8 DEF IInv
<1>. QED
  BY <1>5, <1>6
-----------------------------------------------------------------------------
(* The transaction of put writes document h: the three tables move to it.  *)
Inserts(r, h, k) ==
    /\ req[r].st = "write" /\ h = req[r].hash /\ k = docs[h].ks
    /\ h \notin AllStored
    /\ WriteTx(r)

(* Where the rows of the keyspace are after it. *)
Moved(h, k, n) ==
    /\ n \in 0..Len(keyspace_docs[k])
    /\ \A i \in 1..Len(keyspace_docs[k]) : i <= n <=> VersionAt(k, i) <= docs[h].version
    /\ keyspace_docs'[k] \in Seq(Hash)
    /\ Len(keyspace_docs'[k]) = Len(keyspace_docs[k]) + 1
    /\ \A i \in 1..n : keyspace_docs'[k][i] = keyspace_docs[k][i]
    /\ keyspace_docs'[k][n + 1] = h
    /\ \A i \in (n + 2)..(Len(keyspace_docs[k]) + 1) :
          keyspace_docs'[k][i] = keyspace_docs[k][i - 1]

LEMMA InsertsFacts ==
    ASSUME IInv, NEW r \in Requests, NEW h, NEW k, Inserts(r, h, k)
    PROVE  /\ h \in Hash /\ Written(h) /\ docs[h] \in KeyspaceDoc /\ k \in Keyspaces
           /\ docs[h].version \in 0..MaxVersion /\ docs[h].body.members \subseteq Fps
           /\ StillFits(docs[h])
           /\ UNCHANGED <<docs, raced>>
           /\ req' = [req EXCEPT ![r] = [req[r] EXCEPT !.st = "created"]]
           /\ keyspaces' = [keyspaces EXCEPT ![k] = Upsert(k, docs[h].version, h)]
           /\ keyspace_docs' = [keyspace_docs EXCEPT ![k] = Insert(k, docs[h].version, h)]
           /\ keyspace_members' = keyspace_members \union
                 {<<k, docs[h].version, f>> : f \in docs[h].body.members}
<1>1. /\ h \in Hash /\ Written(h) /\ docs[h] \in KeyspaceDoc /\ k \in Keyspaces
  BY LiveRequest DEF IInv, Inserts
<1>2. docs[h].version \in 0..MaxVersion /\ docs[h].body.members \subseteq Fps
  BY <1>1, KeyspaceAssumption DEF KeyspaceDoc
<1>3. StillFits(docs[h])
  BY DEF Inserts, IInv, Writing
<1>4. /\ UNCHANGED <<docs, raced>>
      /\ req' = [req EXCEPT ![r] = [req[r] EXCEPT !.st = "created"]]
  BY DEF Inserts, WriteTx, Answer
<1>5. /\ keyspaces' = [keyspaces EXCEPT ![k] = Upsert(k, docs[h].version, h)]
      /\ keyspace_docs' = [keyspace_docs EXCEPT ![k] = Insert(k, docs[h].version, h)]
      /\ keyspace_members' = keyspace_members \union
            {<<k, docs[h].version, f>> : f \in docs[h].body.members}
  BY DEF Inserts, WriteTx
<1>. QED
  BY <1>1, <1>2, <1>3, <1>4, <1>5

LEMMA RowsMoved ==
    ASSUME IInv, NEW r \in Requests, NEW h, NEW k, Inserts(r, h, k)
    PROVE  /\ \E n : Moved(h, k, n)
           /\ \A g \in Keyspaces : g # k => keyspace_docs'[g] = keyspace_docs[g]
           /\ keyspace_docs' \in [Keyspaces -> Seq(Hash)]
<1>1. PICK s : s = Insert(k, docs[h].version, h)
  OBVIOUS
<1>2. /\ h \in Hash /\ k \in Keyspaces /\ docs[h].version \in Nat
      /\ keyspace_docs' = [keyspace_docs EXCEPT ![k] = s]
  BY <1>1, InsertsFacts, KeyspaceAssumption
<1>3. keyspace_docs \in [Keyspaces -> Seq(Hash)]
  BY DEF IInv, TypeOK
<1>4. keyspace_docs'[k] = s /\ \A g \in Keyspaces : g # k => keyspace_docs'[g] = keyspace_docs[g]
  BY <1>2, <1>3
<1>5. PICK n \in 0..Len(keyspace_docs[k]) :
        /\ \A i \in 1..Len(keyspace_docs[k]) : i <= n <=> VersionAt(k, i) <= docs[h].version
        /\ s \in Seq(Hash)
        /\ Len(s) = Len(keyspace_docs[k]) + 1
        /\ \A i \in 1..n : s[i] = keyspace_docs[k][i]
        /\ s[n + 1] = h
        /\ \A i \in (n + 2)..(Len(keyspace_docs[k]) + 1) : s[i] = keyspace_docs[k][i - 1]
  BY <1>1, <1>2, InsertFacts DEF IInv
<1>6. Moved(h, k, n)
  BY <1>4, <1>5 DEF Moved
<1>7. keyspace_docs' \in [Keyspaces -> Seq(Hash)]
  BY <1>2, <1>3, <1>5
<1>. QED
  BY <1>4, <1>6, <1>7

(* What is stored afterwards: one document more. *)
LEMMA StoredMoved ==
    ASSUME IInv, NEW r \in Requests, NEW h, NEW k, Inserts(r, h, k)
    PROVE  /\ Stored(k)' = Stored(k) \union {h}
           /\ \A g \in Keyspaces : g # k => Stored(g)' = Stored(g)
<1>1. /\ \A g \in Keyspaces : g # k => keyspace_docs'[g] = keyspace_docs[g]
      /\ k \in Keyspaces /\ h \in Hash
  BY RowsMoved, InsertsFacts
<1>2. PICK n : Moved(h, k, n)
  BY RowsMoved
<1>3. PICK s : s = keyspace_docs[k]
  OBVIOUS
<1>4. PICK t : t = keyspace_docs'[k]
  OBVIOUS
<1>5. /\ n \in 0..Len(s) /\ Len(s) \in Nat /\ t \in Seq(Hash) /\ Len(t) = Len(s) + 1
      /\ \A i \in 1..n : t[i] = s[i]
      /\ t[n + 1] = h
      /\ \A i \in (n + 2)..(Len(s) + 1) : t[i] = s[i - 1]
  BY <1>1, <1>2, <1>3, <1>4, StoredRows DEF Moved, IInv
<1>6. \A g : g \in Stored(k) <=> \E i \in 1..Len(s) : g = s[i]
  BY <1>1, <1>3, StoredRows DEF IInv
<1>7. \A g : g \in Stored(k)' <=> \E i \in 1..Len(t) : g = t[i]
  <2>1. DOMAIN t = 1..Len(t)
    BY <1>5
  <2>. QED
    BY <1>4, <2>1 DEF Stored, Range
<1>8. \A i \in 1..Len(t) : t[i] = h \/ \E j \in 1..Len(s) : t[i] = s[j]
  <2> SUFFICES ASSUME NEW i \in 1..Len(t) PROVE t[i] = h \/ \E j \in 1..Len(s) : t[i] = s[j]
    OBVIOUS
  <2>1. CASE i <= n
    BY <1>5, <2>1
  <2>2. CASE i = n + 1
    BY <1>5, <2>2
  <2>3. CASE i > n + 1
    <3>1. i \in (n + 2)..(Len(s) + 1) /\ i - 1 \in 1..Len(s)
      BY <1>5, <2>3
    <3>. QED
      BY <1>5, <3>1
  <2>. QED
    BY <1>5, <2>1, <2>2, <2>3
<1>9. \A i \in 1..Len(s) : \E j \in 1..Len(t) : t[j] = s[i]
  <2> SUFFICES ASSUME NEW i \in 1..Len(s) PROVE \E j \in 1..Len(t) : t[j] = s[i]
    OBVIOUS
  <2>1. CASE i <= n
    <3>1. i \in 1..n /\ i \in 1..Len(t)
      BY <1>5, <2>1
    <3>. QED
      BY <1>5, <3>1
  <2>2. CASE i > n
    <3>1. i + 1 \in (n + 2)..(Len(s) + 1) /\ i + 1 \in 1..Len(t) /\ (i + 1) - 1 = i
      BY <1>5, <2>2
    <3>2. t[i + 1] = s[i]
      BY <1>5, <3>1
    <3>. QED
      BY <3>1, <3>2
  <2>. QED
    BY <1>5, <2>1, <2>2
<1>10. n + 1 \in 1..Len(t)
  BY <1>5
<1>11. \A g : g \in Stored(k)' <=> g \in Stored(k) \/ g = h
  BY <1>5, <1>6, <1>7, <1>8, <1>9, <1>10
<1>12. \A g \in Keyspaces : g # k => Stored(g)' = Stored(g)
  BY <1>1 DEF Stored
<1>. QED
  BY <1>11, <1>12

(* The versions in the index, before and after. *)
LEMMA VersionsMoved ==
    ASSUME IInv, NEW r \in Requests, NEW h, NEW k, Inserts(r, h, k),
           NEW n, Moved(h, k, n)
    PROVE  /\ Len(keyspace_docs[k]) \in Nat /\ n \in 0..Len(keyspace_docs[k])
           /\ \A i \in 1..Len(keyspace_docs[k]) :
                 VersionAt(k, i) \in Nat /\ (i <= n <=> VersionAt(k, i) <= docs[h].version)
           /\ \A i \in 1..n : VersionAt(k, i)' = VersionAt(k, i)
           /\ VersionAt(k, n + 1)' = docs[h].version
           /\ \A i \in (n + 2)..(Len(keyspace_docs[k]) + 1) :
                 VersionAt(k, i)' = VersionAt(k, i - 1)
           /\ DOMAIN keyspace_docs'[k] = 1..(Len(keyspace_docs[k]) + 1)
           /\ \A g \in Keyspaces : g # k =>
                 \A i \in 1..Len(keyspace_docs[g]) : VersionAt(g, i)' = VersionAt(g, i)
<1>1. docs' = docs /\ k \in Keyspaces
  BY InsertsFacts
<1>2. Len(keyspace_docs[k]) \in Nat /\ n \in 0..Len(keyspace_docs[k])
  BY <1>1, StoredRows DEF IInv, Moved
<1>3. \A i \in 1..Len(keyspace_docs[k]) : VersionAt(k, i) \in Nat
  BY <1>1, StoredRows, StoredDocs DEF IInv, VersionAt
<1>4. \A i \in 1..n : VersionAt(k, i)' = VersionAt(k, i)
  BY <1>1 DEF Moved, VersionAt
<1>5. VersionAt(k, n + 1)' = docs[h].version
  BY <1>1 DEF Moved, VersionAt
<1>6. \A i \in (n + 2)..(Len(keyspace_docs[k]) + 1) : VersionAt(k, i)' = VersionAt(k, i - 1)
  BY <1>1 DEF Moved, VersionAt
<1>7. DOMAIN keyspace_docs'[k] = 1..(Len(keyspace_docs[k]) + 1)
  BY DEF Moved
<1>8. \A g \in Keyspaces : g # k =>
         \A i \in 1..Len(keyspace_docs[g]) : VersionAt(g, i)' = VersionAt(g, i)
  BY <1>1, RowsMoved DEF VersionAt
<1>9. \A i \in 1..Len(keyspace_docs[k]) : i <= n <=> VersionAt(k, i) <= docs[h].version
  BY DEF Moved
<1>. QED
  BY <1>2, <1>3, <1>4, <1>5, <1>6, <1>7, <1>8, <1>9

LEMMA InsertsTypes ==
    ASSUME IInv, NEW r \in Requests, NEW h, NEW k, Inserts(r, h, k)
    PROVE  TypeOK'
<1>1. [req[r] EXCEPT !.st = "created"] \in ReqType
  BY LiveRequest DEF IInv, Inserts
<1>2. req' = [req EXCEPT ![r] = [req[r] EXCEPT !.st = "created"]] /\ UNCHANGED <<docs, raced>>
  BY InsertsFacts
<1>3. RoutesTypeOK'
  <2>1. req' \in [Requests -> ReqType]
    BY <1>1, <1>2 DEF IInv, TypeOK, RoutesTypeOK, ReqType
  <2>. QED
    BY <1>2, <2>1 DEF IInv, TypeOK, RoutesTypeOK, ReqType, Written
<1>4. keyspaces' \in [Keyspaces -> [version : -1..MaxVersion, hash : Hash \union {NoHash}]]
  <2>1. [version |-> docs[h].version, hash |-> h]
           \in [version : -1..MaxVersion, hash : Hash \union {NoHash}]
    BY InsertsFacts, KeyspaceAssumption
  <2>2. Upsert(k, docs[h].version, h) \in [version : -1..MaxVersion, hash : Hash \union {NoHash}]
    BY <2>1, InsertsFacts DEF Upsert, IInv, TypeOK
  <2>3. keyspaces' = [keyspaces EXCEPT ![k] = Upsert(k, docs[h].version, h)]
    BY InsertsFacts
  <2>. QED
    BY <2>2, <2>3 DEF IInv, TypeOK
<1>5. keyspace_members' \subseteq Keyspaces \X (0..MaxVersion) \X Fps
  <2>1. keyspace_members \subseteq Keyspaces \X (0..MaxVersion) \X Fps
    BY DEF IInv, TypeOK
  <2>2. \A f \in docs[h].body.members :
          <<k, docs[h].version, f>> \in Keyspaces \X (0..MaxVersion) \X Fps
    BY InsertsFacts
  <2>3. keyspace_members' = keyspace_members \union
          {<<k, docs[h].version, f>> : f \in docs[h].body.members}
    BY InsertsFacts
  <2>. QED
    BY <2>1, <2>2, <2>3
<1>. QED
  BY <1>2, <1>3, <1>4, <1>5, RowsMoved DEF IInv, TypeOK

LEMMA InsertsRows ==
    ASSUME IInv, NEW r \in Requests, NEW h, NEW k, Inserts(r, h, k)
    PROVE  RowsOK' /\ Ordered' /\ MembersOK' /\ AncestryStored'
<1>1. /\ docs' = docs /\ h \in Hash /\ Written(h) /\ k \in Keyspaces
      /\ docs[h].ks = k /\ docs[h].version \in Nat /\ StillFits(docs[h])
  BY InsertsFacts, KeyspaceAssumption DEF Inserts
<1>2. /\ Stored(k)' = Stored(k) \union {h}
      /\ \A g \in Keyspaces : g # k => Stored(g)' = Stored(g)
  BY StoredMoved
<1>3. PICK n : Moved(h, k, n)
  BY RowsMoved
<1>4. PICK L : L = Len(keyspace_docs[k])
  OBVIOUS
<1>5. /\ L \in Nat /\ Len(keyspace_docs'[k]) = L + 1
      /\ \A g \in Keyspaces : g # k => keyspace_docs'[g] = keyspace_docs[g]
  BY <1>3, <1>4, RowsMoved, VersionsMoved DEF Moved
<1>6. docs[h].version <= L
  BY <1>1, <1>4, <1>5 DEF StillFits
<1>7. RowsOK'
  <2> SUFFICES ASSUME NEW g \in Keyspaces, NEW x \in Stored(g)'
               PROVE  /\ Written(x)' /\ docs[x].ks = g
                      /\ docs[x].version < Len(keyspace_docs'[g])
    BY <1>1 DEF RowsOK
  <2>1. \A y \in Hash : Written(y) => Written(y)'
    BY <1>1 DEF Written
  <2>2. CASE g = k /\ x = h
    BY <1>1, <1>5, <1>6, <2>1, <2>2
  <2>3. CASE x \in Stored(g)
    <3>1. /\ x \in Hash /\ Written(x) /\ docs[x].ks = g /\ docs[x].version \in Nat
          /\ docs[x].version < Len(keyspace_docs[g])
      BY <2>3, StoredDocs DEF IInv, RowsOK
    <3>. QED
      BY <1>4, <1>5, <2>1, <3>1
  <2>. QED
    BY <1>2, <2>2, <2>3
<1>8. Ordered'
  <2> SUFFICES ASSUME NEW g \in Keyspaces, NEW i \in 1..Len(keyspace_docs'[g]),
                      NEW j \in 1..Len(keyspace_docs'[g]), i < j
               PROVE  VersionAt(g, i)' <= VersionAt(g, j)'
    BY DEF Ordered
  <2>1. CASE g # k
    BY <1>3, <1>5, <2>1, VersionsMoved DEF IInv, Ordered
  <2>2. CASE g = k
    <3>1. \A p, q \in 1..L : p < q => VersionAt(k, p) <= VersionAt(k, q)
      BY <1>1, <1>4 DEF IInv, Ordered
    <3>2. /\ n \in 0..L
          /\ \A p \in 1..L : /\ VersionAt(k, p) \in Nat
                             /\ p <= n <=> VersionAt(k, p) <= docs[h].version
          /\ \A p \in 1..n : VersionAt(k, p)' = VersionAt(k, p)
          /\ VersionAt(k, n + 1)' = docs[h].version
          /\ \A p \in (n + 2)..(L + 1) : VersionAt(k, p)' = VersionAt(k, p - 1)
      BY <1>3, <1>4, VersionsMoved
    <3>3. i \in 1..(L + 1) /\ j \in 1..(L + 1)
      BY <1>5, <2>2
    <3>4. CASE j <= n
      BY <1>5, <2>2, <3>1, <3>2, <3>3, <3>4
    <3>5. CASE i <= n /\ j = n + 1
      BY <1>5, <2>2, <3>2, <3>3, <3>5
    <3>6. CASE i <= n /\ j > n + 1
      BY <1>5, <2>2, <3>1, <3>2, <3>3, <3>6
    <3>7. CASE i = n + 1
      <4>1. j \in (n + 2)..(L + 1) /\ j - 1 \in 1..L /\ ~ (j - 1 <= n)
        BY <1>5, <3>2, <3>3, <3>7
      <4>2. docs[h].version < VersionAt(k, j - 1)
        BY <1>1, <3>2, <4>1
      <4>. QED
        BY <1>1, <2>2, <3>2, <3>7, <4>1, <4>2
    <3>8. CASE i > n + 1
      BY <1>5, <2>2, <3>1, <3>2, <3>3, <3>8
    <3>. QED
      BY <1>5, <3>2, <3>3, <3>4, <3>5, <3>6, <3>7, <3>8
  <2>. QED
    BY <2>1, <2>2
<1>9. MembersOK'
  <2> SUFFICES ASSUME NEW g \in Keyspaces, NEW v \in 0..MaxVersion, NEW f \in Fps
               PROVE  <<g, v, f>> \in keyspace_members' <=>
                        \E x \in Stored(g)' : docs'[x].version = v /\ f \in docs'[x].body.members
    BY Zenon DEF MembersOK
  <2>1. <<g, v, f>> \in keyspace_members <=>
          \E x \in Stored(g) : docs[x].version = v /\ f \in docs[x].body.members
    BY DEF IInv, MembersOK
  <2>2. <<g, v, f>> \in keyspace_members' <=>
           \/ <<g, v, f>> \in keyspace_members
           \/ g = k /\ v = docs[h].version /\ f \in docs[h].body.members
    BY InsertsFacts
  <2>. QED
    BY <1>1, <1>2, <2>1, <2>2
<1>10. AncestryStored'
  <2> SUFFICES ASSUME NEW g \in Keyspaces, NEW x \in Stored(g)'
               PROVE  IF docs[x].version = 0 THEN docs[x].parent = NoHash
                      ELSE /\ docs[x].parent \in Stored(g)'
                           /\ docs[docs[x].parent].version < docs[x].version
    BY <1>1 DEF AncestryStored
  <2>1. CASE x \in Stored(g)
    BY <1>2, <2>1 DEF IInv, AncestryStored
  <2>2. CASE g = k /\ x = h
    BY <1>1, <1>2, <2>2 DEF StillFits
  <2>. QED
    BY <1>2, <2>1, <2>2
<1>. QED
  BY <1>7, <1>8, <1>9, <1>10

(* The upsert follows the index: it takes the row over exactly when the    *)
(* new version is higher than all before.                                  *)
LEMMA InsertsNewest ==
    ASSUME IInv, NEW r \in Requests, NEW h, NEW k, Inserts(r, h, k)
    PROVE  CurrentIsNewest'
<1> SUFFICES ASSUME NEW g \in Keyspaces
             PROVE  IF keyspace_docs'[g] = <<>> THEN keyspaces'[g] = NoRow
                    ELSE \E i \in DOMAIN keyspace_docs'[g] :
                       /\ keyspaces'[g] = [version |-> VersionAt(g, i)', hash |-> keyspace_docs'[g][i]]
                       /\ Newest(g, i)'
  BY DEF CurrentIsNewest
<1>1. /\ k \in Keyspaces /\ h \in Hash /\ docs' = docs /\ docs[h].version \in Nat
      /\ keyspaces' = [keyspaces EXCEPT ![k] = Upsert(k, docs[h].version, h)]
  BY InsertsFacts, KeyspaceAssumption
<1>2. PICK n : Moved(h, k, n)
  BY RowsMoved
<1>3. CASE g # k
  <2>1. keyspace_docs'[g] = keyspace_docs[g] /\ keyspaces'[g] = keyspaces[g]
    BY <1>1, <1>3, RowsMoved DEF IInv, TypeOK
  <2>2. \A i \in DOMAIN keyspace_docs[g] : VersionAt(g, i)' = VersionAt(g, i)
    BY <1>2, <1>3, VersionsMoved, StoredRows DEF IInv
  <2>3. CASE keyspace_docs[g] = <<>>
    BY <2>1, <2>3 DEF IInv, CurrentIsNewest
  <2>4. CASE keyspace_docs[g] # <<>>
    <3>1. PICK i \in DOMAIN keyspace_docs[g] :
            /\ keyspaces[g] = [version |-> VersionAt(g, i), hash |-> keyspace_docs[g][i]]
            /\ Newest(g, i)
      BY <2>4 DEF IInv, CurrentIsNewest
    <3>2. Newest(g, i)'
      BY <2>1, <2>2, <3>1 DEF Newest
    <3>. QED
      BY <2>1, <2>2, <2>4, <3>1, <3>2
  <2>. QED
    BY <2>3, <2>4
<1>4. CASE g = k
  <2>1. PICK L : L = Len(keyspace_docs[k])
    OBVIOUS
  <2>2. PICK v : v = docs[h].version
    OBVIOUS
  <2>3. /\ v \in Nat /\ L \in Nat /\ n \in 0..L
        /\ \A i \in 1..L : VersionAt(k, i) \in Nat /\ (i <= n <=> VersionAt(k, i) <= v)
        /\ \A i \in 1..n : VersionAt(k, i)' = VersionAt(k, i)
        /\ VersionAt(k, n + 1)' = v
        /\ \A i \in (n + 2)..(L + 1) : VersionAt(k, i)' = VersionAt(k, i - 1)
        /\ DOMAIN keyspace_docs'[k] = 1..(L + 1) /\ DOMAIN keyspace_docs[k] = 1..L
    BY <1>1, <1>2, <2>1, <2>2, VersionsMoved, StoredRows DEF IInv
  <2>4. /\ \A i \in 1..n : keyspace_docs'[k][i] = keyspace_docs[k][i]
        /\ keyspace_docs'[k][n + 1] = h
        /\ \A i \in (n + 2)..(L + 1) : keyspace_docs'[k][i] = keyspace_docs[k][i - 1]
        /\ keyspace_docs'[k] # <<>>
    BY SMTT(30), <1>2, <2>1, <2>3 DEF Moved
  <2>5. keyspaces'[k] = IF v > keyspaces[k].version THEN [version |-> v, hash |-> h] ELSE keyspaces[k]
    BY <1>1, <2>2 DEF Upsert, IInv, TypeOK
  <2>6. ASSUME v > keyspaces[k].version, n = L, \A i \in 1..L : VersionAt(k, i) < v
        PROVE  \E i \in DOMAIN keyspace_docs'[k] :
                 /\ keyspaces'[k] = [version |-> VersionAt(k, i)', hash |-> keyspace_docs'[k][i]]
                 /\ Newest(k, i)'
    <3>1. n + 1 \in DOMAIN keyspace_docs'[k]
      BY <2>3, <2>6
    <3>2. keyspaces'[k] = [version |-> VersionAt(k, n + 1)', hash |-> keyspace_docs'[k][n + 1]]
      BY <2>3, <2>4, <2>5, <2>6
    <3>3. \A j \in 1..(L + 1) : /\ VersionAt(k, j)' <= v
                                /\ j < n + 1 => VersionAt(k, j)' < v
      <4> SUFFICES ASSUME NEW j \in 1..(L + 1)
                   PROVE  VersionAt(k, j)' <= v /\ (j < n + 1 => VersionAt(k, j)' < v)
        OBVIOUS
      <4>1. CASE j = n + 1
        BY <2>3, <4>1
      <4>2. CASE j < n + 1
        <5>1. j \in 1..n /\ j \in 1..L
          BY <2>3, <2>6, <4>2
        <5>2. VersionAt(k, j)' = VersionAt(k, j) /\ VersionAt(k, j) < v /\ VersionAt(k, j) \in Nat
          BY <2>3, <2>6, <5>1
        <5>. QED
          BY <2>3, <5>2
      <4>. QED
        BY <2>3, <2>6, <4>1, <4>2
    <3>4. Newest(k, n + 1)'
      BY <2>3, <3>3 DEF Newest
    <3>. QED
      BY <3>1, <3>2, <3>4
  <2>7. CASE keyspace_docs[k] = <<>>
    <3>1. L = 0 /\ n = 0
      BY <2>1, <2>3, <2>7
    <3>2. keyspaces[k].version = -1
      BY <2>7, <1>1 DEF IInv, CurrentIsNewest, NoRow
    <3>3. v > keyspaces[k].version /\ n = L /\ \A i \in 1..L : VersionAt(k, i) < v
      BY <2>3, <3>1, <3>2
    <3>. QED
      BY <1>4, <2>4, <2>6, <3>3
  <2>8. CASE keyspace_docs[k] # <<>>
    <3>1. PICK i \in 1..L :
            /\ keyspaces[k] = [version |-> VersionAt(k, i), hash |-> keyspace_docs[k][i]]
            /\ Newest(k, i)
      BY <1>1, <2>3, <2>8 DEF IInv, CurrentIsNewest
    <3>2. keyspaces[k].version = VersionAt(k, i) /\ VersionAt(k, i) \in Nat
      BY <2>3, <3>1
    <3>3. \A j \in 1..L : /\ VersionAt(k, j) <= VersionAt(k, i)
                          /\ j < i => VersionAt(k, j) < VersionAt(k, i)
      BY <2>3, <3>1 DEF Newest
    <3>4. CASE v > VersionAt(k, i)
      <4>1. \A j \in 1..L : VersionAt(k, j) < v
        BY <2>3, <3>2, <3>3, <3>4
      <4>2. n = L
        <5>1. L = 0 \/ L \in 1..L
          BY <2>3
        <5>2. L \in 1..L => VersionAt(k, L) <= v
          BY <2>3, <4>1
        <5>. QED
          BY <2>3, <5>1, <5>2
      <4>. QED
        BY <1>4, <2>4, <2>6, <3>2, <3>4, <4>1, <4>2
    <3>5. CASE ~ (v > VersionAt(k, i))
      <4>1. keyspaces'[k] = keyspaces[k] /\ v <= VersionAt(k, i)
        BY <2>3, <2>5, <3>2, <3>5
      <4>2. PICK m : m = IF i <= n THEN i ELSE i + 1
        OBVIOUS
      <4>3. m \in 1..(L + 1) /\ (m <= n \/ m >= n + 2) /\ (m <= n => m = i) /\ (m >= n + 2 => m - 1 = i)
        <5>1. L \in Nat /\ n \in 0..L /\ i \in 1..L
          BY <2>3
        <5>2. CASE i <= n
          BY ONLY <4>2, <5>1, <5>2
        <5>3. CASE ~ (i <= n)
          BY ONLY <4>2, <5>1, <5>3
        <5>. QED
          BY <5>2, <5>3
      <4>4. VersionAt(k, m)' = VersionAt(k, i) /\ keyspace_docs'[k][m] = keyspace_docs[k][i]
        <5>1. CASE m <= n
          BY <2>3, <2>4, <4>3, <5>1
        <5>2. CASE m >= n + 2
          <6>1. m \in (n + 2)..(L + 1) /\ m - 1 = i
            BY <2>3, <4>3, <5>2
          <6>. QED
            BY <2>3, <2>4, <6>1
        <5>. QED
          BY <4>3, <5>1, <5>2
      <4>5. ASSUME NEW j \in 1..(L + 1)
            PROVE  /\ VersionAt(k, j)' <= VersionAt(k, i)
                   /\ j < m => VersionAt(k, j)' < VersionAt(k, i)
        <5>1. CASE j <= n
          <6>1. j \in 1..n /\ j \in 1..L /\ (j < m => j < i \/ i > n)
            BY <2>3, <4>3, <5>1
          <6>2. i > n => v < VersionAt(k, i)
            BY <2>3, <3>1
          <6>. QED
            BY <2>3, <3>3, <5>1, <6>1, <6>2
        <5>2. CASE j = n + 1
          <6>1. j < m => i > n
            BY <2>3, <4>3, <5>2
          <6>2. i > n => v < VersionAt(k, i)
            BY <2>3, <3>1
          <6>. QED
            BY <2>3, <4>1, <5>2, <6>1, <6>2
        <5>3. CASE j > n + 1
          <6>1. /\ j \in (n + 2)..(L + 1) /\ j - 1 \in 1..L
                /\ j < m => j - 1 < i
            BY <2>3, <4>3, <5>3
          <6>. QED
            BY <2>3, <3>3, <6>1
        <5>. QED
          BY <2>3, <5>1, <5>2, <5>3
      <4>6. Newest(k, m)'
        BY <2>3, <4>4, <4>5 DEF Newest
      <4>. QED
        BY <1>4, <2>3, <2>4, <3>1, <4>1, <4>3, <4>4, <4>6
    <3>. QED
      BY <3>4, <3>5
  <2>. QED
    BY <2>7, <2>8
<1>. QED
  BY <1>3, <1>4

(* What the other puts of the keyspace have validated still fits; where    *)
(* there was no other, the document went to the end.                       *)
LEMMA InsertsWriters ==
    ASSUME IInv, NEW r \in Requests, NEW h, NEW k, Inserts(r, h, k)
    PROVE  Writing' /\ Unraced'
<1>1. PICK q : q = [req[r] EXCEPT !.st = "created"]
  OBVIOUS
<1>2. /\ k \in Keyspaces /\ h \in Hash /\ UNCHANGED <<docs, raced>>
      /\ docs[h] \in KeyspaceDoc /\ docs[h].version \in Nat
      /\ req' = [req EXCEPT ![r] = q]
  BY <1>1, InsertsFacts, KeyspaceAssumption
<1>3. q.st = "created"
  <2>1. req[r] \in [st : {"check", "put", "write", "created"}, op : {"create", "publish"},
                    caller : Fps, hash : {g \in Hash : Written(g)}]
    BY DEF Inserts, IInv, TypeOK, RoutesTypeOK, Idle, Refused
  <2>. QED
    BY <1>1, <2>1
<1>4. req'[r] = q /\ \A s \in Requests : s # r => req'[s] = req[s]
  BY <1>2 DEF IInv, TypeOK, RoutesTypeOK
<1>5. \A s \in Requests : (req[s].st = "write")' => s # r /\ req'[s] = req[s]
  BY <1>3, <1>4
<1>6. PICK n : Moved(h, k, n)
  BY RowsMoved
<1>7. /\ Len(keyspace_docs[k]) \in Nat
      /\ Len(keyspace_docs'[k]) = Len(keyspace_docs[k]) + 1
      /\ \A g \in Keyspaces : g # k => keyspace_docs'[g] = keyspace_docs[g]
  BY <1>6, VersionsMoved, RowsMoved DEF Moved
<1>8. Writing'
  <2> SUFFICES ASSUME NEW s \in Requests, (req[s].st = "write")'
               PROVE  StillFits(docs[req[s].hash])'
    BY DEF Writing
  <2>1. PICK d : d = docs[req[s].hash]
    OBVIOUS
  <2>2. req'[s] = req[s] /\ req[s].st = "write"
    BY <1>5
  <2>3. d \in KeyspaceDoc /\ StillFits(d) /\ (docs[req[s].hash])' = d
    BY <1>2, <2>1, <2>2, LiveRequest DEF IInv, Writing
  <2>4. d.ks \in Keyspaces
    BY <2>3 DEF KeyspaceDoc
  <2>5. Stored(d.ks) \subseteq Stored(d.ks)'
    BY <2>4, StoredMoved
  <2>6. 1..Len(keyspace_docs[d.ks]) \subseteq 1..Len(keyspace_docs'[d.ks])
    BY <1>7, <2>4
  <2>7. StillFits(d)'
    BY <1>2, <2>3, <2>5, <2>6 DEF StillFits
  <2>. QED
    BY <2>3, <2>7
<1>9. Unraced'
  <2> SUFFICES ASSUME NEW g \in Keyspaces, g \notin raced
               PROVE  /\ \A i \in 1..Len(keyspace_docs'[g]) : VersionAt(g, i)' = i - 1
                      /\ \A s \in Requests : Writes(s, g)' =>
                            /\ validate_chain(keyspace_docs'[g], docs[req'[s].hash])
                            /\ \A p \in Requests : Writes(p, g)' => p = s
    BY <1>2 DEF Unraced
  <2>1. \A s \in Requests : Writes(s, g)' => Writes(s, g) /\ s # r /\ req'[s] = req[s]
    BY <1>2, <1>5 DEF Writes
  <2>2. /\ \A i \in 1..Len(keyspace_docs[g]) : VersionAt(g, i) = i - 1
        /\ \A s \in Requests : Writes(s, g) =>
              /\ validate_chain(keyspace_docs[g], docs[req[s].hash])
              /\ \A p \in Requests : Writes(p, g) => p = s
    BY DEF IInv, Unraced
  <2>3. CASE g # k
    <3>1. keyspace_docs'[g] = keyspace_docs[g]
          /\ \A i \in 1..Len(keyspace_docs[g]) : VersionAt(g, i)' = VersionAt(g, i)
      BY <1>6, <1>7, <2>3, VersionsMoved
    <3>. QED
      BY <2>1, <2>2, <3>1
  <2>4. CASE g = k
    <3>1. Writes(r, g) /\ docs[req[r].hash] = docs[h]
      BY <2>4 DEF Inserts, Writes
    <3>2. \A s \in Requests : ~ Writes(s, g)'
      BY <2>1, <2>2, <3>1
    <3>3. PICK L : L = Len(keyspace_docs[k])
      OBVIOUS
    <3>4. docs[h].version = L
      BY <1>2, <2>2, <2>4, <3>1, <3>3 DEF validate_chain
    <3>5. /\ n \in 0..L
          /\ \A i \in 1..L : (i <= n <=> VersionAt(k, i) <= docs[h].version)
          /\ \A i \in 1..n : VersionAt(k, i)' = VersionAt(k, i)
          /\ VersionAt(k, n + 1)' = docs[h].version
      <4>1. /\ n \in 0..L
            /\ \A i \in 1..L : (i <= n <=> VersionAt(k, i) <= docs[h].version)
        BY <1>6, <3>3, VersionsMoved
      <4>2. \A i \in 1..n : VersionAt(k, i)' = VersionAt(k, i)
        BY <1>6, VersionsMoved
      <4>3. VersionAt(k, n + 1)' = docs[h].version
        BY <1>6, VersionsMoved
      <4>. QED
        BY <4>1, <4>2, <4>3
    <3>6. n = L
      <4>1. L = 0 \/ L \in 1..L
        BY <1>7, <3>3
      <4>2. L \in 1..L => VersionAt(k, L) = L - 1
        BY <2>2, <2>4, <3>3
      <4>. QED
        BY <1>7, <3>3, <3>4, <3>5, <4>1, <4>2
    <3>7. \A i \in 1..Len(keyspace_docs'[k]) : VersionAt(k, i)' = i - 1
      <4>1. \A i \in 1..Len(keyspace_docs'[k]) : i \in 1..L \/ i = L + 1
        BY <1>7, <3>3
      <4>2. \A i \in 1..L : VersionAt(k, i)' = i - 1
        BY <2>2, <2>4, <3>3, <3>5, <3>6
      <4>3. VersionAt(k, L + 1)' = (L + 1) - 1
        BY <1>7, <3>3, <3>4, <3>5, <3>6
      <4>. QED
        BY <4>1, <4>2, <4>3
    <3>. QED
      BY <2>4, <3>2, <3>7
  <2>. QED
    BY <2>3, <2>4
<1>. QED
  BY <1>8, <1>9

(* The second database call of put. *)
LEMMA WriteStep ==
    ASSUME IInv, NEW r \in Requests, WriteTx(r)
    PROVE  IInv'
<1>1. PICK h : h = req[r].hash
  OBVIOUS
<1>2. PICK k : k = docs[h].ks
  OBVIOUS
<1>3. CASE h \in AllStored
  <2>1. req' = [req EXCEPT ![r] = Refused] /\ UNCHANGED <<docs, tables, raced>>
        /\ req[r].st = "write"
    BY <1>1, <1>3 DEF WriteTx, Answer
  <2>. QED
    BY <2>1, MoveStep
<1>4. CASE h \notin AllStored
  <2>1. Inserts(r, h, k)
    BY <1>1, <1>2, <1>4 DEF Inserts, WriteTx
  <2>2. TypeOK'
    BY <2>1, InsertsTypes
  <2>3. RowsOK' /\ Ordered' /\ MembersOK' /\ AncestryStored'
    BY <2>1, InsertsRows
  <2>4. CurrentIsNewest'
    BY <2>1, InsertsNewest
  <2>5. Writing' /\ Unraced'
    BY <2>1, InsertsWriters
  <2>. QED
    BY <2>2, <2>3, <2>4, <2>5 DEF IInv
<1>. QED
  BY <1>3, <1>4

LEMMA NextIInv == IInv /\ [Next]_vars => IInv'
<1> SUFFICES ASSUME IInv, [Next]_vars PROVE IInv'
  OBVIOUS
<1>1. ASSUME NEW r \in Requests, NEW op \in {"create", "publish"}, NEW k \in Keyspaces,
             NEW f \in Fps, NEW h \in Hash, NEW d \in KeyspaceDoc, Submit(r, op, k, f, h, d)
      PROVE  IInv'
  BY <1>1, SubmitStep
<1>2. ASSUME NEW r \in Requests, NEW k \in Keyspaces, Check(r, k) PROVE IInv'
  BY <1>2, CheckStep
<1>3. ASSUME NEW r \in Requests, ReadVersions(r) PROVE IInv'
  BY <1>3, ReadStep
<1>4. ASSUME NEW r \in Requests, WriteTx(r) PROVE IInv'
  BY <1>4, WriteStep
<1>5. CASE UNCHANGED vars
  <2>1. UNCHANGED <<docs, req, keyspaces, keyspace_docs, keyspace_members, raced>>
    BY <1>5 DEF vars
  <2>. QED
    BY <2>1 DEF IInv, TypeOK, RoutesTypeOK, Written, RowsOK, Ordered, MembersOK, Writing,
                StillFits, Unraced, Writes, CurrentIsNewest, Newest, AncestryStored,
                VersionAt, Stored
<1>. QED
  BY <1>1, <1>2, <1>3, <1>4, <1>5 DEF Next

(* The inductive invariant holds throughout. *)
LEMMA Invariant == Spec => []IInv
BY InitIInv, NextIInv, PTL DEF Spec
-----------------------------------------------------------------------------
(* The tables and the requests keep their types.                           *)
THEOREM TypeCorrect == Spec => []TypeOK
<1>1. IInv => TypeOK
  BY DEF IInv
<1>. QED
  BY <1>1, Invariant, PTL

(* However puts of a keyspace overlap, the summary row names the highest   *)
(* version stored, and of several documents at it the first written (the   *)
(* upsert in the transaction of put, after any earlier validation).        *)
THEOREM NewestIsCurrent == Spec => []CurrentIsNewest
<1>1. IInv => CurrentIsNewest
  BY DEF IInv
<1>. QED
  BY <1>1, Invariant, PTL

(* However puts overlap, every stored document but a version 0 has its     *)
(* parent stored in the same keyspace at a lower version, though what      *)
(* validate_chain saw is stale when the transaction runs.                  *)
THEOREM HistoryKept == Spec => []AncestryStored
<1>1. IInv => AncestryStored
  BY DEF IInv
<1>. QED
  BY <1>1, Invariant, PTL

(* list_by_member misses no member of the current version, and finds       *)
(* nobody else unless two puts of the keyspace have overlapped.            *)
THEOREM MembersFound == Spec => []ListByMember
BY ExactIndex, Invariant, PTL

(* Where no two puts overlapped, a put appends to the chain what the chain *)
(* may be extended with.                                                   *)
LEMMA InsertsExtend ==
    ASSUME IInv, NEW r \in Requests, NEW h, NEW k, Inserts(r, h, k), k \notin raced
    PROVE  Chain!Extend(k, h)
<1>1. PICK s : s = keyspace_docs[k]
  OBVIOUS
<1>2. PICK t : t = keyspace_docs'[k]
  OBVIOUS
<1>3. PICK d : d = docs[h]
  OBVIOUS
<1>4. /\ k \in Keyspaces /\ h \in Hash /\ Written(h) /\ docs' = docs
      /\ d \in KeyspaceDoc /\ d.version \in Nat /\ d.ks = k
  BY <1>3, InsertsFacts, KeyspaceAssumption DEF Inserts
<1>5. validate_chain(s, d) /\ \A i \in 1..Len(s) : VersionAt(k, i) = i - 1
  <2>1. Writes(r, k) /\ docs[req[r].hash] = d
    BY <1>3 DEF Inserts, Writes
  <2>. QED
    BY <1>1, <1>4, <2>1 DEF IInv, Unraced
<1>6. s \in Seq(Hash) /\ Len(s) \in Nat
  BY <1>1, <1>4, StoredRows DEF IInv
<1>7. /\ d.version = Len(s)
      /\ d.parent = IF s = <<>> THEN NoHash ELSE s[Len(s)]
  BY <1>4, <1>5, <1>6 DEF validate_chain
<1>8. PICK n : Moved(h, k, n)
  BY RowsMoved
<1>9. /\ n \in 0..Len(s)
      /\ \A i \in 1..Len(s) : i <= n <=> VersionAt(k, i) <= Len(s)
      /\ t \in Seq(Hash) /\ Len(t) = Len(s) + 1
      /\ \A i \in 1..n : t[i] = s[i]
      /\ t[n + 1] = h
  BY <1>1, <1>2, <1>3, <1>7, <1>8 DEF Moved
<1>10. n = Len(s)
  <2>1. Len(s) = 0 \/ Len(s) \in 1..Len(s)
    BY <1>6
  <2>2. Len(s) \in 1..Len(s) => VersionAt(k, Len(s)) = Len(s) - 1
    BY <1>5
  <2>. QED
    BY <1>6, <1>9, <2>1, <2>2
<1>11. t = Append(s, h)
  <2>1. PICK a : a = Append(s, h)
    OBVIOUS
  <2>2. /\ a \in Seq(Hash) /\ Len(a) = Len(s) + 1
        /\ \A i \in 1..Len(s) : a[i] = s[i]
        /\ a[Len(s) + 1] = h
    BY <1>4, <1>6, <2>1
  <2>3. \A i \in 1..Len(t) : t[i] = a[i]
    BY <1>6, <1>9, <1>10, <2>2
  <2>4. Len(t) = Len(a)
    BY <1>9, <2>2
  <2>. QED
    BY ONLY <1>9, <2>1, <2>2, <2>3, <2>4, SeqEqual
<1>12. chain = keyspace_docs /\ chain' = keyspace_docs'
  <2>1. keyspace_docs \in [Keyspaces -> Seq(Hash)] /\ keyspace_docs' \in [Keyspaces -> Seq(Hash)]
    BY RowsMoved DEF IInv, TypeOK
  <2>. QED
    BY <2>1 DEF chain, list_versions
<1>13. keyspace_docs' = [keyspace_docs EXCEPT ![k] = Append(keyspace_docs[k], h)]
  <2>1. /\ keyspace_docs \in [Keyspaces -> Seq(Hash)]
        /\ keyspace_docs' \in [Keyspaces -> Seq(Hash)]
        /\ \A g \in Keyspaces : g # k => keyspace_docs'[g] = keyspace_docs[g]
    BY RowsMoved DEF IInv, TypeOK
  <2>. QED
    BY <1>1, <1>2, <1>11, <2>1
<1>14. docs[h] # Chain!Unwritten
  BY <1>4 DEF Written, Unwritten, Chain!Unwritten
<1>15. Chain!Last(k) = d.parent
  BY <1>1, <1>7, <1>12 DEF Chain!Last
<1>. QED
  BY <1>1, <1>3, <1>4, <1>7, <1>12, <1>13, <1>14, <1>15 DEF Chain!Extend

LEMMA ChainStep ==
    ASSUME IInv, [Next]_vars, raced' = {}
    PROVE  Chain!Next \/ UNCHANGED <<docs, chain>>
<1>1. ASSUME NEW r \in Requests, NEW op \in {"create", "publish"}, NEW k \in Keyspaces,
             NEW f \in Fps, NEW h \in Hash, NEW d \in KeyspaceDoc, Submit(r, op, k, f, h, d)
      PROVE  Chain!Next
  <2>1. \A g \in Hash : Written(g) => docs'[g] = docs[g]
    BY <1>1, DraftStable DEF IInv, TypeOK, RoutesTypeOK, Submit, Arrive
  <2>2. chain' = chain
    BY <1>1 DEF Submit, tables, chain, list_versions
  <2>3. Chain!Write
    BY <2>1, <2>2 DEF Chain!Write, Chain!Unwritten, Written, Unwritten
  <2>. QED
    BY <2>3 DEF Chain!Next
<1>2. ASSUME UNCHANGED <<docs, tables>> PROVE UNCHANGED <<docs, chain>>
  BY <1>2 DEF tables, chain, list_versions
<1>3. ASSUME NEW r \in Requests, WriteTx(r)
      PROVE  Chain!Next \/ UNCHANGED <<docs, chain>>
  <2>1. PICK h : h = req[r].hash
    OBVIOUS
  <2>2. PICK k : k = docs[h].ks
    OBVIOUS
  <2>3. CASE h \in AllStored
    <3>1. UNCHANGED <<docs, tables>>
      BY <1>3, <2>1, <2>3 DEF WriteTx
    <3>. QED
      BY <1>2, <3>1
  <2>4. CASE h \notin AllStored
    <3>1. Inserts(r, h, k)
      BY <1>3, <2>1, <2>2, <2>4 DEF Inserts, WriteTx
    <3>2. k \notin raced /\ k \in Keyspaces /\ h \in Hash
      BY <3>1, InsertsFacts
    <3>3. Chain!Extend(k, h)
      BY <3>1, <3>2, InsertsExtend
    <3>. QED
      BY <3>2, <3>3 DEF Chain!Next
  <2>. QED
    BY <2>3, <2>4
<1>4. ASSUME NEW r \in Requests, NEW k \in Keyspaces, Check(r, k) PROVE UNCHANGED <<docs, tables>>
  BY <1>4 DEF Check, CheckSigner
<1>5. ASSUME NEW r \in Requests, ReadVersions(r) PROVE UNCHANGED <<docs, tables>>
  BY <1>5 DEF ReadVersions
<1>6. CASE UNCHANGED vars
  BY <1>6 DEF vars, tables, chain, list_versions
<1>. QED
  BY <1>1, <1>2, <1>3, <1>4, <1>5, <1>6 DEF Next

(* Until two puts of a keyspace overlap, the tables implement the          *)
(* append-only chain that the trait KeyspaceStore promises.                *)
THEOREM UnracedIsChain == Spec => ChainUnlessRaced
<1>1. Init => Chain!Init
  <2> SUFFICES ASSUME Init PROVE Chain!Init
    OBVIOUS
  <2>1. chain = [k \in Keyspaces |-> <<>>]
    BY DEF Init, chain, list_versions
  <2>. QED
    BY <2>1 DEF Init, RoutesInit, Chain!Init, Unwritten, Chain!Unwritten
<1>2. IInv /\ [Next]_vars => [raced' = {} => Chain!Next \/ UNCHANGED <<docs, chain>>]_vars
  BY ChainStep
<1>. QED
  BY <1>1, <1>2, Invariant, PTL DEF Spec, ChainUnlessRaced
=============================================================================
