------------------------- MODULE KeyspaceMemoryProofs -------------------------
(***************************************************************************)
(* Proofs about the keyspace routes over the in-memory store.  TypeOK and  *)
(* StoreConsistent are almost inductive: what is missing is that versions  *)
(* holds documents of its own keyspace at the positions their version      *)
(* numbers give, so that a document is never stored twice.                 *)
(***************************************************************************)
EXTENDS KeyspaceMemory, TLAPS

(* The document at position i of a keyspace is its version i - 1. *)
Positions ==
    \A k \in Keyspaces : \A i \in 1..Len(versions[k]) :
        /\ Written(versions[k][i])
        /\ docs[versions[k][i]].ks = k
        /\ docs[versions[k][i]].version = i - 1

IInv == TypeOK /\ StoreConsistent /\ Positions

(* What a request has to show for its caller: until the check, that it     *)
(* arrived no later than now; until put, a version of its time on which    *)
(* the caller could sign; then the same below the version it stored.       *)
Checked(r) ==
    LET d == docs[req[r].hash] IN
    /\ req[r].st = "check" => began[r] <= Len(versions[d.ks])
    /\ req[r].st = "put" /\ req[r].op = "publish" =>
         \E i \in began[r]..Len(versions[d.ks]) : Signed(d.ks, i, req[r].caller)
    /\ req[r].st = "created" /\ req[r].op = "publish" =>
         /\ d.version \in 1..Len(versions[d.ks])
         /\ versions[d.ks][d.version] = d.parent
         /\ \E i \in began[r]..d.version : Signed(d.ks, i, req[r].caller)

PInv == IInv /\ \A r \in Requests : Checked(r)
-----------------------------------------------------------------------------
(* Writing a document leaves every document written before as it was. *)
LEMMA DraftStable ==
    ASSUME NEW h \in Hash, NEW d \in KeyspaceDoc, Draft(h, d),
           docs \in [Hash -> KeyspaceDoc \union {Unwritten}]
    PROVE  /\ docs' \in [Hash -> KeyspaceDoc \union {Unwritten}]
           /\ \A g \in Hash : Written(g) => docs'[g] = docs[g]
           /\ docs'[h] = d
           /\ Written(h)'
           /\ \A g \in Hash : ~ Written(g) /\ g # h => ~ Written(g)'
<1>1. d # Unwritten
  BY KeyspaceAssumption DEF KeyspaceDoc, Unwritten
<1> QED  BY <1>1 DEF Draft, Written

(* The empty server satisfies the invariant. *)
LEMMA InitIInv == Init => IInv
<1> SUFFICES ASSUME Init PROVE IInv  OBVIOUS
<1>1. TypeOK
  BY DEF Init, RoutesInit, TypeOK, RoutesTypeOK, Idle
<1>2. StoreConsistent
  <2>1. \A h \in Hash : ~ Written(h)  BY DEF Init, RoutesInit, Written
  <2> QED  BY <2>1 DEF Init, StoreConsistent, MembersOf
<1>3. Positions  BY DEF Init, Positions
<1> QED  BY <1>1, <1>2, <1>3 DEF IInv

(* The requests a typed state may hold. *)
ReqType == {Idle, Refused} \union
    [st : {"check", "put", "write", "created"}, op : {"create", "publish"},
     caller : Fps, hash : {h \in Hash : Written(h)}]

(* The steps that leave the store alone keep the invariant: documents may  *)
(* be added and one request moves on.                                      *)
LEMMA RouteStep ==
    ASSUME IInv, NEW r \in Requests, UNCHANGED store,
           docs' \in [Hash -> KeyspaceDoc \union {Unwritten}],
           \A g \in Hash : Written(g) => docs'[g] = docs[g],
           began' \in [Requests -> Nat],
           req' = [req EXCEPT ![r] = req'[r]], req'[r] \in ReqType'
    PROVE  IInv'
<1> USE DEF IInv, store
<1>1. \A g \in Hash : Written(g) => Written(g)' /\ docs'[g] = docs[g]
  BY DEF Written
<1>2. TypeOK'
  <2>1. req \in [Requests -> ReqType]
    BY DEF TypeOK, RoutesTypeOK, ReqType
  <2>2. ReqType \subseteq ReqType'
    BY <1>1 DEF ReqType
  <2>3. req' \in [Requests -> ReqType']
    BY <2>1, <2>2
  <2> QED  BY <2>3 DEF TypeOK, RoutesTypeOK, ReqType
<1>3. Positions'
  BY <1>1 DEF Positions, TypeOK
<1>4. ASSUME NEW k \in Keyspaces, latest[k] # NoHash PROVE Written(latest[k])
  <2>1. versions[k] # <<>> /\ latest[k] = versions[k][Len(versions[k])]
    BY <1>4 DEF StoreConsistent
  <2>2. Len(versions[k]) \in 1..Len(versions[k])
    BY <2>1 DEF TypeOK
  <2> QED  BY <2>1, <2>2 DEF Positions
<1>5. \A k \in Keyspaces : MembersOf(latest[k])' = MembersOf(latest[k])
  BY <1>1, <1>4 DEF MembersOf, TypeOK
<1>6. ASSUME NEW h \in Hash
      PROVE  h \in by_hash <=>
               Written(h)' /\ \E i \in 1..Len(versions[docs'[h].ks]) :
                                  versions[docs'[h].ks][i] = h
  <2>1. CASE Written(h)
    <3>1. Written(h)' /\ docs'[h] = docs[h]  BY <2>1, <1>1
    <3> QED  BY <2>1, <3>1 DEF StoreConsistent
  <2>2. CASE ~ Written(h)
    <3>1. h \notin by_hash  BY <2>2 DEF StoreConsistent
    <3>2. Written(h)' => docs'[h].ks \in Keyspaces
      BY DEF Written, KeyspaceDoc
    <3> QED  BY <2>2, <3>1, <3>2 DEF Positions
  <2> QED  BY <2>1, <2>2
<1>7. StoreConsistent'
  BY <1>5, <1>6 DEF StoreConsistent
<1> QED  BY <1>2, <1>3, <1>7

(* A request arrives: documents may be added, nothing stored moves. *)
LEMMA SubmitStep ==
    ASSUME IInv, NEW r \in Requests, NEW op \in {"create", "publish"},
           NEW k \in Keyspaces, NEW f \in Fps, NEW h \in Hash, NEW d \in KeyspaceDoc,
           Submit(r, op, k, f, h, d)
    PROVE  IInv'
<1>1. /\ docs' \in [Hash -> KeyspaceDoc \union {Unwritten}]
      /\ \A g \in Hash : Written(g) => docs'[g] = docs[g]
      /\ Written(h)'
  BY DraftStable DEF IInv, TypeOK, RoutesTypeOK, Submit, Arrive
<1>2. /\ req' = [req EXCEPT ![r] = req'[r]]
      /\ \/ req'[r] = Refused
         \/ req'[r] = Route("put", op, f, h)
         \/ req'[r] = Route("check", op, f, h)
  BY DEF Submit, Arrive, IInv, TypeOK, RoutesTypeOK
<1>3. began' \in [Requests -> Nat]
  BY DEF Submit, IInv, TypeOK, KeyspaceDoc
<1>4. \A s \in {"put", "check"} : Route(s, op, f, h) \in ReqType'
  BY <1>1 DEF ReqType, Route
<1>5. req'[r] \in ReqType'
  BY <1>2, <1>4 DEF ReqType
<1> QED  BY <1>1, <1>2, <1>3, <1>5, RouteStep DEF Submit

(* The signer check moves one request on. *)
LEMMA CheckStep ==
    ASSUME IInv, NEW r \in Requests, NEW k \in Keyspaces, Check(r, k)
    PROVE  IInv'
<1>1. req[r] \in ReqType /\ req[r].st = "check" /\ UNCHANGED docs
  BY DEF IInv, TypeOK, RoutesTypeOK, ReqType, Check, CheckSigner
<1>2. req[r] \in [st : {"check", "put", "write", "created"}, op : {"create", "publish"},
                  caller : Fps, hash : {h \in Hash : Written(h)}]
  BY <1>1 DEF ReqType, Idle, Refused
<1>3. /\ req' = [req EXCEPT ![r] = req'[r]]
      /\ req'[r] = Refused \/ req'[r] = [req[r] EXCEPT !.st = "put"]
  BY DEF Check, CheckSigner, IInv, TypeOK, RoutesTypeOK
<1>4. [req[r] EXCEPT !.st = "put"] \in ReqType
  BY <1>2 DEF ReqType
<1>5. ReqType' = ReqType
  BY <1>1 DEF ReqType, Written
<1>6. req'[r] \in ReqType'
  BY <1>3, <1>4, <1>5 DEF ReqType
<1> QED  BY <1>1, <1>3, <1>6, RouteStep DEF Check, IInv, TypeOK, RoutesTypeOK

(* The request whose document put handles is a typed one. *)
LEMMA PutRequest ==
    ASSUME IInv, NEW r \in Requests, req[r].st = "put"
    PROVE  /\ req[r].hash \in Hash /\ Written(req[r].hash)
           /\ docs[req[r].hash] \in KeyspaceDoc
           /\ [req[r] EXCEPT !.st = "created"] \in ReqType
<1>1. req[r] \in [st : {"check", "put", "write", "created"}, op : {"create", "publish"},
                  caller : Fps, hash : {h \in Hash : Written(h)}]
  BY DEF IInv, TypeOK, RoutesTypeOK, Idle, Refused
<1>2. req[r].hash \in Hash /\ Written(req[r].hash)
  BY <1>1
<1>3. [req[r] EXCEPT !.st = "created"] \in ReqType
  BY <1>1 DEF ReqType
<1> QED  BY <1>2, <1>3 DEF IInv, TypeOK, RoutesTypeOK, Written

(* validate_chain accepts only a document that is not stored yet: its      *)
(* version is the next position, and stored documents have lower ones.     *)
LEMMA AcceptedIsFresh ==
    ASSUME IInv, NEW h \in Hash, Written(h), docs[h] \in KeyspaceDoc,
           validate_chain(versions[docs[h].ks], docs[h])
    PROVE  /\ h \notin by_hash
           /\ docs[h].version = Len(versions[docs[h].ks])
           /\ docs[h].parent = latest[docs[h].ks]
<1> DEFINE k == docs[h].ks
<1>0. k \in Keyspaces /\ versions[k] \in Seq(Hash) /\ docs[h].version \in Nat
  BY KeyspaceAssumption DEF KeyspaceDoc, IInv, TypeOK
<1>1. docs[h].version = Len(versions[k])
  BY <1>0 DEF validate_chain
<1>2. h \notin by_hash
  <2>1. \A i \in 1..Len(versions[k]) : docs[versions[k][i]].version = i - 1
    BY <1>0 DEF IInv, Positions
  <2> QED  BY <1>0, <1>1, <2>1 DEF IInv, StoreConsistent
<1>3. docs[h].parent = latest[k]
  <2>1. latest[k] = IF versions[k] = <<>> THEN NoHash ELSE versions[k][Len(versions[k])]
    BY <1>0 DEF IInv, StoreConsistent
  <2> QED  BY <1>0, <2>1 DEF validate_chain
<1> QED  BY <1>1, <1>2, <1>3

(* What appending one element does to a sequence. *)
LEMMA AppendFacts ==
    ASSUME NEW S, NEW s \in Seq(S), NEW e \in S
    PROVE  /\ Append(s, e) \in Seq(S)
           /\ Append(s, e) # <<>>
           /\ Len(Append(s, e)) = Len(s) + 1
           /\ Len(s) \in Nat
           /\ \A i \in 1..Len(s) : Append(s, e)[i] = s[i]
           /\ Append(s, e)[Len(s) + 1] = e
OBVIOUS

(* put accepts a document: every part of the store moves to it together. *)
LEMMA StoreStep ==
    ASSUME IInv, NEW r \in Requests, req[r].st = "put", UNCHANGED <<docs, began>>,
           validate_chain(versions[docs[req[r].hash].ks], docs[req[r].hash]),
           Answer(r, TRUE), Store(docs[req[r].hash], req[r].hash)
    PROVE  IInv'
<1> DEFINE h == req[r].hash
           d == docs[h]
           k == d.ks
<1>1. /\ h \in Hash /\ Written(h) /\ d \in KeyspaceDoc
      /\ [req[r] EXCEPT !.st = "created"] \in ReqType
  BY PutRequest
<1>2. k \in Keyspaces /\ d.body.members \subseteq Fps
  BY <1>1, KeyspaceAssumption DEF KeyspaceDoc
<1>3. h \notin by_hash /\ d.version = Len(versions[k])
  BY <1>1, AcceptedIsFresh
<1>4. /\ latest' = [latest EXCEPT ![k] = h]
      /\ versions' = [versions EXCEPT ![k] = Append(versions[k], h)]
      /\ by_hash' = by_hash \union {h}
  BY DEF Store
<1>5. /\ versions[k] \in Seq(Hash)
      /\ versions'[k] # <<>>
      /\ Len(versions'[k]) = Len(versions[k]) + 1
      /\ Len(versions[k]) \in Nat
      /\ \A i \in 1..Len(versions[k]) : versions'[k][i] = versions[k][i]
      /\ versions'[k][Len(versions[k]) + 1] = h
      /\ latest'[k] = h
      /\ \A g \in Keyspaces : g # k => versions'[g] = versions[g] /\ latest'[g] = latest[g]
  <2>1. versions[k] \in Seq(Hash)
    BY <1>2 DEF IInv, TypeOK
  <2>2. /\ versions'[k] = Append(versions[k], h)
        /\ latest'[k] = h
        /\ \A g \in Keyspaces : g # k => versions'[g] = versions[g] /\ latest'[g] = latest[g]
    BY <1>2, <1>4 DEF IInv, TypeOK
  <2>3. h \in Hash  BY <1>1
  <2> HIDE DEF h, k
  <2>4. /\ Append(versions[k], h) # <<>>
        /\ Len(Append(versions[k], h)) = Len(versions[k]) + 1
        /\ Len(versions[k]) \in Nat
        /\ \A i \in 1..Len(versions[k]) : Append(versions[k], h)[i] = versions[k][i]
        /\ Append(versions[k], h)[Len(versions[k]) + 1] = h
    BY <2>1, <2>3, AppendFacts
  <2> QED  BY <2>1, <2>2, <2>4
<1>6. TypeOK'
  <2>1. req' \in [Requests -> ReqType]
    BY <1>1 DEF Answer, IInv, TypeOK, RoutesTypeOK, ReqType
  <2>2. ReqType' = ReqType
    BY DEF ReqType, Written
  <2>3. RoutesTypeOK'
    BY <2>1, <2>2 DEF IInv, TypeOK, RoutesTypeOK, ReqType
  <2>4. versions' \in [Keyspaces -> Seq(Hash)]
    BY SMTT(30), <1>1, <1>2, <1>4 DEF IInv, TypeOK
  <2>5. member_index' \in [Fps -> SUBSET Keyspaces]
    BY <1>2 DEF Store, IInv, TypeOK
  <2> QED  BY <1>1, <1>2, <1>4, <2>3, <2>4, <2>5 DEF IInv, TypeOK
<1>9. /\ \A f \in Fps : member_index'[f] =
            (IF f \in MembersOf(latest[k]) THEN member_index[f] \ {k} ELSE member_index[f])
            \union (IF f \in d.body.members THEN {k} ELSE {})
      /\ d = docs[h] /\ k = d.ks
  BY DEF Store
<1> HIDE DEF h, d, k
<1>7. Positions'
  <2> SUFFICES ASSUME NEW g \in Keyspaces, NEW i \in 1..Len(versions'[g])
               PROVE  /\ Written(versions'[g][i])
                      /\ docs[versions'[g][i]].ks = g
                      /\ docs[versions'[g][i]].version = i - 1
    BY DEF Positions, Written
  <2>0. \A j \in 1..Len(versions[g]) :
          /\ Written(versions[g][j])
          /\ docs[versions[g][j]].ks = g
          /\ docs[versions[g][j]].version = j - 1
    BY DEF IInv, Positions
  <2>1. CASE g # k
    BY <2>0, <2>1, <1>5
  <2>2. CASE g = k /\ i \in 1..Len(versions[k])
    <3>1. versions'[g][i] = versions[k][i]  BY <2>2, <1>5
    <3> QED  BY <2>0, <2>2, <3>1
  <2>3. CASE g = k /\ i = Len(versions[k]) + 1
    BY <2>3, <1>5, <1>1, <1>3, <1>9
  <2> QED  BY <2>1, <2>2, <2>3, <1>5
<1>8. StoreConsistent'
  <2>1. ASSUME NEW g \in Keyspaces
        PROVE  latest'[g] = IF versions'[g] = <<>> THEN NoHash
                            ELSE versions'[g][Len(versions'[g])]
    <3>1. CASE g = k  BY <3>1, <1>5, <1>1
    <3>2. CASE g # k  BY <3>2, <1>5 DEF IInv, StoreConsistent
    <3> QED  BY <3>1, <3>2
  <2>2. ASSUME NEW g \in Hash
        PROVE  g \in by_hash' <=>
                 Written(g) /\ \E i \in 1..Len(versions'[docs[g].ks]) :
                                   versions'[docs[g].ks][i] = g
    <3>1. CASE g = h
      <4>1. Len(versions'[k]) \in 1..Len(versions'[k])
        BY <1>5
      <4>2. versions'[k][Len(versions'[k])] = h
        BY <1>5
      <4> QED  BY <3>1, <1>1, <1>4, <1>9, <4>1, <4>2
    <3>2. CASE g # h
      <4>1. g \in by_hash' <=> g \in by_hash  BY <3>2, <1>4
      <4>2. Written(g) => docs[g].ks \in Keyspaces
        BY DEF IInv, TypeOK, RoutesTypeOK, KeyspaceDoc, Written
      <4>3. Written(g) =>
              ((\E i \in 1..Len(versions'[docs[g].ks]) : versions'[docs[g].ks][i] = g)
               <=> (\E i \in 1..Len(versions[docs[g].ks]) : versions[docs[g].ks][i] = g))
        <5>1. CASE docs[g].ks = k
          <6>1. \A i \in 1..Len(versions'[k]) :
                  i \in 1..Len(versions[k]) \/ i = Len(versions[k]) + 1
            BY <1>5
          <6>2. 1..Len(versions[k]) \subseteq 1..Len(versions'[k])
            BY <1>5
          <6> QED  BY <5>1, <6>1, <6>2, <1>5, <3>2
        <5>2. CASE docs[g].ks # k
          BY <5>2, <4>2, <1>5
        <5> QED  BY <5>1, <5>2
      <4> QED  BY <4>1, <4>3 DEF IInv, StoreConsistent
    <3> QED  BY <3>1, <3>2
  <2>3. ASSUME NEW f \in Fps, NEW g \in Keyspaces
        PROVE  g \in member_index'[f] <=> f \in MembersOf(latest[g])'
    <3>2. g \in member_index[f] <=> f \in MembersOf(latest[g])
      BY DEF IInv, StoreConsistent
    <3>3. CASE g = k
      <4>1. MembersOf(latest[g])' = d.body.members
        BY SMTT(30), <3>3, <1>1, <1>5, <1>9, KeyspaceAssumption DEF MembersOf
      <4> QED  BY <1>9, <3>2, <3>3, <4>1
    <3>4. CASE g # k
      <4>1. MembersOf(latest[g])' = MembersOf(latest[g])
        BY <3>4, <1>5 DEF MembersOf
      <4> QED  BY <1>9, <3>2, <3>4, <4>1
    <3> QED  BY <3>3, <3>4
  <2> QED  BY <2>1, <2>2, <2>3 DEF StoreConsistent, Written
<1> QED  BY <1>6, <1>7, <1>8 DEF IInv

(* put refuses a document: the request ends. *)
LEMMA RefuseStep ==
    ASSUME IInv, NEW r \in Requests, req[r].st = "put", UNCHANGED <<docs, began>>,
           Answer(r, FALSE), UNCHANGED store
    PROVE  IInv'
<1>1. req' = [req EXCEPT ![r] = req'[r]] /\ req'[r] = Refused
  BY DEF Answer, IInv, TypeOK, RoutesTypeOK
<1>2. req'[r] \in ReqType'
  BY <1>1 DEF ReqType
<1> QED  BY <1>1, <1>2, RouteStep DEF IInv, TypeOK, RoutesTypeOK

(* put, whatever validate_chain says. *)
LEMMA PutStep ==
    ASSUME IInv, NEW r \in Requests, Put(r)
    PROVE  IInv'
<1>1. CASE validate_chain(versions[docs[req[r].hash].ks], docs[req[r].hash])
  BY <1>1, StoreStep DEF Put
<1>2. CASE ~ validate_chain(versions[docs[req[r].hash].ks], docs[req[r].hash])
  <2>1. Answer(r, FALSE)
    BY <1>2 DEF Put, Answer
  <2> QED  BY <1>2, <2>1, RefuseStep DEF Put
<1> QED  BY <1>1, <1>2

(* No step leaves the invariant. *)
LEMMA NextIInv == IInv /\ [Next]_vars => IInv'
<1> SUFFICES ASSUME IInv, [Next]_vars PROVE IInv'  OBVIOUS
<1>1. CASE Next  BY <1>1, SubmitStep, CheckStep, PutStep DEF Next
<1>2. CASE UNCHANGED vars
  <2> USE <1>2 DEF vars
  <2>1. TypeOK'  BY DEF IInv, TypeOK, RoutesTypeOK, Written
  <2>2. StoreConsistent'  BY DEF IInv, StoreConsistent, MembersOf, Written
  <2>3. Positions'  BY DEF IInv, Positions, Written
  <2> QED  BY <2>1, <2>2, <2>3 DEF IInv
<1> QED  BY <1>1, <1>2

(* The invariant holds in every reachable state. *)
THEOREM Inductive == Spec => []IInv
BY InitIInv, NextIInv, PTL DEF Spec

(* Every variable keeps its type: in particular what the maps of the store *)
(* and the requests in flight name is always a document.                   *)
THEOREM TypeCorrect == Spec => []TypeOK
<1>1. IInv => TypeOK  BY DEF IInv
<1> QED  BY <1>1, Inductive, PTL

(* InMemoryKeyspaceStore::put keeps its four maps in step, for any number  *)
(* of keyspaces, accounts and concurrent requests.                         *)
THEOREM StoreStaysConsistent == Spec => []StoreConsistent
<1>1. IInv => StoreConsistent  BY DEF IInv
<1> QED  BY <1>1, Inductive, PTL
-----------------------------------------------------------------------------
(* The store only ever appends a written document of the keyspace, with    *)
(* the next number and the last hash as parent.                            *)
LEMMA PutExtends ==
    ASSUME IInv, NEW r \in Requests, Put(r)
    PROVE  [Chain!Next]_<<docs, versions>>
<1> DEFINE h == req[r].hash
           k == docs[h].ks
<1>1. CASE ~ validate_chain(versions[k], docs[h])
  BY <1>1 DEF Put, store
<1>2. CASE validate_chain(versions[k], docs[h])
  <2>1. h \in Hash /\ Written(h) /\ docs[h] \in KeyspaceDoc
    BY PutRequest DEF Put
  <2>2. k \in Keyspaces
    BY <2>1 DEF KeyspaceDoc
  <2>3. docs[h].version = Len(versions[k]) /\ docs[h].parent = latest[k]
    BY <1>2, <2>1, AcceptedIsFresh
  <2>4. latest[k] = Chain!Last(k)
    BY <2>2 DEF IInv, StoreConsistent, Chain!Last
  <2>5. versions' = [versions EXCEPT ![k] = Append(@, h)] /\ UNCHANGED docs
    BY <1>2 DEF Put, Store
  <2>6. docs[h] # Chain!Unwritten
    BY <2>1 DEF Written, Unwritten, Chain!Unwritten
  <2>7. Chain!Extend(k, h)
    BY <2>3, <2>4, <2>5, <2>6 DEF Chain!Extend
  <2> QED  BY <2>1, <2>2, <2>7 DEF Chain!Next
<1> QED  BY <1>1, <1>2

(* A client writing a document is a Write of the chain. *)
LEMMA SubmitWrites ==
    ASSUME IInv, NEW r \in Requests, NEW op \in {"create", "publish"},
           NEW k \in Keyspaces, NEW f \in Fps, NEW h \in Hash, NEW d \in KeyspaceDoc,
           Submit(r, op, k, f, h, d)
    PROVE  Chain!Write
<1>1. \A g \in Hash : Written(g) => docs'[g] = docs[g]
  BY DraftStable DEF IInv, TypeOK, RoutesTypeOK, Submit, Arrive
<1> QED  BY <1>1 DEF Submit, store, Chain!Write, Chain!Unwritten, Unwritten, Written

(* The in-memory store is an append-only chain of documents: the routes    *)
(* over it implement KeyspaceChain, whatever requests race.                *)
THEOREM Refinement == Spec => ImplementsChain
<1>1. Init => Chain!Init
  BY DEF Init, RoutesInit, Chain!Init, Unwritten, Chain!Unwritten
<1>2. IInv /\ [Next]_vars => [Chain!Next]_<<docs, versions>>
  <2> SUFFICES ASSUME IInv, [Next]_vars PROVE [Chain!Next]_<<docs, versions>>
    OBVIOUS
  <2>1. CASE Next
    <3>1. ASSUME NEW r \in Requests, NEW k \in Keyspaces, Check(r, k)
          PROVE  UNCHANGED <<docs, versions>>
      BY <3>1 DEF Check, CheckSigner, store
    <3> QED  BY <2>1, <3>1, SubmitWrites, PutExtends DEF Next, Chain!Next
  <2>2. CASE UNCHANGED vars  BY <2>2 DEF vars
  <2> QED  BY <2>1, <2>2
<1> QED  BY <1>1, <1>2, Inductive, PTL DEF Spec, ImplementsChain, Chain!Spec
-----------------------------------------------------------------------------
(* The empty server satisfies the publishing invariant. *)
LEMMA InitPInv == Init => PInv
<1> SUFFICES ASSUME Init PROVE PInv  OBVIOUS
<1>1. \A r \in Requests : req[r] = Idle  BY DEF Init, RoutesInit
<1> QED  BY <1>1, InitIInv DEF PInv, Checked, Idle

(* The request that is at a step, or answered, names a written document.   *)
LEMMA NamesDoc ==
    ASSUME IInv, NEW r \in Requests, req[r].st \in {"check", "put", "created"}
    PROVE  /\ req[r] \in [st : {"check", "put", "write", "created"},
                          op : {"create", "publish"}, caller : Fps,
                          hash : {g \in Hash : Written(g)}]
           /\ req[r].hash \in Hash /\ Written(req[r].hash)
           /\ docs[req[r].hash] \in KeyspaceDoc
           /\ docs[req[r].hash].ks \in Keyspaces
<1>1. req[r] \in [st : {"check", "put", "write", "created"}, op : {"create", "publish"},
                  caller : Fps, hash : {g \in Hash : Written(g)}]
  BY DEF IInv, TypeOK, RoutesTypeOK, Idle, Refused
<1>2. req[r].hash \in Hash /\ Written(req[r].hash)
  BY <1>1
<1>3. docs[req[r].hash] \in KeyspaceDoc
  BY <1>2 DEF IInv, TypeOK, RoutesTypeOK, Written
<1> QED  BY <1>1, <1>2, <1>3 DEF KeyspaceDoc

(* Whatever is shown for a request stays shown while the versions of the   *)
(* keyspaces only grow and no document changes.                            *)
LEMMA StaysChecked ==
    ASSUME PInv, NEW s \in Requests, req'[s] = req[s], began'[s] = began[s],
           \A g \in Hash : Written(g) => docs'[g] = docs[g],
           \A k \in Keyspaces : /\ Len(versions[k]) <= Len(versions'[k])
                               /\ Len(versions'[k]) \in Nat
                               /\ \A i \in 1..Len(versions[k]) :
                                    versions'[k][i] = versions[k][i]
    PROVE  Checked(s)'
<1> DEFINE d == docs[req[s].hash]
<1>1. CASE req[s].st \notin {"check", "put", "created"}
  BY <1>1 DEF Checked
<1>2. CASE req[s].st \in {"check", "put", "created"}
  <2>1. d \in KeyspaceDoc /\ d.ks \in Keyspaces /\ docs'[req'[s].hash] = d
    BY <1>2, NamesDoc DEF PInv
  <2>2. versions[d.ks] \in Seq(Hash) /\ Len(versions[d.ks]) \in Nat /\ began[s] \in Nat
    BY <2>1 DEF PInv, IInv, TypeOK
  <2>3. ASSUME NEW i \in Int, Signed(d.ks, i, req[s].caller)
        PROVE  /\ i \in 1..Len(versions[d.ks]) /\ i \in 1..Len(versions'[d.ks])
               /\ req[s].caller \in docs'[versions'[d.ks][i]].body.signers
    <3>1. i \in 1..Len(versions[d.ks])
      BY <2>3 DEF Signed
    <3>2. Written(versions[d.ks][i]) /\ versions[d.ks][i] \in Hash
      BY <2>1, <2>2, <3>1 DEF PInv, IInv, Positions
    <3>3. i \in 1..Len(versions'[d.ks]) /\ versions'[d.ks][i] = versions[d.ks][i]
      BY <2>1, <2>2, <3>1
    <3>4. docs'[versions[d.ks][i]] = docs[versions[d.ks][i]]
      BY <3>2
    <3>5. req[s].caller \in docs[versions[d.ks][i]].body.signers
      BY <2>3 DEF Signed
    <3> QED  BY <3>1, <3>3, <3>4, <3>5
  <2> HIDE DEF d
  <2>4. d.version \in Nat
    BY <2>1, KeyspaceAssumption DEF KeyspaceDoc
  <2>5. CASE req[s].st = "check"
    BY <2>1, <2>2, <2>5 DEF PInv, Checked, d
  <2>6. CASE req[s].st = "put"
    <3>1. CASE req[s].op # "publish"
      BY <2>6, <3>1 DEF Checked
    <3>2. CASE req[s].op = "publish"
      <4>1. PICK i \in began[s]..Len(versions[d.ks]) : Signed(d.ks, i, req[s].caller)
        BY <2>6, <3>2 DEF PInv, Checked, d
      <4>2. /\ i \in began[s]..Len(versions'[d.ks]) /\ i \in 1..Len(versions'[d.ks])
            /\ req[s].caller \in docs'[versions'[d.ks][i]].body.signers
        BY <2>1, <2>2, <2>3, <4>1
      <4> QED  BY <2>1, <2>6, <4>2 DEF Checked, Signed
    <3> QED  BY <3>1, <3>2
  <2>7. CASE req[s].st = "created"
    <3>1. CASE req[s].op # "publish"
      BY <2>7, <3>1 DEF Checked
    <3>2. CASE req[s].op = "publish"
      <4>1. /\ d.version \in 1..Len(versions[d.ks])
            /\ versions[d.ks][d.version] = d.parent
            /\ \E i \in began[s]..d.version : Signed(d.ks, i, req[s].caller)
        BY <2>7, <3>2 DEF PInv, Checked, d
      <4>2. PICK i \in began[s]..d.version : Signed(d.ks, i, req[s].caller)
        BY <4>1
      <4>3. /\ i \in 1..Len(versions'[d.ks])
            /\ req[s].caller \in docs'[versions'[d.ks][i]].body.signers
        BY <2>2, <2>3, <2>4, <4>2
      <4>4. /\ d.version \in 1..Len(versions'[d.ks])
            /\ versions'[d.ks][d.version] = d.parent
        BY <2>1, <2>2, <4>1
      <4> QED  BY <2>1, <2>7, <4>2, <4>3, <4>4 DEF Checked, Signed
    <3> QED  BY <3>1, <3>2
  <2> QED  BY <1>2, <2>5, <2>6, <2>7
<1> QED  BY <1>1, <1>2

(* A request that arrives notes how many versions there are. *)
LEMMA SubmitPublishes ==
    ASSUME PInv, NEW r \in Requests, NEW op \in {"create", "publish"},
           NEW k \in Keyspaces, NEW f \in Fps, NEW h \in Hash, NEW d \in KeyspaceDoc,
           Submit(r, op, k, f, h, d)
    PROVE  \A s \in Requests : Checked(s)'
<1>1. /\ \A g \in Hash : Written(g) => docs'[g] = docs[g]
      /\ docs'[h] = d
  BY DraftStable DEF PInv, IInv, TypeOK, RoutesTypeOK, Submit, Arrive
<1>2. UNCHANGED versions
  BY DEF Submit, store
<1>3. /\ \A s \in Requests : s # r => req'[s] = req[s] /\ began'[s] = began[s]
      /\ began'[r] = Len(versions[d.ks])
      /\ \/ req'[r] = Refused
         \/ req'[r] = Route("put", "create", f, h)
         \/ req'[r] = Route("check", "publish", f, h)
  BY DEF Submit, Arrive, PInv, IInv, TypeOK, RoutesTypeOK
<1>4. \A g \in Keyspaces : Len(versions[g]) \in Nat
  BY DEF PInv, IInv, TypeOK
<1>5. Checked(r)'
  <2>1. d.ks \in Keyspaces  BY DEF KeyspaceDoc
  <2> QED  BY <1>1, <1>2, <1>3, <1>4, <2>1 DEF Checked, Route, Refused
<1>6. ASSUME NEW s \in Requests, s # r PROVE Checked(s)'
  BY <1>1, <1>2, <1>3, <1>4, <1>6, StaysChecked
<1> QED  BY <1>5, <1>6

(* A publish that passes the check has a signer of the latest version for  *)
(* its caller, and that is the last of versions.                           *)
LEMMA CheckPublishes ==
    ASSUME PInv, NEW r \in Requests, NEW k \in Keyspaces, Check(r, k)
    PROVE  \A s \in Requests : Checked(s)'
<1>1. /\ UNCHANGED <<docs, versions, began>> /\ docs[req[r].hash].ks = k
      /\ req[r].st = "check"
      /\ \A s \in Requests : s # r => req'[s] = req[s]
      /\ \/ req'[r] = Refused
         \/ /\ req'[r] = [req[r] EXCEPT !.st = "put"]
            /\ latest[k] # NoHash /\ req[r].caller \in docs[latest[k]].body.signers
  BY DEF Check, CheckSigner, store, PInv, IInv, TypeOK, RoutesTypeOK
<1>2. req[r] \in [st : {"check", "put", "write", "created"}, op : {"create", "publish"},
                  caller : Fps, hash : {h \in Hash : Written(h)}]
  BY <1>1, NamesDoc DEF PInv
<1>3. \A g \in Keyspaces : Len(versions[g]) \in Nat
  BY DEF PInv, IInv, TypeOK
<1>4. Checked(r)'
  <2>1. CASE req'[r] = Refused
    BY <2>1 DEF Checked, Refused
  <2>2. CASE /\ req'[r] = [req[r] EXCEPT !.st = "put"]
             /\ latest[k] # NoHash /\ req[r].caller \in docs[latest[k]].body.signers
    <3>1. /\ req'[r].st = "put" /\ req'[r].hash = req[r].hash
          /\ req'[r].caller = req[r].caller
      BY <1>2, <2>2
    <3>2. versions[k] # <<>> /\ latest[k] = versions[k][Len(versions[k])]
      BY <2>2 DEF PInv, IInv, StoreConsistent
    <3>3. Len(versions[k]) \in 1..Len(versions[k])
      BY <1>3, <3>2 DEF PInv, IInv, TypeOK
    <3>4. Signed(k, Len(versions[k]), req[r].caller)
      BY <2>2, <3>2, <3>3 DEF Signed
    <3>5. began[r] \in Nat /\ began[r] <= Len(versions[k])
      BY <1>1 DEF PInv, IInv, TypeOK, Checked
    <3>6. Len(versions[k]) \in began[r]..Len(versions[k])
      BY <1>3, <3>5
    <3>7. Signed(k, Len(versions[k]), req[r].caller)'
      BY <1>1, <3>1, <3>4 DEF Signed
    <3> QED  BY <1>1, <3>1, <3>6, <3>7 DEF Checked
  <2> QED  BY <1>1, <2>1, <2>2
<1>5. ASSUME NEW s \in Requests, s # r PROVE Checked(s)'
  BY <1>1, <1>3, <1>5, StaysChecked
<1> QED  BY <1>4, <1>5

(* A put that is accepted stores its document behind the version it names, *)
(* and the version its caller was checked against is not a later one.      *)
LEMMA PutPublishes ==
    ASSUME PInv, NEW r \in Requests, Put(r)
    PROVE  \A s \in Requests : Checked(s)'
<1> DEFINE h == req[r].hash
           k == docs[h].ks
<1>1. /\ h \in Hash /\ Written(h) /\ docs[h] \in KeyspaceDoc /\ k \in Keyspaces
      /\ UNCHANGED <<docs, began>> /\ req[r].st = "put"
      /\ req[r] \in [st : {"check", "put", "write", "created"}, op : {"create", "publish"},
                      caller : Fps, hash : {g \in Hash : Written(g)}]
      /\ began[r] \in Nat
  BY NamesDoc DEF Put, PInv, IInv, TypeOK
<1>2. \A g \in Keyspaces : versions[g] \in Seq(Hash) /\ Len(versions[g]) \in Nat
  BY DEF PInv, IInv, TypeOK
<1>3. \A s \in Requests : s # r => req'[s] = req[s]
  BY DEF Put, Answer, PInv, IInv, TypeOK, RoutesTypeOK
<1>4. CASE ~ validate_chain(versions[k], docs[h])
  <2>1. UNCHANGED versions /\ req'[r] = Refused
    BY <1>4 DEF Put, Answer, store, PInv, IInv, TypeOK, RoutesTypeOK
  <2>2. Checked(r)'
    BY <2>1 DEF Checked, Refused
  <2>3. ASSUME NEW s \in Requests, s # r PROVE Checked(s)'
    BY <1>1, <1>2, <1>3, <2>1, <2>3, StaysChecked
  <2> QED  BY <2>2, <2>3
<1>5. CASE validate_chain(versions[k], docs[h])
  <2>1. docs[h].version = Len(versions[k]) /\ docs[h].parent = latest[k]
    BY <1>1, <1>5, AcceptedIsFresh DEF PInv
  <2>2. /\ versions' = [versions EXCEPT ![k] = Append(versions[k], h)]
        /\ req'[r] = [req[r] EXCEPT !.st = "created"]
    BY <1>5 DEF Put, Store, Answer, PInv, IInv, TypeOK, RoutesTypeOK
  <2>3. /\ req'[r].st = "created" /\ req'[r].op = req[r].op
        /\ req'[r].hash = h /\ req'[r].caller = req[r].caller
    BY <1>1, <2>2
  <2>4. /\ versions'[k] = Append(versions[k], h)
        /\ \A g \in Keyspaces : g # k => versions'[g] = versions[g]
    BY <1>1, <2>2 DEF PInv, IInv, TypeOK
  <2>5. docs[h].version \in Nat
    BY <1>1, KeyspaceAssumption DEF KeyspaceDoc
  <2>6. versions[k] # <<>> => docs[h].parent = versions[k][Len(versions[k])]
    BY <1>1, <2>1 DEF PInv, IInv, StoreConsistent
  <2> HIDE DEF h, k
  <2>7. /\ Len(versions'[k]) = Len(versions[k]) + 1
        /\ \A i \in 1..Len(versions[k]) : versions'[k][i] = versions[k][i]
    BY <1>1, <1>2, <2>4, AppendFacts
  <2>8. \A g \in Keyspaces : /\ Len(versions[g]) <= Len(versions'[g])
                             /\ Len(versions'[g]) \in Nat
                             /\ \A i \in 1..Len(versions[g]) :
                                  versions'[g][i] = versions[g][i]
    BY <1>2, <2>4, <2>7
  <2>9. Checked(r)'
    <3>1. CASE req[r].op # "publish"
      BY <2>3, <3>1 DEF Checked
    <3>2. CASE req[r].op = "publish"
      <4>1. PICK i \in began[r]..Len(versions[k]) : Signed(k, i, req[r].caller)
        BY <1>1, <3>2 DEF PInv, Checked, h, k
      <4>2. i \in 1..Len(versions[k])
        BY <4>1 DEF Signed
      <4>3. versions[k] # <<>>
        BY <1>1, <1>2, <4>2
      <4>4. /\ docs[h].version \in 1..Len(versions'[k])
            /\ versions'[k][docs[h].version] = docs[h].parent
            /\ i \in began[r]..docs[h].version
        BY <1>1, <1>2, <2>1, <2>6, <2>7, <4>1, <4>2, <4>3
      <4>5. i \in 1..Len(versions'[k]) /\ versions'[k][i] = versions[k][i]
        BY <1>1, <1>2, <2>7, <4>2
      <4>6. req'[r].caller \in docs'[versions'[k][i]].body.signers
        BY <1>1, <2>3, <4>1, <4>5 DEF Signed
      <4>7. docs'[req'[r].hash] = docs[h] /\ docs[h].ks = k /\ began'[r] = began[r]
        BY <1>1, <2>3 DEF k
      <4> QED  BY <2>3, <4>4, <4>5, <4>6, <4>7 DEF Checked, Signed
    <3> QED  BY <3>1, <3>2
  <2>10. ASSUME NEW s \in Requests, s # r PROVE Checked(s)'
    BY <1>1, <1>3, <2>8, <2>10, StaysChecked
  <2> QED  BY <2>9, <2>10
<1> QED  BY <1>4, <1>5

(* The caller of every answered publish could sign rotations on a version  *)
(* that was the latest while the request was handled, and the document     *)
(* stands directly after the version it names: for any number of requests, *)
(* although the check and the put are separate accesses to the store.      *)
THEOREM PublishersSign == Spec => []PublisherWasSigner
<1>1. PInv /\ [Next]_vars => PInv'
  <2> SUFFICES ASSUME PInv, [Next]_vars PROVE PInv'  OBVIOUS
  <2>1. IInv'  BY NextIInv DEF PInv
  <2>2. CASE Next
    BY <2>1, <2>2, SubmitPublishes, CheckPublishes, PutPublishes DEF Next, PInv
  <2>3. CASE UNCHANGED vars
    <3>1. \A r \in Requests : Checked(r)'
      BY <2>3 DEF vars, PInv, Checked, Signed
    <3> QED  BY <2>1, <3>1 DEF PInv
  <2> QED  BY <2>2, <2>3
<1>2. PInv => PublisherWasSigner
  BY DEF PInv, Checked, PublisherWasSigner, Created
<1> QED  BY InitPInv, <1>1, <1>2, PTL DEF Spec
=============================================================================
