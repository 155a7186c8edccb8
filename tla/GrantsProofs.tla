----------------------------- MODULE GrantsProofs -----------------------------
(***************************************************************************)
(* What Grants guarantees for every set of accounts, grants, member lists  *)
(* and requests, for both stores.                                          *)
(*                                                                         *)
(* None of the three invariants is inductive.  A step that stores a grant  *)
(* no longer looks at the keyspace, and one that takes it away no longer   *)
(* looks at its issuer, so IInv says what is still true of what a request  *)
(* has checked: a delegate of some version issues (Checked), the issuer of *)
(* the id revokes (RevokerIsIssuer), and in SQLite an id under revocation  *)
(* is a row, active or revoked and never both (RowsApart).                 *)
(***************************************************************************)
EXTENDS Grants, TLAPS

Issuing == [st : {"check", "issue"}, body : Bodies, id : GrantId]
Issued == [st : {"issued"}, body : Bodies, id : GrantId, at : Nat]
Revoking == [st : {"revoke", "revoked"}, caller : Fps, id : GrantId]

(* The variables have their types; a request that issues carries the id of *)
(* its own grant.                                                          *)
TypeOK ==
    /\ backend \in {"memory", "sqlite"}
    /\ now \in 0..MaxSecond
    /\ versions \in Seq(Memberships)
    /\ active \subseteq GrantId
    /\ revoked \subseteq GrantId
    /\ req \in [Requests -> {Idle, Refused} \union Issuing \union Issued \union Revoking]
    /\ \A r \in Requests : req[r].st \in {"check", "issue", "issued"} =>
          \E s \in 0..MaxSecond : req[r].id = grant_id(req[r].body, s)

(* The issuer of an id held Delegate at the version it names or later.     *)
Delegated(id) ==
    \E v \in (id.body.keyspace_version + 1)..Len(versions) :
        "delegate" \in versions[v][id.body.issuer]

Checked == \A r \in Requests : req[r].st = "issue" => Delegated(req[r].id)

RevokerIsIssuer ==
    \A r \in Requests : req[r].st \in {"revoke", "revoked"} =>
        req[r].caller = req[r].id.body.issuer

RowsApart ==
    backend = "sqlite" =>
        /\ active \intersect revoked = {}
        /\ \A r \in Requests : req[r].st = "revoke" => Taken(req[r].id)
        /\ \A r \in Requests : req[r].st = "revoked" => req[r].id \in revoked

IInv ==
    /\ TypeOK
    /\ Checked
    /\ RevokerIsIssuer
    /\ RowsApart
    /\ IssuedByDelegate
    /\ GoneByIssuer
    /\ RevokedStaysRevoked

-----------------------------------------------------------------------------
(* The canonical bytes keep the issuer and the version of a grant. *)
LEMMA GrantIdKeeps ==
    ASSUME NEW g \in Bodies, NEW s
    PROVE  /\ grant_id(g, s).body.issuer = g.issuer
           /\ grant_id(g, s).body.keyspace_version = g.keyspace_version
           /\ g.issuer \in Fps
           /\ g.keyspace_version \in Nat
BY GrantsAssumption DEF grant_id

(* Every id has the issuer and the version of some grant. *)
LEMMA GrantIdType ==
    ASSUME NEW id \in GrantId
    PROVE  id.body.issuer \in Fps /\ id.body.keyspace_version \in Nat
<1>1. PICK g \in Bodies, s \in 0..MaxSecond : id = grant_id(g, s)
  BY DEF GrantId
<1>. QED
  BY <1>1, GrantIdKeeps

(* A keyspace only grows, so what a delegate was it has been for good. *)
LEMMA DelegatedStays ==
    ASSUME versions \in Seq(Memberships), NEW m \in Memberships,
           versions' = Append(versions, m)
    PROVE  \A id \in GrantId : Delegated(id) => Delegated(id)'
<1> SUFFICES ASSUME NEW id \in GrantId, Delegated(id)
             PROVE  Delegated(id)'
  OBVIOUS
<1>1. Len(versions) <= Len(versions') /\ \A v \in 1..Len(versions) : versions'[v] = versions[v]
  OBVIOUS
<1>2. PICK v \in (id.body.keyspace_version + 1)..Len(versions) :
         "delegate" \in versions[v][id.body.issuer]
  BY DEF Delegated
<1>3. id.body.keyspace_version \in Nat
  BY GrantIdType
<1>4. v \in (id.body.keyspace_version + 1)..Len(versions') /\ versions'[v] = versions[v]
  BY <1>1, <1>2, <1>3
<1>. QED
  BY <1>2, <1>4 DEF Delegated

(* MayIssue makes the issuer a delegate of the latest version. *)
LEMMA MayIssueDelegates ==
    ASSUME NEW g \in Bodies, NEW s, MayIssue(g), versions \in Seq(Memberships)
    PROVE  Delegated(grant_id(g, s))
<1>1. Len(versions) \in (g.keyspace_version + 1)..Len(versions)
  BY GrantIdKeeps DEF MayIssue
<1>. QED
  BY <1>1, GrantIdKeeps DEF Delegated, MayIssue, Latest

-----------------------------------------------------------------------------
(* An empty server satisfies the invariant. *)
LEMMA InitIInv == Init => IInv
<1> SUFFICES ASSUME Init PROVE IInv
  OBVIOUS
<1>1. \A r \in Requests : req[r] = Idle
  BY DEF Init
<1>2. TypeOK
  BY <1>1, GrantsAssumption DEF Init, TypeOK, Idle
<1>. QED
  BY <1>1, <1>2 DEF Init, IInv, Checked, RevokerIsIssuer, RowsApart, IssuedByDelegate,
     GoneByIssuer, RevokedStaysRevoked, Idle

(* A step that only moves one request on to a stage at which it is owed    *)
(* nothing but what the hypotheses say.                                    *)
LEMMA RequestStep ==
    ASSUME IInv, NEW r \in Requests,
           UNCHANGED <<backend, now, versions, active, revoked>>,
           req[r].st \in {"idle", "check"},
           \A q \in Requests \ {r} : req'[q] = req[q],
           req' \in [Requests -> {Idle, Refused} \union Issuing \union Issued \union Revoking],
           req'[r].st \in {"check", "issue"} =>
               \E s \in 0..MaxSecond : req'[r].id = grant_id(req'[r].body, s),
           req'[r].st = "issue" => Delegated(req'[r].id),
           req'[r].st = "revoke" =>
               req'[r].id \in active /\ req'[r].caller = req'[r].id.body.issuer,
           req'[r].st \in {"idle", "refused", "check", "issue", "revoke"}
    PROVE  IInv'
<1>1. TypeOK'
  BY DEF IInv, TypeOK
<1>2. Checked'
  BY DEF IInv, Checked, Delegated
<1>3. RevokerIsIssuer'
  BY DEF IInv, RevokerIsIssuer
<1>4. RowsApart'
  BY DEF IInv, RowsApart, Taken
<1>5. IssuedByDelegate'
  BY DEF IInv, IssuedByDelegate
<1>6. GoneByIssuer'
  BY DEF IInv, GoneByIssuer
<1>7. RevokedStaysRevoked'
  BY DEF IInv, RevokedStaysRevoked
<1>. QED
  BY <1>1, <1>2, <1>3, <1>4, <1>5, <1>6, <1>7 DEF IInv

(* issue_grant stamps the grant. *)
LEMMA SubmitIssueStep ==
    ASSUME IInv, NEW r \in Requests, NEW g \in Bodies, NEW f \in Fps,
           NEW s \in 0..MaxSecond, SubmitIssue(r, g, f, s)
    PROVE  IInv'
<1>1. PICK x \in Issuing \union {Refused} :
        /\ req' = [req EXCEPT ![r] = x]
        /\ x = Refused \/ x = [st |-> "check", body |-> g, id |-> grant_id(g, now)]
  <2>1. now \in 0..MaxSecond
    BY DEF IInv, TypeOK
  <2>2. [st |-> "check", body |-> g, id |-> grant_id(g, now)] \in Issuing
    BY <2>1 DEF Issuing, GrantId
  <2>. QED
    BY <2>2 DEF SubmitIssue
<1>2. req[r].st = "idle" /\ req'[r] = x
  BY <1>1 DEF SubmitIssue, Idle, IInv, TypeOK
<1>3. req' \in [Requests -> {Idle, Refused} \union Issuing \union Issued \union Revoking]
  BY <1>1 DEF IInv, TypeOK
<1>4. x.st \in {"refused", "check"}
  BY <1>1 DEF Refused
<1>5. x.st = "check" => \E t \in 0..MaxSecond : x.id = grant_id(x.body, t)
  BY <1>1 DEF Refused, IInv, TypeOK
<1>. QED
  BY <1>1, <1>2, <1>3, <1>4, <1>5, RequestStep DEF SubmitIssue, IInv, TypeOK

(* issue_grant reads the latest version. *)
LEMMA CheckIssuerStep ==
    ASSUME IInv, NEW r \in Requests, CheckIssuer(r)
    PROVE  IInv'
<1>1. req[r] \in Issuing /\ req[r].st = "check"
  BY DEF CheckIssuer, IInv, TypeOK, Idle, Refused, Issued, Revoking
<1>2. PICK s \in 0..MaxSecond : req[r].id = grant_id(req[r].body, s)
  BY <1>1 DEF IInv, TypeOK
<1>3. CASE MayIssue(req[r].body)
  <2>1. req' = [req EXCEPT ![r] = [req[r] EXCEPT !.st = "issue"]]
    BY <1>3 DEF CheckIssuer
  <2>2. [req[r] EXCEPT !.st = "issue"] \in Issuing
    BY <1>1 DEF Issuing
  <2>3. /\ req'[r].st = "issue" /\ req'[r].id = req[r].id /\ req'[r].body = req[r].body
        /\ req' \in [Requests -> {Idle, Refused} \union Issuing \union Issued \union Revoking]
    BY <1>1, <2>1, <2>2 DEF IInv, TypeOK, Issuing
  <2>4. Delegated(req[r].id)
    BY <1>1, <1>2, <1>3, MayIssueDelegates DEF Issuing, IInv, TypeOK
  <2>. QED
    BY <1>1, <1>2, <2>1, <2>3, <2>4, RequestStep DEF CheckIssuer, IInv, TypeOK
<1>4. CASE ~ MayIssue(req[r].body)
  <2>1. req' = [req EXCEPT ![r] = Refused]
    BY <1>4 DEF CheckIssuer
  <2>2. /\ req'[r].st = "refused"
        /\ req' \in [Requests -> {Idle, Refused} \union Issuing \union Issued \union Revoking]
    BY <2>1 DEF IInv, TypeOK, Refused
  <2>. QED
    BY <1>1, <2>1, <2>2, RequestStep DEF CheckIssuer, IInv, TypeOK
<1>. QED
  BY <1>3, <1>4

(* revoke_grant reads the grant. *)
LEMMA SubmitRevokeStep ==
    ASSUME IInv, NEW r \in Requests, NEW id \in GrantId, NEW f \in Fps,
           SubmitRevoke(r, id, f)
    PROVE  IInv'
<1>1. PICK x \in Revoking \union {Refused} :
        /\ req' = [req EXCEPT ![r] = x]
        /\ \/ x = Refused
           \/ /\ x = [st |-> "revoke", caller |-> f, id |-> id]
              /\ id \in active /\ id.body.issuer = f
  BY DEF SubmitRevoke, Revoking
<1>2. req[r].st = "idle" /\ req'[r] = x
  BY <1>1 DEF SubmitRevoke, Idle, IInv, TypeOK
<1>3. req' \in [Requests -> {Idle, Refused} \union Issuing \union Issued \union Revoking]
  BY <1>1 DEF IInv, TypeOK
<1>4. /\ x.st \in {"refused", "revoke"}
      /\ x.st = "revoke" => x.id \in active /\ x.caller = x.id.body.issuer
  BY <1>1 DEF Refused
<1>. QED
  BY <1>1, <1>2, <1>3, <1>4, RequestStep DEF SubmitRevoke, IInv, TypeOK

(* The store takes the grant, or refuses an id it has or has revoked.       *)
LEMMA IssueStep ==
    ASSUME IInv, NEW r \in Requests, Issue(r)
    PROVE  IInv'
<1> DEFINE id == req[r].id
           new == [st |-> "issued", body |-> req[r].body, id |-> id, at |-> Len(versions)]
<1>1. req[r] \in Issuing /\ req[r].st = "issue" /\ id \in GrantId /\ Delegated(id)
  <2>1. req[r] \in Issuing
    BY DEF Issue, IInv, TypeOK, Idle, Refused, Issued, Revoking
  <2>. QED
    BY <2>1 DEF Issue, Issuing, IInv, Checked
<1>2. CASE Taken(id)
  <2>1. req' = [req EXCEPT ![r] = Refused] /\ active' = active
    BY <1>2 DEF Issue
  <2>2. /\ req'[r].st = "refused" /\ \A q \in Requests \ {r} : req'[q] = req[q]
        /\ req' \in [Requests -> {Idle, Refused} \union Issuing \union Issued \union Revoking]
    BY <2>1 DEF IInv, TypeOK, Refused
  <2>3. TypeOK'
    BY <2>1, <2>2 DEF IInv, TypeOK, Issue
  <2>. QED
    BY <1>1, <2>1, <2>2, <2>3 DEF Issue, IInv, Checked, Delegated, RevokerIsIssuer, RowsApart,
       Taken, IssuedByDelegate, GoneByIssuer, RevokedStaysRevoked
<1>3. CASE ~ Taken(id)
  <2>1. req' = [req EXCEPT ![r] = new] /\ active' = active \union {id}
    BY <1>3 DEF Issue
  <2>2. new \in Issued
    BY <1>1 DEF Issued, Issuing, IInv, TypeOK
  <2>3. /\ req'[r] = new /\ \A q \in Requests \ {r} : req'[q] = req[q]
        /\ req' \in [Requests -> {Idle, Refused} \union Issuing \union Issued \union Revoking]
    BY <2>1, <2>2 DEF IInv, TypeOK
  <2>4. UNCHANGED <<backend, now, versions, revoked>>
    BY DEF Issue
  <2>5. TypeOK'
    BY <1>1, <2>1, <2>3, <2>4 DEF IInv, TypeOK
  <2>6. Checked'
    BY <2>3, <2>4 DEF IInv, Checked, Delegated
  <2>7. RevokerIsIssuer'
    BY <2>3 DEF IInv, RevokerIsIssuer
  <2>8. RowsApart'
    BY <1>3, <2>1, <2>3, <2>4 DEF IInv, RowsApart, Taken
  <2>9. IssuedByDelegate'
    BY <1>1, <2>1, <2>4 DEF IInv, IssuedByDelegate, Delegated
  <2>10. GoneByIssuer'
    BY <1>1, <2>1, <2>3 DEF IInv, GoneByIssuer
  <2>11. RevokedStaysRevoked'
    BY <1>3, <2>1, <2>3, <2>4 DEF IInv, RevokedStaysRevoked, RowsApart, Taken
  <2>. QED
    BY <2>5, <2>6, <2>7, <2>8, <2>9, <2>10, <2>11 DEF IInv
<1>. QED
  BY <1>2, <1>3

(* The store revokes: what leaves the active rows is the id of a request   *)
(* of its issuer, and in SQLite it stays among the revoked ones.           *)
LEMMA RevokeStep ==
    ASSUME IInv, NEW r \in Requests, Revoke(r)
    PROVE  IInv'
<1> DEFINE id == req[r].id
           done == [req[r] EXCEPT !.st = "revoked"]
<1>1. req[r] \in Revoking /\ req[r].st = "revoke" /\ id \in GrantId
  <2>1. req[r] \in Revoking
    BY DEF Revoke, IInv, TypeOK, Idle, Refused, Issued, Issuing
  <2>. QED
    BY <2>1 DEF Revoke, Revoking
<1>2. req' = [req EXCEPT ![r] = done] /\ UNCHANGED <<backend, now, versions>>
  BY DEF Revoke
<1>3. /\ done \in Revoking /\ done.st = "revoked" /\ done.id = id
      /\ done.caller = req[r].caller
  BY <1>1 DEF Revoking
<1>4. /\ req'[r] = done /\ \A q \in Requests \ {r} : req'[q] = req[q]
      /\ req' \in [Requests -> {Idle, Refused} \union Issuing \union Issued \union Revoking]
  BY <1>2, <1>3 DEF IInv, TypeOK
<1>5. /\ active' = active \ {id}
      /\ backend = "sqlite" => revoked' = revoked \union {id}
      /\ revoked' \subseteq revoked \union {id}
  BY <1>1 DEF Revoke, IInv, RowsApart
<1>6. TypeOK'
  BY <1>1, <1>2, <1>3, <1>4, <1>5 DEF IInv, TypeOK
<1>7. Checked'
  BY <1>2, <1>3, <1>4 DEF IInv, Checked, Delegated
<1>8. RevokerIsIssuer'
  <2>1. done.caller = done.id.body.issuer
    BY <1>1, <1>3 DEF IInv, RevokerIsIssuer
  <2>. QED
    BY <1>4, <2>1 DEF IInv, RevokerIsIssuer
<1>9. RowsApart'
  BY <1>2, <1>3, <1>4, <1>5 DEF IInv, RowsApart, Taken
<1>10. IssuedByDelegate'
  BY <1>2, <1>5 DEF IInv, IssuedByDelegate
<1>11. GoneByIssuer'
  <2> SUFFICES ASSUME NEW q \in Requests, req'[q].st = "issued", req'[q].id \notin active'
               PROVE  \E p \in Requests : /\ req'[p].st = "revoked" /\ req'[p].id = req'[q].id
                                          /\ req'[p].caller = req'[q].body.issuer
    BY DEF GoneByIssuer
  <2>1. q # r /\ req'[q] = req[q]
    BY <1>3, <1>4
  <2>2. CASE req[q].id \notin active
    <3>1. PICK p \in Requests : /\ req[p].st = "revoked" /\ req[p].id = req[q].id
                                /\ req[p].caller = req[q].body.issuer
      BY <2>1, <2>2 DEF IInv, GoneByIssuer
    <3>. QED
      BY <1>1, <1>4, <2>1, <3>1
  <2>3. CASE req[q].id = id
    <3>1. id.body.issuer = req[q].body.issuer
      <4>1. req[q] \in Issued
        BY <2>1 DEF IInv, TypeOK, Idle, Refused, Issuing, Revoking
      <4>2. PICK s \in 0..MaxSecond : req[q].id = grant_id(req[q].body, s)
        BY <2>1 DEF IInv, TypeOK
      <4>. QED
        BY <2>3, <4>1, <4>2, GrantIdKeeps DEF Issued
    <3>2. req[r].caller = id.body.issuer
      BY <1>1 DEF IInv, RevokerIsIssuer
    <3>. QED
      BY ZenonT(60), <1>3, <1>4, <2>1, <2>3, <3>1, <3>2
  <2>. QED
    BY <1>5, <2>1, <2>2, <2>3
<1>12. RevokedStaysRevoked'
  BY <1>2, <1>3, <1>4, <1>5 DEF IInv, RevokedStaysRevoked
<1>. QED
  BY <1>6, <1>7, <1>8, <1>9, <1>10, <1>11, <1>12 DEF IInv

(* The keyspace publishes a version. *)
LEMMA PublishStep ==
    ASSUME IInv, NEW m \in Memberships, Publish(m)
    PROVE  IInv'
<1>1. versions' = Append(versions, m) /\ UNCHANGED <<backend, now, active, revoked, req>>
  BY DEF Publish
<1>2. versions \in Seq(Memberships) /\ active \subseteq GrantId
  BY DEF IInv, TypeOK
<1>3. TypeOK'
  BY <1>1, <1>2 DEF IInv, TypeOK
<1>4. Checked'
  <2>1. \A r \in Requests : req[r].st = "issue" => req[r].id \in GrantId
    BY DEF IInv, TypeOK, Idle, Refused, Issuing, Issued, Revoking
  <2>. QED
    BY <1>1, <1>2, <2>1, DelegatedStays DEF IInv, Checked, Delegated
<1>5. IssuedByDelegate'
  BY <1>1, <1>2, DelegatedStays DEF IInv, IssuedByDelegate, Delegated
<1>. QED
  BY <1>1, <1>3, <1>4, <1>5 DEF IInv, RevokerIsIssuer, RowsApart, Taken, GoneByIssuer,
     RevokedStaysRevoked

(* The clock moves. *)
LEMMA TickStep == IInv /\ Tick => IInv'
<1> SUFFICES ASSUME IInv, Tick PROVE IInv'
  OBVIOUS
<1>1. UNCHANGED <<backend, versions, active, revoked, req>> /\ now' \in 0..MaxSecond
  BY GrantsAssumption DEF Tick, IInv, TypeOK
<1>2. TypeOK'
  BY <1>1 DEF IInv, TypeOK
<1>. QED
  BY <1>1, <1>2 DEF IInv, Checked, Delegated, RevokerIsIssuer, RowsApart, Taken,
     IssuedByDelegate, GoneByIssuer, RevokedStaysRevoked

(* No step leaves the invariant. *)
LEMMA NextIInv == IInv /\ [Next]_vars => IInv'
<1> SUFFICES ASSUME IInv, [Next]_vars PROVE IInv'
  OBVIOUS
<1>1. CASE UNCHANGED vars
  BY <1>1 DEF vars, IInv, TypeOK, Checked, Delegated, RevokerIsIssuer, RowsApart, Taken,
     IssuedByDelegate, GoneByIssuer, RevokedStaysRevoked
<1>2. CASE Next
  BY <1>2, SubmitIssueStep, CheckIssuerStep, IssueStep, SubmitRevokeStep, RevokeStep,
     PublishStep, TickStep DEF Next
<1>. QED
  BY <1>1, <1>2

-----------------------------------------------------------------------------
(* The invariant holds in every reachable state. *)
LEMMA Inductive == Spec => []IInv
BY InitIInv, NextIInv, PTL DEF Spec

(* The variables keep their types, and a request the id of its grant.      *)
THEOREM TypeCorrect == Spec => []TypeOK
<1>1. IInv => TypeOK
  BY DEF IInv
<1>. QED
  BY <1>1, Inductive, PTL

(* For any number of requests and versions: whoever issued a grant that    *)
(* can be read held Delegate at the version it names or a later one,       *)
(* although issue_grant checks the keyspace before it stores the grant.    *)
THEOREM IssuersDelegate == Spec => []IssuedByDelegate
<1>1. IInv => IssuedByDelegate
  BY DEF IInv
<1>. QED
  BY <1>1, Inductive, PTL

(* For both stores: an issued grant that is gone was revoked by its issuer.*)
THEOREM OnlyIssuersRevoke == Spec => []GoneByIssuer
<1>1. IInv => GoneByIssuer
  BY DEF IInv
<1>. QED
  BY <1>1, Inductive, PTL

(* In SQLite no issue, however it interleaves, brings a revoked id back.   *)
THEOREM RevocationIsFinal == Spec => []RevokedStaysRevoked
<1>1. IInv => RevokedStaysRevoked
  BY DEF IInv
<1>. QED
  BY <1>1, Inductive, PTL
=============================================================================
