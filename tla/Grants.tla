-------------------------------- MODULE Grants --------------------------------
(***************************************************************************)
(* Grants within one keyspace: issue_grant and revoke_grant of             *)
(* routes/keyspaces.rs over InMemoryGrantStore or SqliteGrantStore, while  *)
(* the keyspace goes on publishing versions.                               *)
(*                                                                         *)
(* A route reads, checks, and calls the store; other requests run in       *)
(* between.  Each call of a store is one step (a lock, or one database     *)
(* call).  Of the keyspace the model keeps the permissions of its members, *)
(* version by version (the chain that KeyspaceMemory implements).          *)
(***************************************************************************)
EXTENDS Integers, Sequences

CONSTANTS
    Fps,           \* fingerprints of registered accounts
    Bodies,        \* AccessGrant as sent, without created_at
    Memberships,   \* the member lists a version may have: Fps -> permissions
    Never,         \* expires_at: None
    Requests,      \* requests to the two writing routes, each handled once
    MaxVersion,    \* bound on the versions published
    MaxSecond      \* bound on the server's clock

Permission == {"read", "write", "delegate", "admin", "sign_rotation"}

ASSUME GrantsAssumption ==
    /\ Bodies \subseteq [keyspace_version : Nat, subject : Fps, issuer : Fps,
                         permissions : SUBSET Permission, expires_at : Nat \union {Never}]
    /\ Memberships \subseteq [Fps -> SUBSET Permission]
    /\ Never \notin Nat
    /\ MaxVersion \in Nat /\ MaxSecond \in Nat

VARIABLES
    backend,   \* which GrantStore runs, SqliteGrantStore or InMemoryGrantStore
    now,       \* SystemTime, in seconds
    versions,  \* the member permissions of each version of the keyspace
    active,    \* ids that get and the lists return
    revoked,   \* ids of rows with revoked = 1; stays empty in memory
    req

vars == <<backend, now, versions, active, revoked, req>>

(* GrantId::from_grant: the canonical bytes hold every field, the server's *)
(* second included, and write expires_at as a number, 0 for None.          *)
grant_id(g, s) ==
    [body |-> [g EXCEPT !.expires_at = IF @ = Never THEN 0 ELSE @], created_at |-> s]

GrantId == {grant_id(g, s) : g \in Bodies, s \in 0..MaxSecond}

Idle == [st |-> "idle"]
Refused == [st |-> "refused"]
Init ==
    /\ backend \in {"memory", "sqlite"}
    /\ now = 0
    /\ versions = <<>>
    /\ active = {}
    /\ revoked = {}
    /\ req = [r \in Requests |-> Idle]

Latest == versions[Len(versions)]

(* issue_grant, up to its first store access: the server stamps the grant, *)
(* and the caller, who must be the issuer, has signed the id with the      *)
(* second s it expected the server to stamp.                               *)
SubmitIssue(r, g, f, s) ==
    /\ req[r] = Idle
    /\ req' = [req EXCEPT ![r] =
                 IF s = now /\ g.issuer = f
                 THEN [st |-> "check", body |-> g, id |-> grant_id(g, now)]
                 ELSE Refused]
    /\ UNCHANGED <<backend, now, versions, active, revoked>>

(* Mutant: any permission will do. *)
MayIssueMember(g) ==
    /\ versions # <<>>
    /\ g.keyspace_version <= Len(versions) - 1
    /\ Latest[g.issuer] # {}

(* The latest version exists, is not older than the grant says, and lists  *)
(* the issuer with Delegate.                                               *)
MayIssue(g) ==
    /\ versions # <<>>
    /\ g.keyspace_version <= Len(versions) - 1
    /\ "delegate" \in Latest[g.issuer]

CheckIssuer(r) ==
    /\ req[r].st = "check"
    /\ req' = [req EXCEPT ![r] =
                 IF MayIssue(req[r].body) THEN [@ EXCEPT !.st = "issue"] ELSE Refused]
    /\ UNCHANGED <<backend, now, versions, active, revoked>>

(* Mutant: a revoked row does not hold its primary key. *)
TakenActive(id) == id \in active

(* An id whose grant is stored is refused; so is, in SQLite, the id of a   *)
(* revoked row, which still holds the primary key.                         *)
Taken(id) == id \in active \union revoked

(* at: the version that is current when the grant is stored.               *)
Issue(r) ==
    /\ req[r].st = "issue"
    /\ LET q == req[r] IN
       IF Taken(q.id)
       THEN req' = [req EXCEPT ![r] = Refused] /\ UNCHANGED active
       ELSE /\ active' = active \union {q.id}
            /\ req' = [req EXCEPT ![r] = [st |-> "issued", body |-> q.body,
                                          id |-> q.id, at |-> Len(versions)]]
    /\ UNCHANGED <<backend, now, versions, revoked>>

(* Mutant: the subject may revoke as well. *)
SubmitRevokeSubject(r, id, f) ==
    /\ req[r] = Idle
    /\ req' = [req EXCEPT ![r] =
                 IF id \in active /\ f \in {id.body.issuer, id.body.subject}
                 THEN [st |-> "revoke", caller |-> f, id |-> id] ELSE Refused]
    /\ UNCHANGED <<backend, now, versions, active, revoked>>

(* revoke_grant up to the store's revoke: the grant exists, and the caller *)
(* is its issuer.                                                          *)
SubmitRevoke(r, id, f) ==
    /\ req[r] = Idle
    /\ req' = [req EXCEPT ![r] =
                 IF id \in active /\ id.body.issuer = f
                 THEN [st |-> "revoke", caller |-> f, id |-> id] ELSE Refused]
    /\ UNCHANGED <<backend, now, versions, active, revoked>>

(* The store's revoke, idempotent: remove, or set revoked = 1. *)
Revoke(r) ==
    /\ req[r].st = "revoke"
    /\ active' = active \ {req[r].id}
    /\ revoked' = IF backend = "sqlite" /\ Taken(req[r].id)
                  THEN revoked \union {req[r].id} ELSE revoked
    /\ req' = [req EXCEPT ![r].st = "revoked"]
    /\ UNCHANGED <<backend, now, versions>>

Publish(m) ==
    /\ Len(versions) <= MaxVersion
    /\ versions' = Append(versions, m)
    /\ UNCHANGED <<backend, now, active, revoked, req>>

Tick ==
    /\ now < MaxSecond
    /\ now' = now + 1
    /\ UNCHANGED <<backend, versions, active, revoked, req>>

Next ==
    \/ \E r \in Requests, g \in Bodies, f \in Fps, s \in 0..MaxSecond :
         SubmitIssue(r, g, f, s)
    \/ \E r \in Requests : CheckIssuer(r) \/ Issue(r) \/ Revoke(r)
    \/ \E r \in Requests, id \in GrantId, f \in Fps : SubmitRevoke(r, id, f)
    \/ \E m \in Memberships : Publish(m)
    \/ Tick

Spec == Init /\ [][Next]_vars
-----------------------------------------------------------------------------
(* However requests and publications interleave, the issuer of a grant     *)
(* that can be read held Delegate at the version the grant names or at a   *)
(* later one that exists.                                                  *)
IssuedByDelegate ==
    \A id \in active :
        \E v \in (id.body.keyspace_version + 1)..Len(versions) :
            "delegate" \in versions[v][id.body.issuer]

(* A grant that was issued and is gone was taken back by its issuer: no    *)
(* request of another account, and no second issue of the id, removes it.  *)
GoneByIssuer ==
    \A r \in Requests : req[r].st = "issued" /\ req[r].id \notin active =>
        \E q \in Requests : /\ req[q].st = "revoked" /\ req[q].id = req[r].id
                            /\ req[q].caller = req[r].body.issuer

(* After a revoke has been answered the grant is not seen again: in SQLite *)
(* a revoked row keeps its id taken, also for an issue that was on its way.*)
RevokedStaysRevoked ==
    backend = "sqlite" =>
        \A q \in Requests : req[q].st = "revoked" => req[q].id \notin active
=============================================================================
