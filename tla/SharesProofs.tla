----------------------------- MODULE SharesProofs -----------------------------
(***************************************************************************)
(* What Shares guarantees for every set of accounts, files, keys and       *)
(* requests, for both stores and any number of restarts.                   *)
(*                                                                         *)
(* The invariants a run checks speak of requests that are over.  They are  *)
(* not inductive, because a request is answered from what it read before:  *)
(* IInv says the same of shares that are stored and of requests that have  *)
(* read one, and that a revoke under way is its sender's.                  *)
(***************************************************************************)
EXTENDS Shares, TLAPS

Ended == [st : {"refused", "failed", "lost"}]
Creating == [st : {"create"}, policy : SharePolicy]
Created == [st : {"created"}, policy : SharePolicy, epoch : Nat, after : SUBSET Requests]
Fetching == [st : {"read", "served"}, caller : Fps, policy : SharePolicy,
             after : SUBSET Requests]
Revoking == [st : {"delete"}, caller : Fps, id : Ids]
Undone == [st : {"revoked"}, caller : Fps, id : Ids, after : SUBSET Requests]

ReqType == {Idle} \union Ended \union Creating \union Created \union Fetching
           \union Revoking \union Undone

TypeOK ==
    /\ backend \in {"memory", "sqlite"}
    /\ shares \subseteq SharePolicy
    /\ epoch \in Nat
    /\ req \in [Requests -> ReqType]

(* A sender gave out p, key included. *)
Given(p) == \E c \in Requests : req[c].st = "created" /\ req[c].policy = p

(* The share with this id was created again after revoke q was answered.   *)
SharedAgain(id, q) == \E c \in Requests : /\ req[c].st = "created"
                                          /\ share_id(req[c].policy) = id
                                          /\ q \in req[c].after

Revoked(q) == req[q].st = "revoked"

(* Of the stored shares: each was given out, and after every revoke of it. *)
StoredOK ==
    \A p \in shares :
        /\ Given(p)
        /\ \A q \in Requests : Revoked(q) /\ req[q].id = share_id(p) =>
              SharedAgain(req[q].id, q)

(* Of the requests that have read a share: the same, and that they read it *)
(* as its recipient.                                                       *)
FetchedOK ==
    \A r \in Requests : req[r].st \in {"read", "served"} =>
        /\ req[r].policy.to = req[r].caller
        /\ Given(req[r].policy)
        /\ \A q \in req[r].after : Revoked(q) /\ req[q].id = share_id(req[r].policy) =>
              SharedAgain(req[q].id, q)

(* What a request remembers as answered was, and is. *)
AfterOK ==
    \A r \in Requests : req[r].st \in {"created", "revoked", "read", "served"} =>
        req[r].after \subseteq Answered

SendersRevoke ==
    \A r \in Requests : req[r].st \in {"delete", "revoked"} => req[r].caller = req[r].id[1]

EpochsPast == \A r \in Requests : req[r].st = "created" => req[r].epoch <= epoch

(* ShareKept, by requests: what was answered is stored, or lapsed, or was  *)
(* undone by a later answer of the same sender.                            *)
Stored(p) == {s \in shares : Same(p, s)}
UndoneBy(p, q) ==
    \/ req[q].st = "created" /\ Same(p, req[q].policy)
    \/ req[q].st = "revoked" /\ req[q].caller = p.from /\ req[q].id = share_id(p)
Kept(r) ==
    \/ Stored(req[r].policy) = {req[r].policy}
    \/ Stored(req[r].policy) = {} /\ backend = "memory" /\ req[r].epoch < epoch
    \/ \E q \in Later(r) : UndoneBy(req[r].policy, q)
Gone(r) ==
    \/ \A s \in shares : share_id(s) # req[r].id
    \/ \E q \in Later(r) : req[q].st = "created" /\ share_id(req[q].policy) = req[r].id
AllKept == \A r \in Requests : req[r].st = "created" => Kept(r)
AllGone == \A r \in Requests : req[r].st = "revoked" => Gone(r)

IInv ==
    /\ TypeOK
    /\ StoredOK
    /\ FetchedOK
    /\ AfterOK
    /\ SendersRevoke
    /\ EpochsPast
    /\ AllKept
    /\ AllGone

-----------------------------------------------------------------------------
(* The id tells sender, recipient and file, so that policies with one id   *)
(* differ in their keys only.                                              *)
LEMMA SameId ==
    ASSUME NEW p \in SharePolicy, NEW s \in SharePolicy
    PROVE  Same(p, s) <=> share_id(p) = share_id(s)
<1>1. share_id(p) = share_id(s) <=> p.from = s.from /\ p.to = s.to /\ p.file = s.file
  BY DEF share_id
<1>. QED
  BY <1>1 DEF SharePolicy, Same

(* The policy and the answers a created request names.                     *)
LEMMA CreatedFacts ==
    ASSUME IInv, NEW r \in Requests, req[r].st = "created"
    PROVE  /\ req[r] \in Created /\ req[r].policy \in SharePolicy
           /\ req[r].epoch \in Nat /\ req[r].epoch <= epoch
<1>1. req[r] \in Created
  BY DEF IInv, TypeOK, ReqType, Idle, Ended, Creating, Fetching, Revoking, Undone
<1>. QED
  BY <1>1 DEF Created, IInv, EpochsPast

(* An empty server satisfies the invariant. *)
LEMMA InitIInv == Init => IInv
<1> SUFFICES ASSUME Init PROVE IInv
  OBVIOUS
<1>1. \A r \in Requests : req[r] = Idle
  BY DEF Init
<1>2. TypeOK
  BY DEF Init, TypeOK, ReqType
<1>. QED
  BY <1>1, <1>2 DEF Init, IInv, StoredOK, FetchedOK, AfterOK, SendersRevoke, EpochsPast,
     AllKept, AllGone, Idle

(* Creates and revokes that were answered stay as they are, so what has    *)
(* been given out and shared again stays so.                               *)
LEMMA AnswersStay ==
    ASSUME \A r \in Requests : req[r].st \in {"created", "revoked"} => req'[r] = req[r]
    PROVE  /\ \A p \in SharePolicy : Given(p) => Given(p)'
           /\ \A q \in Requests : Revoked(q) => Revoked(q)' /\ req'[q].id = req[q].id
           /\ \A q \in Requests : Revoked(q) /\ SharedAgain(req[q].id, q) =>
                 SharedAgain(req[q].id, q)'
BY DEF Given, Revoked, SharedAgain

(* What was answered later stays later. *)
LEMMA LaterStays ==
    ASSUME \A r \in Requests : req[r].st \in {"created", "revoked"} => req'[r] = req[r],
           NEW r \in Requests, req[r].st \in {"created", "revoked"}
    PROVE  \A q \in Later(r) : q \in Requests /\ q \in Later(r)' /\ req'[q] = req[q]
BY DEF Later, Answered

(* Answers that were excused by what is stored, or by a later answer, stay *)
(* excused by a step that leaves the store alone or removes what does not  *)
(* concern them.                                                           *)
LEMMA KeptStays ==
    ASSUME IInv, NEW r \in Requests, req[r].st = "created",
           \A q \in Requests : req[q].st \in {"created", "revoked"} => req'[q] = req[q],
           backend' = backend, epoch' \in Nat, epoch <= epoch',
           \/ Stored(req[r].policy)' = Stored(req[r].policy)
           \/ Stored(req[r].policy)' = {} /\ backend = "memory" /\ epoch < epoch'
    PROVE  Kept(r)'
<1>1. req'[r] = req[r] /\ Kept(r) /\ epoch \in Nat
      /\ req[r].epoch \in Nat /\ req[r].epoch <= epoch
  BY CreatedFacts DEF IInv, AllKept, TypeOK
<1>2. Stored(req[r].policy)' = {s \in shares' : Same(req[r].policy, s)}
  BY <1>1 DEF Stored, Same
<1>3. CASE \E q \in Later(r) : UndoneBy(req[r].policy, q)
  <2>1. PICK q \in Later(r) : UndoneBy(req[r].policy, q)
    BY <1>3
  <2>2. q \in Later(r)' /\ req'[q] = req[q]
    BY <2>1, LaterStays
  <2>3. UndoneBy(req[r].policy, q)'
    BY <1>1, <2>1, <2>2 DEF UndoneBy, Same, share_id
  <2>. QED
    BY <2>2, <2>3 DEF Kept
<1>4. CASE ~ \E q \in Later(r) : UndoneBy(req[r].policy, q)
  BY <1>1, <1>4 DEF Kept
<1>. QED
  BY <1>3, <1>4

LEMMA GoneStays ==
    ASSUME IInv, NEW r \in Requests, req[r].st = "revoked",
           \A q \in Requests : req[q].st \in {"created", "revoked"} => req'[q] = req[q],
           \A s \in shares' : s \in shares \/ share_id(s) # req[r].id
    PROVE  Gone(r)'
<1>1. req'[r] = req[r] /\ Gone(r)
  BY DEF IInv, AllGone
<1>2. CASE \A s \in shares : share_id(s) # req[r].id
  BY <1>1, <1>2 DEF Gone, share_id
<1>3. CASE \E q \in Later(r) : req[q].st = "created" /\ share_id(req[q].policy) = req[r].id
  BY <1>1, <1>3, LaterStays DEF Gone, share_id
<1>. QED
  BY <1>1, <1>2, <1>3 DEF Gone

(* A step after which only some requests have been refused, have failed,   *)
(* wait to create, or fetch and revoke as the hypotheses say.              *)
LEMMA RequestStep ==
    ASSUME IInv, UNCHANGED <<backend, shares, epoch>>,
           req' \in [Requests -> ReqType],
           \A r \in Requests :
              \/ req'[r] = req[r]
              \/ /\ req[r].st \notin {"created", "revoked"}
                 /\ \/ req'[r].st \in {"idle", "refused", "failed", "lost", "create"}
                    \/ /\ req[r].st = "read" /\ req'[r].st = "served"
                       /\ req'[r].policy = req[r].policy /\ req'[r].caller = req[r].caller
                       /\ req'[r].after = req[r].after
                    \/ /\ req'[r].st = "read"
                       /\ req'[r].policy \in shares /\ req'[r].policy.to = req'[r].caller
                       /\ req'[r].after = Answered
                    \/ /\ req'[r].st = "delete"
                       /\ req'[r].caller = req'[r].id[1]
    PROVE  IInv'
<1>1. \A r \in Requests : req[r].st \in {"created", "revoked"} => req'[r] = req[r]
  OBVIOUS
<1>2. \A r \in Requests : req'[r].st \in {"created", "revoked"} => req'[r] = req[r]
  OBVIOUS
<1>3. TypeOK'
  BY DEF IInv, TypeOK, ReqType, SharePolicy, Ids, share_id, Ended, Creating, Created,
     Fetching, Revoking, Undone
<1>4. StoredOK'
  BY <1>1, <1>2, AnswersStay DEF IInv, TypeOK, StoredOK, Revoked
<1>5. FetchedOK'
  <2> SUFFICES ASSUME NEW r \in Requests, req'[r].st \in {"read", "served"}
               PROVE  /\ req'[r].policy.to = req'[r].caller
                      /\ Given(req[r].policy)'
                      /\ \A q \in req'[r].after : Revoked(q)' /\ req'[q].id = share_id(req'[r].policy) =>
                            SharedAgain(req[q].id, q)'
    BY DEF FetchedOK, share_id
  <2>1. CASE /\ req[r].st \in {"read", "served"} /\ req'[r].policy = req[r].policy
             /\ req'[r].caller = req[r].caller /\ req'[r].after = req[r].after
    <3>1. \A q \in req[r].after : q \in Requests /\ req'[q] = req[q] /\ (Revoked(q)' => Revoked(q))
      BY <1>1, <2>1 DEF IInv, AfterOK, Answered, Revoked
    <3>2. req'[r].policy.to = req'[r].caller /\ Given(req[r].policy)'
      BY <1>1, <2>1 DEF IInv, FetchedOK, Given
    <3>3. \A q \in req'[r].after : Revoked(q)' /\ req'[q].id = share_id(req'[r].policy) =>
             SharedAgain(req[q].id, q)'
      BY <1>1, <2>1, <3>1, AnswersStay DEF IInv, FetchedOK
    <3>. QED
      BY <3>2, <3>3
  <2>2. CASE /\ req'[r].policy \in shares /\ req'[r].policy.to = req'[r].caller
             /\ req'[r].after = Answered
    <3>1. Given(req[r].policy)'
      BY <1>1, <2>2 DEF IInv, StoredOK, Given
    <3>2. \A q \in Answered : q \in Requests /\ req'[q] = req[q] /\ (Revoked(q)' => Revoked(q))
      BY <1>1 DEF Answered, Revoked
    <3>3. \A q \in req'[r].after : Revoked(q)' /\ req'[q].id = share_id(req'[r].policy) =>
             SharedAgain(req[q].id, q)'
      BY <1>1, <2>2, <3>2, AnswersStay DEF IInv, StoredOK
    <3>. QED
      BY <2>2, <3>1, <3>3
  <2>. QED
    BY <2>1, <2>2
<1>6. AfterOK'
  BY <1>1 DEF IInv, AfterOK, Revoked, Answered
<1>7. SendersRevoke'
  <2> SUFFICES ASSUME NEW r \in Requests, req'[r].st \in {"delete", "revoked"}
               PROVE  req'[r].caller = req'[r].id[1]
    BY DEF SendersRevoke
  <2>1. CASE req'[r] = req[r]
    BY <2>1 DEF IInv, SendersRevoke
  <2>2. CASE req'[r] # req[r]
    BY <2>2
  <2>. QED
    BY <2>1, <2>2
<1>8. EpochsPast'
  BY <1>2 DEF IInv, EpochsPast
<1>9. AllKept'
  <2> SUFFICES ASSUME NEW r \in Requests, req'[r].st = "created" PROVE Kept(r)'
    BY DEF AllKept
  <2>1. req'[r] = req[r]
    BY <1>2
  <2>2. Stored(req[r].policy)' = Stored(req[r].policy)
    BY <2>1 DEF Stored, Same
  <2>. QED
    BY <1>1, <2>1, <2>2, KeptStays DEF IInv, TypeOK
<1>10. AllGone'
  <2> SUFFICES ASSUME NEW r \in Requests, req'[r].st = "revoked" PROVE Gone(r)'
    BY DEF AllGone
  <2>1. req'[r] = req[r]
    BY <1>2
  <2>. QED
    BY <1>1, <2>1, GoneStays
<1>. QED
  BY <1>3, <1>4, <1>5, <1>6, <1>7, <1>8, <1>9, <1>10 DEF IInv

(* create_share hands a policy to the store. *)
LEMMA SubmitShareStep ==
    ASSUME IInv, NEW r \in Requests, NEW p \in SharePolicy, SubmitShare(r, p)
    PROVE  IInv'
<1> DEFINE x == IF p.file \in files THEN [st |-> "create", policy |-> p]
                ELSE [st |-> "refused"]
<1>1. x \in Creating \union Ended /\ x.st \in {"create", "refused"}
  BY DEF Creating, Ended
<1>2. req[r].st = "idle" /\ req' = [req EXCEPT ![r] = x]
  BY DEF SubmitShare, Idle
<1> HIDE DEF x
<1>. QED
  BY <1>1, <1>2, RequestStep DEF SubmitShare, IInv, TypeOK, ReqType

(* A recipient reads a share. *)
LEMMA LookUpStep ==
    ASSUME IInv, NEW r \in Requests, NEW f \in Fps, NEW id \in Ids, LookUp(r, f, id)
    PROVE  IInv'
<1>1. req[r].st = "idle" /\ UNCHANGED <<backend, shares, epoch>>
  BY DEF LookUp, Idle
<1>2. CASE req' = [req EXCEPT ![r] = [st |-> "refused"]]
  <2>1. [st |-> "refused"] \in ReqType
    BY DEF ReqType, Ended
  <2>. QED
    BY <1>1, <1>2, <2>1, RequestStep DEF IInv, TypeOK
<1>3. CASE \E p \in shares : /\ p.to = f
                             /\ req' = [req EXCEPT ![r] = [st |-> "read", caller |-> f,
                                          policy |-> p, after |-> Answered]]
  <2>1. PICK p \in shares : /\ p.to = f
                            /\ req' = [req EXCEPT ![r] = [st |-> "read", caller |-> f,
                                          policy |-> p, after |-> Answered]]
    BY <1>3
  <2> DEFINE x == [st |-> "read", caller |-> f, policy |-> p, after |-> Answered]
  <2>2. x \in ReqType /\ p \in SharePolicy
    BY DEF IInv, TypeOK, ReqType, Fetching, Answered
  <2>3. /\ x.st = "read" /\ x.policy = p /\ x.caller = f /\ x.after = Answered
        /\ req' = [req EXCEPT ![r] = x]
    BY <2>1
  <2> HIDE DEF x
  <2>. QED
    BY <1>1, <2>1, <2>2, <2>3, RequestStep DEF IInv, TypeOK
<1>. QED
  BY <1>2, <1>3 DEF LookUp

(* The recrypted key is answered, or the file is gone. *)
LEMMA ServeStep ==
    ASSUME IInv, NEW r \in Requests, Serve(r)
    PROVE  IInv'
<1> DEFINE x == IF req[r].policy.file \in files
                THEN [req[r] EXCEPT !.st = "served"] ELSE [st |-> "failed"]
<1>1. /\ req' = [req EXCEPT ![r] = x] /\ req[r].st = "read" /\ req[r] \in Fetching
      /\ UNCHANGED <<backend, shares, epoch>>
  BY DEF Serve, IInv, TypeOK, ReqType, Idle, Ended, Creating, Created, Revoking, Undone
<1>2. x \in ReqType
  BY <1>1 DEF ReqType, Fetching, Ended
<1>3. \/ x.st = "failed"
      \/ /\ x.st = "served" /\ x.policy = req[r].policy
         /\ x.caller = req[r].caller /\ x.after = req[r].after
  BY <1>1 DEF Fetching
<1> HIDE DEF x
<1>. QED
  BY <1>1, <1>2, <1>3, RequestStep DEF IInv, TypeOK

(* A sender finds its share. *)
LEMMA SubmitRevokeStep ==
    ASSUME IInv, NEW r \in Requests, NEW f \in Fps, NEW id \in Ids, SubmitRevoke(r, f, id)
    PROVE  IInv'
<1>1. req[r].st = "idle" /\ UNCHANGED <<backend, shares, epoch>>
  BY DEF SubmitRevoke, Idle
<1> DEFINE x == IF \E p \in shares : share_id(p) = id /\ p.from = f
                THEN [st |-> "delete", caller |-> f, id |-> id] ELSE [st |-> "refused"]
<1>2. x \in Revoking \union Ended
  BY DEF Revoking, Ended
<1>3. x.st = "refused" \/ (x.st = "delete" /\ x.caller = x.id[1])
  BY DEF share_id
<1>4. req' = [req EXCEPT ![r] = x]
  BY DEF SubmitRevoke
<1> HIDE DEF x
<1>. QED
  BY <1>1, <1>2, <1>3, <1>4, RequestStep DEF IInv, TypeOK, ReqType

(* The store takes a policy: whatever had its id is replaced, and every     *)
(* revoke of that id that was answered is one it comes after.              *)
LEMMA CreateStep ==
    ASSUME IInv, NEW r \in Requests, Create(r)
    PROVE  IInv'
<1> DEFINE p == req[r].policy
           new == [st |-> "created", policy |-> p, epoch |-> epoch, after |-> Answered]
<1>1. req[r].st = "create" /\ req[r] \in Creating /\ p \in SharePolicy
  <2>1. req[r].st = "create" /\ req[r] \in Creating
    BY DEF Create, IInv, TypeOK, ReqType, Idle, Ended, Created, Fetching, Revoking, Undone
  <2>. QED
    BY <2>1 DEF Creating
<1>2. /\ shares' = {s \in shares : share_id(s) # share_id(p)} \union {p}
      /\ req' = [req EXCEPT ![r] = new] /\ UNCHANGED <<backend, epoch>>
  BY DEF Create
<1>3. /\ new \in Created /\ new.st = "created" /\ new.policy = p /\ new.epoch = epoch
      /\ new.after = Answered
  BY <1>1 DEF Created, Answered, IInv, TypeOK
<1> HIDE DEF new
<1>4. /\ req'[r] = new /\ \A q \in Requests \ {r} : req'[q] = req[q]
      /\ req' \in [Requests -> ReqType]
  BY <1>2, <1>3 DEF IInv, TypeOK, ReqType
<1>5. \A q \in Requests : req[q].st \in {"created", "revoked"} => req'[q] = req[q]
  BY <1>1, <1>4
<1>6. \A q \in Requests : req'[q].st \notin {"created"} => req'[q] = req[q]
  BY <1>3, <1>4
<1>7. TypeOK'
  BY <1>1, <1>2, <1>4 DEF IInv, TypeOK, ReqType, SharePolicy, Ids, share_id, Ended, Creating,
     Created, Fetching, Revoking, Undone
<1>8. Given(p)'
  BY <1>3, <1>4 DEF Given
<1>9. \A q \in Requests : Revoked(q)' /\ req'[q].id = share_id(p) => SharedAgain(share_id(p), q)'
  <2>1. \A q \in Requests : Revoked(q)' => q \in Answered
    BY <1>3, <1>4 DEF Revoked, Answered
  <2>. QED
    BY <2>1, <1>3, <1>4 DEF SharedAgain
<1>10. StoredOK'
  <2> SUFFICES ASSUME NEW s \in shares'
               PROVE  /\ Given(s)'
                      /\ \A q \in Requests : Revoked(q)' /\ req'[q].id = share_id(s) =>
                            SharedAgain(req[q].id, q)'
    BY DEF StoredOK, share_id
  <2>1. CASE s = p
    <3>1. req'[r].policy = s
      BY <1>3, <1>4, <2>1
    <3>2. Given(s)'
      BY <1>8, <3>1 DEF Given
    <3>. QED
      BY <1>9, <2>1, <3>1, <3>2 DEF SharedAgain, share_id
  <2>2. CASE s \in shares
    <3>1. \A q \in Requests : Revoked(q)' => Revoked(q) /\ req'[q] = req[q]
      BY <1>6 DEF Revoked
    <3>. QED
      BY <1>5, <2>2, <3>1, AnswersStay DEF IInv, TypeOK, StoredOK
  <2>. QED
    BY <1>2, <2>1, <2>2
<1>11. FetchedOK'
  <2> SUFFICES ASSUME NEW q \in Requests, req'[q].st \in {"read", "served"}
               PROVE  /\ req'[q].policy.to = req'[q].caller
                      /\ Given(req[q].policy)'
                      /\ \A t \in req'[q].after : Revoked(t)' /\ req'[t].id = share_id(req'[q].policy) =>
                            SharedAgain(req[t].id, t)'
    BY DEF FetchedOK, share_id
  <2>1. req'[q] = req[q]
    BY <1>6
  <2>2. \A t \in req[q].after : t \in Requests /\ req'[t] = req[t] /\ (Revoked(t)' => Revoked(t))
    BY <1>5, <2>1 DEF IInv, AfterOK, Answered, Revoked
  <2>3. Given(req[q].policy)'
    BY <1>5, <2>1 DEF IInv, FetchedOK, Given
  <2>. QED
    BY <1>5, <2>1, <2>2, <2>3, AnswersStay DEF IInv, FetchedOK
<1>12. AfterOK'
  BY <1>3, <1>4, <1>5, <1>6 DEF IInv, AfterOK, Revoked, Answered
<1>13. SendersRevoke'
  BY <1>6 DEF IInv, SendersRevoke
<1>14. EpochsPast'
  BY <1>2, <1>3, <1>4 DEF IInv, EpochsPast, TypeOK
<1>15. AllKept'
  <2> SUFFICES ASSUME NEW q \in Requests, req'[q].st = "created"
               PROVE  Kept(q)'
    BY DEF AllKept
  <2>1. CASE q = r
    <3>1. req'[q].policy = p /\ p \in SharePolicy
      BY <1>1, <1>3, <1>4, <2>1
    <3>2. \A s \in shares' : Same(p, s) <=> s = p
      BY <1>1, <1>2, SameId DEF IInv, TypeOK
    <3>3. {s \in shares' : Same(p, s)} = {p}
      BY <1>2, <3>2
    <3>. QED
      BY <3>1, <3>3 DEF Kept, Stored, Same
  <2>2. CASE q # r
    <3>1. req'[q] = req[q] /\ req[q].st = "created"
      BY <1>4, <2>2
    <3>2. req[q].policy \in SharePolicy
      BY <3>1, CreatedFacts
    <3>3. CASE Same(req[q].policy, p)
      <4>1. r \in Later(q)'
        <5>1. r \notin Answered /\ req[q].after \subseteq Answered
          BY <1>1, <3>1 DEF Answered, IInv, AfterOK
        <5>2. r \in Answered'
          BY <1>3, <1>4 DEF Answered
        <5>. QED
          BY <2>2, <3>1, <5>1, <5>2 DEF Later
      <4>2. req'[r].st = "created" /\ req'[r].policy = p
        BY <1>3, <1>4
      <4>3. Same(req'[q].policy, req'[r].policy)
        BY <3>1, <3>3, <4>2
      <4>4. UndoneBy(req[q].policy, r)'
        BY <4>2, <4>3 DEF UndoneBy, Same
      <4>. QED
        BY <4>1, <4>4 DEF Kept
    <3>4. CASE ~ Same(req[q].policy, p)
      <4>1. \A s \in shares' : Same(req[q].policy, s) <=> s \in shares /\ Same(req[q].policy, s)
        BY <1>2, <3>4
      <4>2. \A s \in shares : Same(req[q].policy, s) => share_id(s) # share_id(p)
        BY <1>1, <3>2, <3>4, SameId DEF IInv, TypeOK
      <4>3. {s \in shares' : Same(req[q].policy, s)} = {s \in shares : Same(req[q].policy, s)}
        BY <1>2, <4>1, <4>2
      <4>4. Stored(req[q].policy)' = Stored(req[q].policy)
        BY <3>1, <4>3 DEF Stored, Same
      <4>. QED
        BY <1>2, <1>5, <3>1, <4>4, KeptStays DEF IInv, TypeOK
    <3>. QED
      BY <3>3, <3>4
  <2>. QED
    BY <2>1, <2>2
<1>16. AllGone'
  <2> SUFFICES ASSUME NEW q \in Requests, req'[q].st = "revoked" PROVE Gone(q)'
    BY DEF AllGone
  <2>1. q # r /\ req'[q] = req[q] /\ req[q].st = "revoked"
    BY <1>3, <1>4, <1>6
  <2>2. CASE share_id(p) = req[q].id
    <3>1. r \in Later(q)'
      <4>1. r \notin Answered /\ req[q].after \subseteq Answered
        BY <1>1, <2>1 DEF Answered, IInv, AfterOK
      <4>2. r \in Answered'
        BY <1>3, <1>4 DEF Answered
      <4>. QED
        BY <2>1, <4>1, <4>2 DEF Later
    <3>2. req'[r].st = "created" /\ share_id(req'[r].policy) = req'[q].id
      BY <1>3, <1>4, <2>1, <2>2
    <3>. QED
      BY <3>1, <3>2 DEF Gone, share_id
  <2>3. CASE share_id(p) # req[q].id
    <3>1. \A s \in shares' : s \in shares \/ share_id(s) # req[q].id
      BY <1>2, <2>3
    <3>. QED
      BY <1>5, <2>1, <3>1, GoneStays
  <2>. QED
    BY <2>2, <2>3
<1>. QED
  BY <1>7, <1>10, <1>11, <1>12, <1>13, <1>14, <1>15, <1>16 DEF IInv

(* The store deletes what it has under the id: a share of the revoker.      *)
LEMMA DeleteStep ==
    ASSUME IInv, NEW r \in Requests, Delete(r)
    PROVE  IInv'
<1> DEFINE id == req[r].id
           done == Done(r)
<1>1. req[r].st = "delete" /\ req[r] \in Revoking
  BY DEF Delete, IInv, TypeOK, ReqType, Idle, Ended, Creating, Created, Fetching, Undone
<1>2. /\ shares' = {s \in shares : share_id(s) # id}
      /\ req' = [req EXCEPT ![r] = done] /\ UNCHANGED <<backend, epoch>>
  BY DEF Delete
<1>3. /\ done \in Undone /\ done.st = "revoked" /\ done.id = id
      /\ done.caller = req[r].caller /\ req[r].caller = id[1]
      /\ done.after = Answered
  BY <1>1 DEF Revoking, Undone, Done, Answered, IInv, SendersRevoke
<1> HIDE DEF done
<1>4. /\ req'[r] = done /\ \A q \in Requests \ {r} : req'[q] = req[q]
      /\ req' \in [Requests -> ReqType]
  BY <1>2, <1>3 DEF IInv, TypeOK, ReqType
<1>5. \A q \in Requests : req[q].st \in {"created", "revoked"} => req'[q] = req[q]
  BY <1>1, <1>4
<1>6. \A q \in Requests : req'[q].st # "revoked" => req'[q] = req[q]
  BY <1>3, <1>4
<1>7. TypeOK'
  BY <1>2, <1>4 DEF IInv, TypeOK, ReqType, SharePolicy, Ids, share_id, Ended, Creating,
     Created, Fetching, Revoking, Undone
<1>8. StoredOK'
  <2> SUFFICES ASSUME NEW s \in shares'
               PROVE  /\ Given(s)'
                      /\ \A q \in Requests : Revoked(q)' /\ req'[q].id = share_id(s) =>
                            SharedAgain(req[q].id, q)'
    BY DEF StoredOK, share_id
  <2>1. s \in shares /\ s \in SharePolicy /\ share_id(s) # id
    BY <1>2 DEF IInv, TypeOK
  <2>2. \A q \in Requests : Revoked(q)' /\ req'[q].id = share_id(s) =>
          Revoked(q) /\ req'[q] = req[q]
    BY <1>3, <1>4, <2>1 DEF Revoked
  <2>. QED
    BY <1>5, <2>1, <2>2, AnswersStay DEF IInv, StoredOK
<1>9. FetchedOK'
  <2> SUFFICES ASSUME NEW q \in Requests, req'[q].st \in {"read", "served"}
               PROVE  /\ req'[q].policy.to = req'[q].caller
                      /\ Given(req[q].policy)'
                      /\ \A t \in req'[q].after : Revoked(t)' /\ req'[t].id = share_id(req'[q].policy) =>
                            SharedAgain(req[t].id, t)'
    BY DEF FetchedOK, share_id
  <2>1. req'[q] = req[q]
    BY <1>6
  <2>2. \A t \in req[q].after : t \in Requests /\ req'[t] = req[t] /\ (Revoked(t)' => Revoked(t))
    BY <1>5, <2>1 DEF IInv, AfterOK, Answered, Revoked
  <2>3. Given(req[q].policy)'
    BY <1>5, <2>1 DEF IInv, FetchedOK, Given
  <2>. QED
    BY <1>5, <2>1, <2>2, <2>3, AnswersStay DEF IInv, FetchedOK
<1>10. AfterOK'
  BY <1>3, <1>4, <1>5, <1>6 DEF IInv, AfterOK, Answered, Revoked
<1>11. SendersRevoke'
  BY <1>3, <1>4 DEF IInv, SendersRevoke
<1>12. EpochsPast'
  BY <1>2, <1>6 DEF IInv, EpochsPast
<1>13. AllKept'
  <2> SUFFICES ASSUME NEW q \in Requests, req'[q].st = "created"
               PROVE  Kept(q)'
    BY DEF AllKept
  <2>1. q # r /\ req'[q] = req[q] /\ req[q].st = "created"
    BY <1>3, <1>4, <1>6
  <2>2. req[q].policy \in SharePolicy
    BY <2>1, CreatedFacts
  <2>3. CASE share_id(req[q].policy) = id
    <3>1. r \in Later(q)'
      <4>1. r \notin Answered /\ req[q].after \subseteq Answered
        BY <1>1, <2>1 DEF Answered, IInv, AfterOK
      <4>2. r \in Answered'
        BY <1>3, <1>4 DEF Answered
      <4>. QED
        BY <2>1, <4>1, <4>2 DEF Later
    <3>2. req[r].caller = req[q].policy.from
      BY <1>3, <2>3 DEF share_id
    <3>3. UndoneBy(req[q].policy, r)'
      BY <1>3, <1>4, <2>1, <2>3, <3>2 DEF UndoneBy, share_id
    <3>. QED
      BY <3>1, <3>3 DEF Kept
  <2>4. CASE share_id(req[q].policy) # id
    <3>1. \A s \in shares : Same(req[q].policy, s) => share_id(s) # id
      BY <2>2, <2>4, SameId DEF IInv, TypeOK
    <3>2. {s \in shares' : Same(req[q].policy, s)} = {s \in shares : Same(req[q].policy, s)}
      BY <1>2, <3>1
    <3>3. Stored(req[q].policy)' = Stored(req[q].policy)
      BY <2>1, <3>2 DEF Stored, Same
    <3>. QED
      BY <1>2, <1>5, <2>1, <3>3, KeptStays DEF IInv, TypeOK
  <2>. QED
    BY <2>3, <2>4
<1>14. AllGone'
  <2> SUFFICES ASSUME NEW q \in Requests, req'[q].st = "revoked" PROVE Gone(q)'
    BY DEF AllGone
  <2>1. CASE q = r
    <3>1. \A s \in shares' : share_id(s) # req'[q].id
      BY <1>2, <1>3, <1>4, <2>1
    <3>. QED
      BY <3>1 DEF Gone, share_id
  <2>2. CASE q # r
    BY <1>2, <1>4, <1>5, <2>2, GoneStays
  <2>. QED
    BY <2>1, <2>2
<1>. QED
  BY <1>7, <1>8, <1>9, <1>10, <1>11, <1>12, <1>13, <1>14 DEF IInv

(* A file comes or goes, of which shares know nothing. *)
LEMMA FileChangesStep ==
    ASSUME IInv, NEW h \in Files, FileChanges(h)
    PROVE  IInv'
BY RequestStep DEF FileChanges, IInv, TypeOK

(* A restart loses the requests in flight, and a memory store.              *)
LEMMA RestartStep == IInv /\ Restart => IInv'
<1> SUFFICES ASSUME IInv, Restart PROVE IInv'
  OBVIOUS
<1>1. /\ epoch' = epoch + 1 /\ epoch \in Nat /\ backend' = backend
      /\ shares' = IF backend = "sqlite" THEN shares ELSE {}
      /\ backend = "memory" \/ backend = "sqlite"
  BY DEF Restart, IInv, TypeOK
<1>2. \A r \in Requests :
        \/ req'[r] = req[r]
        \/ req'[r] = [st |-> "lost"] /\ req[r].st \in {"create", "read", "delete"}
  BY DEF Restart
<1>3. \A r \in Requests : req[r].st \in {"created", "revoked"} => req'[r] = req[r]
  BY <1>2
<1>4. \A r \in Requests : req'[r].st # "lost" => req'[r] = req[r]
  BY <1>2
<1>5. TypeOK'
  <2>1. req' \in [Requests -> ReqType]
    <3>1. [st |-> "lost"] \in ReqType
      BY DEF ReqType, Ended
    <3>. QED
      BY <3>1 DEF Restart, IInv, TypeOK
  <2>. QED
    BY <1>1, <2>1 DEF IInv, TypeOK, ReqType, SharePolicy, Ids, share_id, Ended, Creating,
       Created, Fetching, Revoking, Undone
<1>6. StoredOK'
  BY <1>1, <1>3, <1>4, AnswersStay DEF IInv, TypeOK, StoredOK, Revoked
<1>7. FetchedOK'
  <2> SUFFICES ASSUME NEW q \in Requests, req'[q].st \in {"read", "served"}
               PROVE  /\ req'[q].policy.to = req'[q].caller
                      /\ Given(req[q].policy)'
                      /\ \A t \in req'[q].after : Revoked(t)' /\ req'[t].id = share_id(req'[q].policy) =>
                            SharedAgain(req[t].id, t)'
    BY DEF FetchedOK, share_id
  <2>1. req'[q] = req[q]
    BY <1>4
  <2>2. \A t \in req[q].after : t \in Requests /\ req'[t] = req[t] /\ (Revoked(t)' => Revoked(t))
    BY <1>3, <2>1 DEF IInv, AfterOK, Answered, Revoked
  <2>3. Given(req[q].policy)'
    BY <1>3, <2>1 DEF IInv, FetchedOK, Given
  <2>. QED
    BY <1>3, <2>1, <2>2, <2>3, AnswersStay DEF IInv, FetchedOK
<1>8. AfterOK'
  BY <1>3, <1>4 DEF IInv, AfterOK, Answered, Revoked
<1>9. SendersRevoke'
  BY <1>4 DEF IInv, SendersRevoke
<1>10. EpochsPast'
  <2> SUFFICES ASSUME NEW r \in Requests, req'[r].st = "created"
               PROVE  req'[r].epoch <= epoch'
    BY DEF EpochsPast
  <2>1. req'[r] = req[r] /\ req[r].epoch \in Nat /\ req[r].epoch <= epoch
    BY <1>4, CreatedFacts
  <2>. QED
    BY <1>1, <2>1
<1>11. AllKept'
  <2> SUFFICES ASSUME NEW r \in Requests, req'[r].st = "created" PROVE Kept(r)'
    BY DEF AllKept
  <2>1. req'[r] = req[r] /\ req[r].st = "created"
    BY <1>4
  <2>2. \/ shares' = shares
        \/ shares' = {} /\ backend = "memory"
    BY <1>1
  <2>3. \/ Stored(req[r].policy)' = Stored(req[r].policy)
        \/ Stored(req[r].policy)' = {} /\ backend = "memory"
    BY <2>1, <2>2 DEF Stored, Same
  <2>4. epoch' \in Nat /\ epoch < epoch' /\ epoch <= epoch'
    BY <1>1
  <2>. QED
    BY <1>1, <1>3, <2>1, <2>3, <2>4, KeptStays
<1>12. AllGone'
  <2> SUFFICES ASSUME NEW r \in Requests, req'[r].st = "revoked" PROVE Gone(r)'
    BY DEF AllGone
  <2>1. req'[r] = req[r] /\ req[r].st = "revoked" /\ shares' \subseteq shares
    BY <1>1, <1>4
  <2>. QED
    BY <1>3, <2>1, GoneStays
<1>. QED
  BY <1>5, <1>6, <1>7, <1>8, <1>9, <1>10, <1>11, <1>12 DEF IInv

(* No step leaves the invariant. *)
LEMMA NextIInv == IInv /\ [Next]_vars => IInv'
<1> SUFFICES ASSUME IInv, [Next]_vars PROVE IInv'
  OBVIOUS
<1>1. CASE UNCHANGED vars
  BY <1>1, RequestStep DEF vars, IInv, TypeOK
<1>2. CASE Next
  BY <1>2, SubmitShareStep, LookUpStep, SubmitRevokeStep, CreateStep, ServeStep, DeleteStep,
     FileChangesStep, RestartStep DEF Next
<1>. QED
  BY <1>1, <1>2

-----------------------------------------------------------------------------
(* The invariant holds in every reachable state. *)
LEMMA Inductive == Spec => []IInv
BY InitIInv, NextIInv, PTL DEF Spec

(* The variables keep their types, whatever the constants.                  *)
THEOREM TypeCorrect == Spec => []TypeOK
<1>1. IInv => TypeOK
  BY DEF IInv
<1>. QED
  BY <1>1, Inductive, PTL

(* For any number of requests: a wrapped key is made from what the sender   *)
(* gave, and for the account it was shared with.                           *)
THEOREM RecipientsServed == Spec => []ServedAsShared
<1>1. IInv => ServedAsShared
  BY DEF IInv, FetchedOK, Given, ServedAsShared
<1>. QED
  BY <1>1, Inductive, PTL

(* For both stores and any restarts: what was answered last about a sender, *)
(* a recipient and a file is what is stored; only a restart of a memory     *)
(* store takes an answered share away.                                      *)
THEOREM SharesKept == Spec => []ShareKept
<1>1. IInv => ShareKept
  BY DEF IInv, AllKept, AllGone, Kept, Gone, Stored, UndoneBy, ShareKept
<1>. QED
  BY <1>1, Inductive, PTL

(* For any interleaving: after a revoke was answered the key is not served  *)
(* again to requests that arrive later, unless the sender shares it again. *)
THEOREM RevocationHolds == Spec => []RevokedUntilSharedAgain
<1>1. IInv => RevokedUntilSharedAgain
  BY DEF IInv, FetchedOK, AfterOK, Answered, Revoked, SharedAgain, RevokedUntilSharedAgain
<1>. QED
  BY <1>1, Inductive, PTL
=============================================================================
