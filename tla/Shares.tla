-------------------------------- MODULE Shares --------------------------------
(***************************************************************************)
(* Proxy recryption: create_share, get_recrypted_share and revoke_share    *)
(* (routes/recryption.rs) over a ShareStore.  Each route reads, awaits and *)
(* acts on what it read; other requests run in between, and the file of a  *)
(* share may be uploaded or deleted meanwhile, of which shares know        *)
(* nothing.                                                                *)
(*                                                                         *)
(* A key stands for the recryption key and the wrapped key a sender sends. *)
(***************************************************************************)
EXTENDS Integers

CONSTANTS
    Fps,          \* fingerprints of registered accounts
    Files,        \* file hashes
    Keys,
    Requests,     \* requests, each handled once
    MaxRestarts   \* bound on restarts of the server

ASSUME SharesAssumption == MaxRestarts \in Nat

VARIABLES
    backend,  \* which ShareStore runs, SqliteShareStore or InMemoryShareStore
    files,    \* hashes that are stored
    shares,   \* the stored SharePolicy values
    epoch,    \* restarts so far
    req

vars == <<backend, files, shares, epoch, req>>

SharePolicy == [from : Fps, to : Fps, file : Files, key : Keys]

(* Mutant: the sender is not part of the id. *)
share_id_of_recipient(p) == <<p.to, p.file>>

(* The id is the hash of sender, recipient and file, not of the key.       *)
share_id(p) == <<p.from, p.to, p.file>>

Idle == [st |-> "idle"]
Init ==
    /\ backend \in {"memory", "sqlite"}
    /\ files = {}
    /\ shares = {}
    /\ epoch = 0
    /\ req = [r \in Requests |-> Idle]

(* Shares and revokes answered so far; remembered by the requests they     *)
(* precede, so that the order of the answers is known.                     *)
Answered == {q \in Requests : req[q].st \in {"created", "revoked"}}
Done(r) == [st |-> "revoked", caller |-> req[r].caller, id |-> req[r].id,
            after |-> Answered]

(* create_share up to its call of the store: both accounts exist, the file *)
(* exists, the sender signed.                                              *)
SubmitShare(r, p) ==
    /\ req[r] = Idle
    /\ req' = [req EXCEPT ![r] =
                 IF p.file \in files THEN [st |-> "create", policy |-> p]
                 ELSE [st |-> "refused"]]
    /\ UNCHANGED <<backend, files, shares, epoch>>

(* create: insert, or INSERT OR REPLACE, under the id. *)
Create(r) ==
    /\ req[r].st = "create"
    /\ LET p == req[r].policy IN
         /\ shares' = {s \in shares : share_id(s) # share_id(p)} \union {p}
         /\ req' = [req EXCEPT ![r] = [st |-> "created", policy |-> p,
                                       epoch |-> epoch, after |-> Answered]]
    /\ UNCHANGED <<backend, files, epoch>>

(* Mutant: anyone may ask for any share. *)
LookUpAny(r, f, id) ==
    /\ req[r] = Idle
    /\ LET found == {p \in shares : share_id(p) = id} IN
       IF found = {} THEN req' = [req EXCEPT ![r] = [st |-> "refused"]]
       ELSE \E p \in found :
              req' = [req EXCEPT ![r] = [st |-> "read", caller |-> f, policy |-> p,
                                         after |-> Answered]]
    /\ UNCHANGED <<backend, files, shares, epoch>>

(* get_recrypted_share: get, and the caller is the recipient.              *)
LookUp(r, f, id) ==
    /\ req[r] = Idle
    /\ LET found == {p \in shares : share_id(p) = id /\ p.to = f} IN
       IF found = {} THEN req' = [req EXCEPT ![r] = [st |-> "refused"]]
       ELSE \E p \in found :
              req' = [req EXCEPT ![r] = [st |-> "read", caller |-> f, policy |-> p,
                                         after |-> Answered]]
    /\ UNCHANGED <<backend, files, shares, epoch>>

(* The file's envelope is read, the wrapped key recrypted with the policy  *)
(* found before.  A deleted file leaves its shares: then the answer is an  *)
(* internal error.                                                         *)
Serve(r) ==
    /\ req[r].st = "read"
    /\ req' = [req EXCEPT ![r] = IF @.policy.file \in files
                                 THEN [@ EXCEPT !.st = "served"]
                                 ELSE [st |-> "failed"]]
    /\ UNCHANGED <<backend, files, shares, epoch>>

(* revoke_share: get, and the caller is the sender. *)
SubmitRevoke(r, f, id) ==
    /\ req[r] = Idle
    /\ req' = [req EXCEPT ![r] =
                 IF \E p \in shares : share_id(p) = id /\ p.from = f
                 THEN [st |-> "delete", caller |-> f, id |-> id]
                 ELSE [st |-> "refused"]]
    /\ UNCHANGED <<backend, files, shares, epoch>>

(* Mutant: the transaction is dropped without a commit. *)
DeleteUncommitted(r) ==
    /\ req[r].st = "delete"
    /\ req' = [req EXCEPT ![r] = Done(r)]
    /\ UNCHANGED <<backend, files, shares, epoch>>

(* delete: whatever is stored under the id by now. *)
Delete(r) ==
    /\ req[r].st = "delete"
    /\ shares' = {s \in shares : share_id(s) # req[r].id}
    /\ req' = [req EXCEPT ![r] = Done(r)]
    /\ UNCHANGED <<backend, files, epoch>>

(* An upload or a delete of a file; a storage that lost its files at a     *)
(* restart is as one from which they were deleted.                         *)
FileChanges(h) ==
    /\ files' = (files \ {h}) \union ({h} \ files)
    /\ UNCHANGED <<backend, shares, epoch, req>>

(* The process ends, with the requests in flight and a memory store.       *)
Restart ==
    /\ epoch < MaxRestarts
    /\ epoch' = epoch + 1
    /\ shares' = IF backend = "sqlite" THEN shares ELSE {}
    /\ req' = [r \in Requests |->
                 IF req[r].st \in {"create", "read", "delete"} THEN [st |-> "lost"]
                 ELSE req[r]]
    /\ UNCHANGED <<backend, files>>

Ids == {share_id(p) : p \in SharePolicy}

Next ==
    \/ \E r \in Requests, p \in SharePolicy : SubmitShare(r, p)
    \/ \E r \in Requests, f \in Fps, id \in Ids : LookUp(r, f, id) \/ SubmitRevoke(r, f, id)
    \/ \E r \in Requests : Create(r) \/ Serve(r) \/ Delete(r)
    \/ \E h \in Files : FileChanges(h)
    \/ Restart

Spec == Init /\ [][Next]_vars
-----------------------------------------------------------------------------
(* A wrapped key is made for the account it was shared with, with the key  *)
(* that the sender gave for this recipient and this file, whatever other   *)
(* shares came and went while the request was handled.                     *)
ServedAsShared ==
    \A r \in Requests : req[r].st = "served" =>
        \E c \in Requests : /\ req[c].st = "created"
                            /\ req[c].policy = req[r].policy
                            /\ req[c].policy.to = req[r].caller

(* Policies of one sender, recipient and file; their keys may differ.      *)
Same(p, s) == s = [p EXCEPT !.key = s.key]

(* What was answered after request r. *)
Later(r) == Answered \ (req[r].after \union {r})

(* The last answer stands.  A share that was answered is stored, alone     *)
(* with its sender, recipient and file, until an answer that came later:   *)
(* its sender revoked it, or gave the same recipient another key for the   *)
(* file; only a restart empties a memory store.  After a revoke was        *)
(* answered nothing is stored under its id until a share answered later.   *)
(* So what came before the answer excuses nothing: neither an earlier      *)
(* revoke, nor an earlier share, nor anything another sender does.         *)
ShareKept ==
    /\ \A r \in Requests : req[r].st = "created" =>
         LET p == req[r].policy
             stored == {s \in shares : Same(p, s)} IN
         \/ stored = {p}
         \/ stored = {} /\ backend = "memory" /\ req[r].epoch < epoch
         \/ \E q \in Later(r) :
              \/ req[q].st = "created" /\ Same(p, req[q].policy)
              \/ req[q].st = "revoked" /\ req[q].caller = p.from /\ req[q].id = share_id(p)
    /\ \A r \in Requests : req[r].st = "revoked" =>
         \/ \A s \in shares : share_id(s) # req[r].id
         \/ \E q \in Later(r) : req[q].st = "created" /\ share_id(req[q].policy) = req[r].id

(* Revocation is a DELETE at the proxy: a request that arrives after a     *)
(* revoke was answered is served only if the sender has shared the file    *)
(* with the recipient again since.                                         *)
RevokedUntilSharedAgain ==
    \A r, q \in Requests :
        /\ req[r].st = "served"
        /\ q \in req[r].after /\ req[q].st = "revoked"
        /\ req[q].id = share_id(req[r].policy)
        => \E c \in Requests : /\ req[c].st = "created"
                               /\ share_id(req[c].policy) = req[q].id
                               /\ q \in req[c].after
=============================================================================
