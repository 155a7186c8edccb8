-------------------------------- MODULE Files ---------------------------------
(***************************************************************************)
(* The file routes (routes/files.rs) over a BlobStorage and the in-memory  *)
(* OwnershipStore.  Neither store knows of the other: an upload writes the *)
(* blob and then registers its owner, a delete checks the owner, removes   *)
(* the blob and then the registration, and other requests run in between.  *)
(*                                                                         *)
(* A file is named by the hash of its bytes, so that all uploads of it     *)
(* write the same bytes; the server always stores it without an outboard.  *)
(* A request whose connection closes takes no step any more.               *)
(***************************************************************************)
EXTENDS Integers

CONSTANTS
    Fps,          \* fingerprints of registered accounts
    NoOwner,
    Hashes,       \* file hashes
    Requests,     \* requests, each handled once
    MaxRestarts   \* bound on restarts of the server

ASSUME FilesAssumption ==
    /\ NoOwner \notin Fps
    /\ MaxRestarts \in Nat

VARIABLES
    storage,   \* which BlobStorage runs, LocalFileStorage or InMemoryStorage
    blobs,     \* what is stored under a hash: nothing, a truncated or a whole file
    owners,    \* file_hash -> owner
    req,       \* what each request is about and how far it has come; epoch is
               \* the restarts there had been when it arrived, past and, for
               \* an upload, stale are history (see UploadKept)
    restarts,
    disturbed  \* history: files that two requests were about at once

vars == <<storage, blobs, owners, req, restarts, disturbed>>

Idle == [st |-> "idle"]

(* The stages of a request that is under way.  An upload that has opened   *)
(* its file writes to it even when a delete has unlinked it ("unlinked").  *)
InFlight == {"put", "write", "unlinked", "register",
             "owner", "delete", "unregister", "remove"}

Init ==
    /\ storage \in {"memory", "local"}
    /\ blobs = [h \in Hashes |-> "none"]
    /\ owners = [h \in Hashes |-> NoOwner]
    /\ req = [r \in Requests |-> Idle]
    /\ restarts = 0
    /\ disturbed = {}

(* A restart breaks off what is under way: a request of an earlier epoch   *)
(* takes no step any more.                                                 *)
Live(r) == req[r].st \in InFlight /\ req[r].epoch = restarts
At(r, s) == req[r].st = s /\ req[r].epoch = restarts

Goes(r, s) == req' = [req EXCEPT ![r].st = s]
Busy(h) == \E r \in Requests : Live(r) /\ req[r].file = h

(* The deletes of a file that got past their owner check, so that they may *)
(* remove the blob and the registration; those of them that are over.      *)
Deletes(h) == {d \in Requests :
    /\ req[d].st \in {"delete", "unregister", "remove", "deleted", "failed"}
    /\ req[d].file = h}
DeletesOver(h) == {d \in Deletes(h) : ~ Live(d)}

(* A request about file h begins, perhaps amid others. *)
Touch(h) == disturbed' = IF Busy(h) THEN disturbed \union {h} ELSE disturbed

(* An authenticated upload or delete of file h by account f arrives.       *)
(* Accounts are never removed, so the lookup cannot fail later.            *)
Arrive(r, f, h, s) ==
    /\ req[r] = Idle
    /\ Touch(h)
    /\ req' = [req EXCEPT ![r] = [st |-> s, caller |-> f, file |-> h, epoch |-> restarts,
                                  past |-> DeletesOver(h), stale |-> {}]]
    /\ UNCHANGED <<storage, blobs, owners, restarts>>

(* put_with_outboard in memory: one insert. *)
PutMemory(r) ==
    /\ storage = "memory" /\ At(r, "put")
    /\ blobs' = [blobs EXCEPT ![req[r].file] = "whole"]
    /\ Goes(r, "register")
    /\ UNCHANGED <<storage, owners, restarts, disturbed>>

(* On disk fs::write creates or truncates the file and then fills it.      *)
PutOpen(r) ==
    /\ storage = "local" /\ At(r, "put")
    /\ blobs' = [blobs EXCEPT ![req[r].file] = "partial"]
    /\ Goes(r, "write")
    /\ UNCHANGED <<storage, owners, restarts, disturbed>>

(* Mutant: a write that stopped half-way counts as done. *)
PutWriteHalf(r) ==
    /\ At(r, "write") \/ At(r, "unlinked")
    /\ Goes(r, "register")
    /\ UNCHANGED <<storage, blobs, owners, restarts, disturbed>>

PutWrite(r) ==
    /\ At(r, "write") \/ At(r, "unlinked")
    /\ blobs' = IF req[r].st = "write"
                THEN [blobs EXCEPT ![req[r].file] = "whole"] ELSE blobs
    /\ Goes(r, "register")
    /\ UNCHANGED <<storage, owners, restarts, disturbed>>

(* The upload is answered; the deletes of other accounts that are past     *)
(* their owner check by then are noted.                                    *)
Created(r) ==
    LET q == req[r] IN
    req' = [req EXCEPT ![r].st = "created",
                       ![r].stale = {d \in Deletes(q.file) : req[d].caller # q.caller}]

(* Mutant: the last owner stays. *)
RegisterLast(r) ==
    /\ At(r, "register")
    /\ owners' = [owners EXCEPT ![req[r].file] = req[r].caller]
    /\ Created(r)
    /\ UNCHANGED <<storage, blobs, restarts, disturbed>>

(* register: the first owner stays; another account's upload then fails,   *)
(* after its blob has been written.                                        *)
Register(r) ==
    /\ At(r, "register")
    /\ LET q == req[r] IN
       IF owners[q.file] \in {NoOwner, q.caller}
       THEN owners' = [owners EXCEPT ![q.file] = q.caller] /\ Created(r)
       ELSE Goes(r, "refused") /\ UNCHANGED owners
    /\ UNCHANGED <<storage, blobs, restarts, disturbed>>

(* delete_file and, later, unregister ask whether the caller is the owner. *)
IsOwner(r, from, yes, no) ==
    /\ At(r, from)
    /\ Goes(r, IF owners[req[r].file] = req[r].caller THEN yes ELSE no)
    /\ UNCHANGED <<storage, blobs, owners, restarts, disturbed>>

(* delete_with_outboard; a file someone is writing is unlinked.            *)
DeleteBlob(r) ==
    /\ At(r, "delete")
    /\ blobs' = [blobs EXCEPT ![req[r].file] = "none"]
    /\ req' = [s \in Requests |->
                 IF s = r THEN [req[r] EXCEPT !.st = "unregister"]
                 ELSE IF req[s].st = "write" /\ req[s].file = req[r].file
                      THEN [req[s] EXCEPT !.st = "unlinked"] ELSE req[s]]
    /\ UNCHANGED <<storage, owners, restarts, disturbed>>

(* Mutant: the registration is kept. *)
RemoveNothing(r) ==
    /\ At(r, "remove")
    /\ Goes(r, "deleted")
    /\ UNCHANGED <<storage, blobs, owners, restarts, disturbed>>

(* unregister removes whatever is registered when it takes the write lock. *)
Remove(r) ==
    /\ At(r, "remove")
    /\ owners' = [owners EXCEPT ![req[r].file] = NoOwner]
    /\ Goes(r, "deleted")
    /\ UNCHANGED <<storage, blobs, restarts, disturbed>>

(* download_file: get_with_outboard returns what is there, unverified.     *)
Download(r, h) ==
    /\ req[r] = Idle
    /\ req' = [req EXCEPT ![r] = [st |-> "downloaded", file |-> h, data |-> blobs[h]]]
    /\ UNCHANGED <<storage, blobs, owners, restarts, disturbed>>

(* The registrations live in memory; files on disk survive as they are,    *)
(* one cut short by an upload that broke off, too.                         *)
Restart ==
    /\ restarts < MaxRestarts
    /\ restarts' = restarts + 1
    /\ owners' = [h \in Hashes |-> NoOwner]
    /\ blobs' = IF storage = "local" THEN blobs ELSE [h \in Hashes |-> "none"]
    /\ UNCHANGED <<storage, req, disturbed>>

Next ==
    \/ \E r \in Requests, f \in Fps, h \in Hashes, s \in {"put", "owner"} :
         Arrive(r, f, h, s)
    \/ \E r \in Requests : PutMemory(r) \/ PutOpen(r) \/ PutWrite(r) \/ Register(r)
    \/ \E r \in Requests : IsOwner(r, "owner", "delete", "refused") \/ DeleteBlob(r)
                        \/ IsOwner(r, "unregister", "remove", "failed") \/ Remove(r)
    \/ \E r \in Requests, h \in Hashes : Download(r, h)
    \/ Restart

Spec == Init /\ [][Next]_vars
-----------------------------------------------------------------------------
Answered(r) == req[r].st = "created"

(* The file is there, and whole unless an upload has opened it and not yet *)
(* written it, or never will.                                              *)
Stored(h) ==
    \/ blobs[h] = "whole"
    \/ /\ storage = "local" /\ blobs[h] = "partial"
       /\ \E w \in Requests : req[w].st = "write" /\ req[w].file = h

(* Its own caller's deletes that were not over when the upload arrived.    *)
OwnDeletes(r) ==
    {d \in Deletes(req[r].file) \ req[r].past : req[d].caller = req[r].caller}

(* An account that has uploaded the file in the given epoch.               *)
Uploader(f, h, epoch) == \E c \in Requests :
    Answered(c) /\ req[c].caller = f /\ req[c].file = h /\ req[c].epoch = epoch

(* An upload that was answered is kept until its caller deletes the file:  *)
(* the caller stays the owner and the file stays stored, cut short only    *)
(* where another upload of it is or was broken off.  There are two ways it *)
(* can be lost otherwise (upload_file, delete_file).  A delete of a former *)
(* owner, past its owner check when this upload was registered and not yet *)
(* over when it arrived, still takes effect.  A restart loses the files in *)
(* memory; on disk it loses the owners alone, so that a file stays until   *)
(* one who has uploaded it since deletes it, and nobody else owns it.      *)
UploadKept ==
    \A r \in Requests :
        LET q == req[r] IN
        Answered(r) /\ OwnDeletes(r) = {} /\ q.stale \subseteq q.past =>
            IF q.epoch = restarts
            THEN Stored(q.file) /\ owners[q.file] = q.caller
            ELSE storage = "local" =>
                    /\ \/ Stored(q.file)
                       \/ \E d \in Deletes(q.file) :
                             /\ req[d].epoch > q.epoch
                             /\ Uploader(req[d].caller, q.file, req[d].epoch)
                    /\ \/ owners[q.file] = NoOwner
                       \/ Uploader(owners[q.file], q.file, restarts)

(* The two stores agree on a file at rest: it is stored whole if and only  *)
(* if somebody owns it.  This holds while no two requests about the file   *)
(* overlap, and on disk until a restart forgets the owners; requests that  *)
(* fail never part the stores.                                             *)
StoresAgree ==
    \A h \in Hashes \ disturbed :
        ~ Busy(h) /\ (storage = "local" => restarts = 0) =>
            blobs[h] = IF owners[h] = NoOwner THEN "none" ELSE "whole"
=============================================================================
