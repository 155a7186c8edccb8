----------------------------- MODULE ClientServer ------------------------------
(***************************************************************************)
(* The CLI's commands against the server, over a network that loses        *)
(* requests and answers, delivers a request twice or late, or delivers an  *)
(* upload with other bytes.  A command fetches a nonce, signs, sends one   *)
(* request and waits for its answer; it never sends again, so that a user  *)
(* who retries runs a new command with a new nonce.                        *)
(*                                                                         *)
(* The server's accounts, nonces and shares are in memory or in SQLite,    *)
(* its owners always in memory.  Requests interleave at each access to a   *)
(* store; what an upload or a delete does after its checks is one step     *)
(* here and taken apart in Files, as are shares in Shares and the nonce    *)
(* guard in NonceGuard.                                                    *)
(***************************************************************************)
EXTENDS Requests

CONSTANTS
    Ids,             \* the identities in the wallets of the users
    Cmds,            \* runs of the CLI, each with its own nonce
    Shared,          \* what has been shared when they start
    MaxFaults,       \* a bound on requests delivered twice and on uploads
                     \* delivered with other bytes
    MaxRestarts      \* a bound on restarts of the server

ASSUME ClientServerAssumption ==
    /\ Ids \subseteq Identities
    /\ Shared \subseteq Shares
    /\ MaxFaults \in Nat /\ MaxRestarts \in Nat

(* What a command of the CLI can send for an identity.                     *)
Asks(op, id, c) ==
    CASE op = "register" -> {RegisterRequest(id, c)}
      [] op = "upload" -> {UploadRequest(id, f, c) : f \in Files}
      [] op = "delete" -> {DeleteRequest(id, f, c) : f \in Files}
      [] op = "revoke" -> {RevokeRequest(id, s, c) : s \in Shared}
      [] op = "download_share" -> {DownloadShareRequest(id, s, c) : s \in Shared}
      [] op = "list_shares" -> {ListSharesRequest(id, c)}

Ops == {"register", "upload", "delete", "revoke", "download_share", "list_shares"}

(* No signature is the absent one.                                         *)
ASSUME SignatureAssumption ==
    \A op \in Ops, id \in Ids, c \in Cmds : \A q \in Asks(op, id, c) :
        q.headers.mlSig # Nothing

VARIABLES
    store,      \* which stores run, "memory" or "sqlite"
    accounts,   \* fingerprint -> ML-DSA key
    used,       \* claimed nonces
    expired,    \* nonces that are too old
    owners,     \* file -> fingerprint
    shares,
    server,     \* what the server does for each copy of a request
    cmd,        \* what each command waits for or was told
    duplicates, damages, restarts,
    acted,      \* history: what each command has made the server do
    raced       \* history: fingerprints two creates were let through for

nonces == <<used, expired>>
faults == <<duplicates, damages, restarts>>
history == <<acted, raced>>

vars == <<store, accounts, nonces, owners, shares, server, cmd, faults, history>>

Copies == Cmds \X {1, 2}
Idle == [st |-> "idle"]

Init ==
    /\ store \in {"memory", "sqlite"}
    /\ accounts \in [Eds -> Mls \union {Nothing}]
    /\ \A e \in Eds : accounts[e] = Nothing \/ [ed |-> e, ml |-> accounts[e]] \in Ids
    /\ used = {} /\ expired = {}
    /\ shares = {s \in Shared : accounts[s.from] # Nothing}
    /\ owners = [x \in Files |->
                   IF \E s \in shares : s.file = x
                   THEN (CHOOSE s \in shares : s.file = x).from ELSE Nothing]
    /\ server = [i \in Copies |-> Idle]
    /\ cmd = [c \in Cmds |-> Idle]
    /\ duplicates = 0 /\ damages = 0 /\ restarts = 0
    /\ acted = [c \in Cmds |-> <<>>]
    /\ raced = {}

-----------------------------------------------------------------------------
(* The commands.  The nonce is the server's, fresh for each command.       *)
Send(c, id, op, q) ==
    /\ cmd' = [cmd EXCEPT ![c] = [st |-> "sent", id |-> id, op |-> op, q |-> q]]
    /\ UNCHANGED <<store, accounts, nonces, owners, shares, server, faults, history>>

AccountRegister(c) ==
    /\ cmd[c] = Idle
    /\ \E id \in Ids : Send(c, id, "register", RegisterRequest(id, c))

FileUpload(c) ==
    /\ cmd[c] = Idle
    /\ \E id \in Ids, f \in Files : Send(c, id, "upload", UploadRequest(id, f, c))

FileDelete(c) ==
    /\ cmd[c] = Idle
    /\ \E id \in Ids, f \in Files : Send(c, id, "delete", DeleteRequest(id, f, c))

ShareRevoke(c) ==
    /\ cmd[c] = Idle
    /\ \E id \in Ids, s \in Shared : Send(c, id, "revoke", RevokeRequest(id, s, c))

ShareDownload(c) ==
    /\ cmd[c] = Idle
    /\ \E id \in Ids, s \in Shared :
          Send(c, id, "download_share", DownloadShareRequest(id, s, c))

ShareList(c) ==
    /\ cmd[c] = Idle
    /\ \E id \in Ids : Send(c, id, "list_shares", ListSharesRequest(id, c))

(* The answer arrives.  A command whose request or answer is lost, or that *)
(* is interrupted, is one that stays as it is.                             *)
Receive(i) ==
    /\ server[i].st = "answer" /\ cmd[i[1]].st = "sent"
    /\ cmd' = [cmd EXCEPT ![i[1]] = [@ EXCEPT !.st = server[i].status]]
    /\ server' = [server EXCEPT ![i] = [st |-> "over"]]
    /\ UNCHANGED <<store, accounts, nonces, owners, shares, faults, history>>

-----------------------------------------------------------------------------
Goes(i, s) == server' = [server EXCEPT ![i].st = s]
Answer(i, status) ==
    server' = [server EXCEPT ![i] = [st |-> "answer", status |-> status]]

(* Every handler begins with extract_signature_headers, which finds in the *)
(* headers of the CLI all it asks for, and goes on with this:              *)
First(route) ==
    CASE route = "POST/accounts" -> "create"
      [] route \in {"POST/files", "DELETE/files/hash",
                    "GET/accounts/fingerprint/shares"} -> "account"
      [] route = "DELETE/recryption/share/id" -> "share"

(* validate_nonce on a request that has arrived, fresh or too late.  A     *)
(* route the server does not have answers before that.                     *)
Arrived(c) == {k \in {1, 2} : server[<<c, k>>] # Idle}

(* Mutant: a nonce is recorded once its request has been served. *)
ValidateNonceOnly(i, q, late) ==
    IF q.route \notin Protected THEN Answer(i, "no_route") /\ UNCHANGED used
    ELSE IF late \/ q.headers.nonce \in used
    THEN Answer(i, "nonce") /\ UNCHANGED used
    ELSE /\ server' = [server EXCEPT ![i] = [st |-> First(q.route), q |-> q]]
         /\ used' = IF Arrived(i[1]) = {} THEN used ELSE used \union {q.headers.nonce}

ValidateNonce(i, q, late) ==
    IF q.route \notin Protected THEN Answer(i, "no_route") /\ UNCHANGED used
    ELSE IF late \/ q.headers.nonce \in used
    THEN Answer(i, "nonce") /\ UNCHANGED used
    ELSE /\ server' = [server EXCEPT ![i] = [st |-> First(q.route), q |-> q]]
         /\ used' = used \union {q.headers.nonce}

(* A copy of a request arrives. *)
Deliver(i, late) ==
    LET c == i[1] IN
    /\ c \in expired => late
    /\ expired' = IF late THEN expired \union {c} ELSE expired
    /\ server[i] = Idle /\ cmd[c].st # "idle"
    /\ i[2] = 2 => server[<<c, 1>>] # Idle
    /\ duplicates' = IF i[2] = 2 THEN duplicates + 1 ELSE duplicates
    /\ \/ ValidateNonce(i, cmd[c].q, late) /\ UNCHANGED damages
       \/ /\ cmd[c].op = "upload"
          /\ \E f \in Files \ {cmd[c].q.payload} :
                ValidateNonce(i, [cmd[c].q EXCEPT !.payload = f], late)
          /\ damages' = damages + 1
    /\ duplicates' + damages' <= MaxFaults
    /\ UNCHANGED <<store, accounts, owners, shares, cmd, restarts, history>>

-----------------------------------------------------------------------------
(* What the request of copy i makes the server do, with the keys it was    *)
(* verified against.                                                       *)
Acts(i, op, target, ml) ==
    acted' = [acted EXCEPT ![i[1]] = Append(@,
                [op |-> op, fp |-> server[i].q.headers.fp, ml |-> ml, target |-> target])]

Others(i, e) == {j \in Copies \ {i} : server[j].st = "register" /\ server[j].q.payload.ed = e}

(* Mutant: create_account does not ask whether the account exists. *)
CheckCreateNoExists(i) ==
    /\ server[i].st = "create"
    /\ LET q == server[i].q IN
       IF ~VerifyMultisig(CreateMessage(q), q, q.payload.ed, q.payload.ml)
       THEN Answer(i, "signature") /\ UNCHANGED raced
       ELSE /\ Goes(i, "register")
            /\ raced' = IF Others(i, q.payload.ed) = {} THEN raced
                        ELSE raced \union {q.payload.ed}
    /\ UNCHANGED <<store, accounts, nonces, owners, shares, cmd, faults, acted>>

(* create_account up to exists ... *)
CheckCreate(i) ==
    /\ server[i].st = "create"
    /\ LET q == server[i].q
           e == q.payload.ed IN
       IF e # q.headers.fp THEN Answer(i, "bad_request") /\ UNCHANGED raced
       ELSE IF ~VerifyMultisig(CreateMessage(q), q, e, q.payload.ml)
       THEN Answer(i, "signature") /\ UNCHANGED raced
       ELSE IF accounts[e] # Nothing THEN Answer(i, "conflict") /\ UNCHANGED raced
       ELSE /\ Goes(i, "register")
            /\ raced' = IF Others(i, e) = {} THEN raced ELSE raced \union {e}
    /\ UNCHANGED <<store, accounts, nonces, owners, shares, cmd, faults, acted>>

(* ... and register, which replaces.                                       *)
Register(i) ==
    /\ server[i].st = "register"
    /\ LET id == server[i].q.payload IN
       /\ accounts' = [accounts EXCEPT ![id.ed] = id.ml]
       /\ Acts(i, "register", Nothing, id.ml)
    /\ Answer(i, "ok")
    /\ UNCHANGED <<store, nonces, owners, shares, cmd, faults, raced>>

(* The account of the fingerprint in the headers, for the three routes     *)
(* that read it first and for a revoke.  What each verifies is in Message. *)
Message(q) ==
    CASE q.route = "POST/files" -> UploadMessage(q)
      [] q.route = "DELETE/files/hash" -> DeleteMessage(q)
      [] q.route = "DELETE/recryption/share/id" -> RevokeMessage(q)
      [] q.route = "GET/accounts/fingerprint/shares" -> ListSharesMessage(q)

After(q) ==
    CASE q.route = "POST/files" -> "upload"
      [] q.route = "DELETE/files/hash" -> "delete"
      [] q.route = "DELETE/recryption/share/id" -> "revoke"
      [] q.route = "GET/accounts/fingerprint/shares" -> "list"

(* A user lists only the shares of the fingerprint in the path. *)
ListsOther(q) ==
    q.route = "GET/accounts/fingerprint/shares" /\ q.headers.fp # q.payload

LookUpAccount(i) ==
    /\ server[i].st = "account"
    /\ LET q == server[i].q
           e == q.headers.fp
           ml == accounts[e] IN
       IF ListsOther(q) THEN Answer(i, "unauthorized")
       ELSE IF ml = Nothing THEN Answer(i, "not_found")
       ELSE IF q.route = "DELETE/files/hash"
       THEN server' = [server EXCEPT ![i] = [st |-> "owner", q |-> q, ml |-> ml]]
       ELSE IF VerifyMultisig(Message(q), q, e, ml)
       THEN server' = [server EXCEPT ![i] = [st |-> After(q), q |-> q, ml |-> ml]]
       ELSE Answer(i, "signature")
    /\ UNCHANGED <<store, accounts, nonces, owners, shares, cmd, faults, history>>

(* delete_file looks at the owner before it looks at the signature.        *)
CheckOwner(i) ==
    /\ server[i].st = "owner"
    /\ LET q == server[i].q IN
       IF owners[q.payload] # q.headers.fp THEN Answer(i, "unauthorized")
       ELSE IF VerifyMultisig(Message(q), q, q.headers.fp, server[i].ml)
       THEN Goes(i, "delete") ELSE Answer(i, "signature")
    /\ UNCHANGED <<store, accounts, nonces, owners, shares, cmd, faults, history>>

(* revoke_share looks at the share before it looks at the account.         *)
LookUpShare(i) ==
    /\ server[i].st = "share"
    /\ LET q == server[i].q IN
       IF q.payload \notin shares THEN Answer(i, "not_found")
       ELSE IF q.payload.from # q.headers.fp THEN Answer(i, "unauthorized")
       ELSE Goes(i, "account")
    /\ UNCHANGED <<store, accounts, nonces, owners, shares, cmd, faults, history>>

(* Mutant: an upload is answered alike whoever owns the file. *)
StoreUploadAlways(i) ==
    /\ server[i].st = "upload"
    /\ LET f == server[i].q.payload
           e == server[i].q.headers.fp IN
       IF owners[f] \in {Nothing, e}
       THEN /\ owners' = [owners EXCEPT ![f] = e]
            /\ Acts(i, "upload", f, server[i].ml)
       ELSE UNCHANGED <<owners, acted>>
    /\ Answer(i, "ok")
    /\ UNCHANGED <<store, accounts, nonces, shares, cmd, faults, raced>>

(* The rest of upload_file: the first owner stays. *)
StoreUpload(i) ==
    /\ server[i].st = "upload"
    /\ LET f == server[i].q.payload
           e == server[i].q.headers.fp IN
       IF owners[f] \in {Nothing, e}
       THEN /\ owners' = [owners EXCEPT ![f] = e]
            /\ Acts(i, "upload", f, server[i].ml)
            /\ Answer(i, "ok")
       ELSE Answer(i, "internal") /\ UNCHANGED <<owners, acted>>
    /\ UNCHANGED <<store, accounts, nonces, shares, cmd, faults, raced>>

(* The rest of delete_file, which asks for the owner once more.            *)
DeleteFile(i) ==
    /\ server[i].st = "delete"
    /\ LET f == server[i].q.payload
           e == server[i].q.headers.fp IN
       IF owners[f] = e
       THEN /\ owners' = [owners EXCEPT ![f] = Nothing]
            /\ Acts(i, "delete", f, server[i].ml)
            /\ Answer(i, "ok")
       ELSE Answer(i, "internal") /\ UNCHANGED <<owners, acted>>
    /\ UNCHANGED <<store, accounts, nonces, shares, cmd, faults, raced>>

(* The rest of revoke_share: nothing is wrong if the share is gone.        *)
DeleteShare(i) ==
    /\ server[i].st = "revoke"
    /\ shares' = shares \ {server[i].q.payload}
    /\ Acts(i, "revoke", server[i].q.payload, server[i].ml)
    /\ Answer(i, "ok")
    /\ UNCHANGED <<store, accounts, nonces, owners, cmd, faults, raced>>

(* The rest of list_shares.                                                *)
ListShares(i) ==
    /\ server[i].st = "list"
    /\ Acts(i, "list_shares", server[i].q.payload, server[i].ml)
    /\ Answer(i, "ok")
    /\ UNCHANGED <<store, accounts, nonces, owners, shares, cmd, faults, raced>>

(* The server restarts: what is in memory and what is in flight is gone.   *)
Restart ==
    /\ restarts < MaxRestarts
    /\ restarts' = restarts + 1
    /\ owners' = [f \in Files |-> Nothing]
    /\ accounts' = IF store = "sqlite" THEN accounts ELSE [e \in Eds |-> Nothing]
    /\ used' = IF store = "sqlite" THEN used ELSE {}
    /\ shares' = IF store = "sqlite" THEN shares ELSE {}
    /\ server' = [i \in Copies |-> IF server[i] = Idle THEN Idle ELSE [st |-> "over"]]
    /\ UNCHANGED <<store, expired, cmd, duplicates, damages, history>>

Next ==
    \/ \E c \in Cmds :
          \/ AccountRegister(c) \/ FileUpload(c) \/ FileDelete(c)
          \/ ShareRevoke(c) \/ ShareDownload(c) \/ ShareList(c)
    \/ \E i \in Copies :
          \/ Receive(i)
          \/ \E late \in BOOLEAN : Deliver(i, late)
          \/ CheckCreate(i) \/ Register(i)
          \/ LookUpAccount(i) \/ CheckOwner(i) \/ LookUpShare(i)
          \/ StoreUpload(i) \/ DeleteFile(i) \/ DeleteShare(i) \/ ListShares(i)
    \/ Restart

Spec == Init /\ [][Next]_vars

-----------------------------------------------------------------------------
(* The server has not lost its nonces and accounts.                        *)
Kept == store = "sqlite" \/ restarts = 0

Ended(c, statuses) == cmd[c].st \in statuses

(* One run of the CLI makes the server act at most once, however often the *)
(* network delivers its request (validate_nonce before every route).       *)
AtMostOnce == Kept => \A c \in Cmds : Len(acted[c]) <= 1

(* What the user is told is what happened: "ok" if and only if the server  *)
(* acted on a request of this command; the errors of the routes say that   *)
(* it has not and will not.  A lost answer, a refused nonce and an         *)
(* internal error tell nothing (handle_response and the routes).           *)
AnswersTrue ==
    \A c \in Cmds :
        /\ Ended(c, {"ok"}) => acted[c] # <<>>
        /\ Kept /\ Ended(c, {"signature", "conflict", "unauthorized", "not_found",
                             "bad_request", "no_route"})
           => acted[c] = <<>>

(* The server does what the command of the user said, with the file or the *)
(* share it named, and for both its keys, whatever bytes arrive (the       *)
(* messages of api.rs and of the routes agree).                            *)
ActedAsAsked ==
    \A c \in Cmds : \A k \in DOMAIN acted[c] :
        acted[c][k] = [op |-> cmd[c].op, fp |-> cmd[c].id.ed, ml |-> cmd[c].id.ml,
                       target |-> IF cmd[c].op = "register" THEN Nothing
                                  ELSE cmd[c].q.payload]

(* A user who is told that the signature is wrong sent a file that was     *)
(* damaged, or the account of that Ed25519 key has another ML-DSA key: no  *)
(* honest request fails because the two sides sign different bytes.        *)
HonestAccepted ==
    \A c \in Cmds : Kept /\ Ended(c, {"signature"}) =>
        /\ cmd[c].op # "register"
        /\ \/ cmd[c].op = "upload" /\ damages > 0
           \/ accounts[cmd[c].id.ed] # cmd[c].id.ml
           \/ cmd[c].id.ed \in raced

(* An account that a user was told is registered stays, with that user's   *)
(* keys, unless two requests were both let past exists before either had   *)
(* registered; one refused for a conflict leaves an account there.         *)
AccountStays ==
    \A c \in Cmds : Kept /\ cmd[c] # Idle /\ cmd[c].op = "register" =>
        /\ Ended(c, {"ok"}) => \/ accounts[cmd[c].id.ed] = cmd[c].id.ml
                              \/ cmd[c].id.ed \in raced
        /\ Ended(c, {"conflict"}) => accounts[cmd[c].id.ed] # Nothing
===============================================================================
