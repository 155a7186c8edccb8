------------------------------- MODULE Requests -------------------------------
(***************************************************************************)
(* Signed requests: what the CLI signs and sends (client/api.rs and        *)
(* client/auth.rs), and what the server takes the signatures of a request  *)
(* to be over and whose it wants them to be (middleware/auth.rs, core/sign *)
(* and the routes).  The two sides are written apart and have to agree.    *)
(*                                                                         *)
(* A message is the sequence of its fields, a signature the secret key     *)
(* that made it with its message; the fingerprint of an Ed25519 key, and   *)
(* the hash of a file, are that key and that file.                         *)
(***************************************************************************)
EXTENDS Integers, Sequences

CONSTANTS
    Eds,       \* Ed25519 keys
    Mls,       \* ML-DSA keys
    Files,     \* contents of files
    Nothing    \* an absent key, owner or signature

ASSUME RequestsAssumption == Nothing \notin Eds \union Mls \union Files

Identities == [ed : Eds, ml : Mls]

(* A share is known by its sender, its recipient and its file.             *)
Shares == [from : Eds, to : Eds, file : Files]

-----------------------------------------------------------------------------
(* sign_with_nonce and add_auth_headers *)
AuthHeaders(id, message, nonce) ==
    [fp |-> id.ed, nonce |-> nonce,
     edSig |-> [by |-> id.ed, over |-> message],
     mlSig |-> [by |-> id.ml, over |-> message]]

(* What goes out: the route, what path or body say, and the headers.       *)
Request(route, payload, id, message, nonce) ==
    [route |-> route, payload |-> payload, headers |-> AuthHeaders(id, message, nonce)]

RegisterRequest(id, nonce) ==
    Request("POST/accounts", id, id, <<"CREATE", id.ed, id.ml, nonce>>, nonce)

(* Mutant: the fields of an upload change places. *)
UploadRequestSwapped(id, file, nonce) ==
    Request("POST/files", file, id, <<"UPLOAD", file, id.ed, nonce>>, nonce)

UploadRequest(id, file, nonce) ==
    Request("POST/files", file, id, <<"UPLOAD", id.ed, file, nonce>>, nonce)

DeleteRequest(id, file, nonce) ==
    Request("DELETE/files/hash", file, id, <<"DELETE", id.ed, file, nonce>>, nonce)

RevokeRequest(id, share, nonce) ==
    Request("DELETE/recryption/share/id", share, id,
            <<"REVOKE", id.ed, share, nonce>>, nonce)

DownloadShareRequest(id, share, nonce) ==
    Request("GET/recryption/share/id/file", share, id,
            <<"DOWNLOAD", id.ed, share, nonce>>, nonce)

ListSharesRequest(id, nonce) ==
    Request("GET/accounts/fingerprint/shares", id.ed, id,
            <<"LIST_SHARES", id.ed, nonce>>, nonce)

-----------------------------------------------------------------------------
(* The protected routes, of those the CLI calls. *)
Protected ==
    {"POST/accounts", "POST/files", "DELETE/files/hash",
     "DELETE/recryption/share/id", "GET/accounts/fingerprint/shares"}

(* The message that a route rebuilds from the headers, the path, the body. *)
CreateMessage(q) == <<"CREATE", q.payload.ed, q.payload.ml, q.headers.nonce>>

(* Mutant: the route takes the hash from the client. *)
UploadMessageGiven(q) ==
    <<"UPLOAD", q.headers.fp, q.headers.edSig.over[3], q.headers.nonce>>

UploadMessage(q) == <<"UPLOAD", q.headers.fp, q.payload, q.headers.nonce>>
DeleteMessage(q) == <<"DELETE", q.headers.fp, q.payload, q.headers.nonce>>
RevokeMessage(q) == <<"REVOKE", q.headers.fp, q.payload, q.headers.nonce>>
ListSharesMessage(q) == <<"LIST_SHARES", q.payload, q.headers.nonce>>

(* verify_message under PqRequired: both signatures, by both keys.         *)
VerifyMessage(message, h, ed, ml) ==
    /\ h.edSig = [by |-> ed, over |-> message]
    /\ h.mlSig # Nothing
    /\ h.mlSig = [by |-> ml, over |-> message]

(* verify_multisig, with the keys of an account.                           *)
VerifyMultisig(message, q, ed, ml) ==
    ed # Nothing /\ ml # Nothing /\ VerifyMessage(message, q.headers, ed, ml)
===============================================================================
