---------------------------- MODULE KeyspaceRoutes ----------------------------
(***************************************************************************)
(* The keyspace routes of recrypt-server (routes/keyspaces.rs) up to the   *)
(* point where they hand a document to the store, and what the two stores  *)
(* share: the document, and validate_chain.                                *)
(*                                                                         *)
(* A document is known by its hash (Blake3 of its canonical bytes); docs   *)
(* gives the content behind a hash once some client has written it.  Of    *)
(* the content the model keeps what the code branches on.  KeyspaceMemory  *)
(* and KeyspaceSqlite add a store each.                                    *)
(***************************************************************************)
EXTENDS Integers, Sequences

CONSTANTS
    Keyspaces,     \* KeyspaceId
    Fps,           \* fingerprints of registered accounts
    Hash,          \* KeyspaceDocHash; as many as documents are ever written
    NoHash,        \* parent: None, latest: None
    Bodies,        \* the rest of a document, as far as the code looks at it
    Requests,      \* requests to the two writing routes, each handled once
    MaxVersion     \* bound on the version a client writes

ASSUME KeyspaceAssumption ==
    /\ NoHash \notin Hash
    /\ Bodies \subseteq [members : SUBSET Fps, signers : SUBSET Fps, adder : Fps]
    /\ MaxVersion \in Nat

VARIABLES
    docs,    \* the documents written so far, by hash
    req      \* the requests to create_keyspace and publish_version

Unwritten == [version |-> -1]

(* KeyspaceDoc.  Of a body: the members, those of them with SignRotation,  *)
(* and the added_by they name (a list that names several is refused like   *)
(* one that names another account).                                        *)
KeyspaceDoc == [ks : Keyspaces, version : 0..MaxVersion,
                parent : Hash \union {NoHash}, body : Bodies]

Written(h) == docs[h] # Unwritten

(* Mutant: the link to the newest stored version is not compared. *)
ChainByVersion(existing, d) ==
    IF d.version = 0
    THEN d.parent = NoHash /\ existing = <<>>
    ELSE existing # <<>> /\ d.version = Len(existing)

(* The rules every backend applies before it persists a document; existing *)
(* is the hash list the store reports for the keyspace.                    *)
validate_chain(existing, d) ==
    IF d.version = 0
    THEN d.parent = NoHash /\ existing = <<>>
    ELSE /\ existing # <<>>
         /\ d.version = Len(existing)
         /\ d.parent = existing[Len(existing)]

Idle == [st |-> "idle"]
Route(s, op, f, h) == [st |-> s, op |-> op, caller |-> f, hash |-> h]
Refused == [st |-> "refused"]

RoutesInit ==
    /\ docs = [h \in Hash |-> Unwritten]
    /\ req = [r \in Requests |-> Idle]

(* The head of create_keyspace: version 0, the caller's signature over the *)
(* document hash, and every member added by the caller.                    *)
CreateHead(d, f) ==
    /\ d.version = 0
    /\ d.body.members # {} => d.body.adder = f

(* A client writes document d, or sends one written before.                *)
Draft(h, d) ==
    \/ Written(h) /\ docs[h] = d /\ UNCHANGED docs
    \/ ~ Written(h) /\ docs' = [docs EXCEPT ![h] = d]

(* A request arrives: path k, body d under hash h, signed by account f.    *)
(* Signatures are not forged here, so a request whose signature fails does *)
(* not get beyond this step and is left out, as is an unregistered caller. *)
(* A client may build on a document that is not stored yet.                *)
Arrive(r, op, k, f, h, d) ==
    /\ req[r] = Idle
    /\ d.parent \in {NoHash} \union {g \in Hash : Written(g)}
    /\ Draft(h, d)
    /\ req' = [req EXCEPT ![r] =
                 IF op = "create"
                 THEN IF CreateHead(d, f) THEN Route("put", op, f, h) ELSE Refused
                 ELSE IF d.ks = k THEN Route("check", op, f, h) ELSE Refused]

(* Mutant: any member of the latest version may publish. *)
CheckMember(r, head) ==
    /\ req[r].st = "check"
    /\ req' = [req EXCEPT ![r] =
                 IF head # NoHash /\ req[r].caller \in docs[head].body.members
                 THEN [@ EXCEPT !.st = "put"] ELSE Refused]
    /\ UNCHANGED docs

(* publish_version reads the latest version (head, NoHash if there is      *)
(* none) and requires the caller to sign rotations there.                  *)
CheckSigner(r, head) ==
    /\ req[r].st = "check"
    /\ req' = [req EXCEPT ![r] =
                 IF head # NoHash /\ req[r].caller \in docs[head].body.signers
                 THEN [@ EXCEPT !.st = "put"] ELSE Refused]
    /\ UNCHANGED docs

(* The answer of the store's put. *)
Answer(r, ok) ==
    req' = [req EXCEPT ![r] = IF ok THEN [@ EXCEPT !.st = "created"] ELSE Refused]

RoutesTypeOK ==
    /\ docs \in [Hash -> KeyspaceDoc \union {Unwritten}]
    /\ req \in [Requests -> {Idle, Refused} \union
            [st : {"check", "put", "write", "created"}, op : {"create", "publish"},
             caller : Fps, hash : {h \in Hash : Written(h)}]]

Created(r) == req[r].st = "created"
=============================================================================
