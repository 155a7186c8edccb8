-------------------------------- MODULE Records --------------------------------
(***************************************************************************)
(* A keyspace document and a grant on their way: the client's JSON, parsed *)
(* by the routes into a record, named by the hash of its canonical bytes,  *)
(* kept in memory or as a row of SQLite, and made JSON again for whoever   *)
(* reads it.  Who may send what, and which document is the latest, is for  *)
(* Grants, KeyspaceMemory and KeyspaceSqlite: every request here passes.   *)
(*                                                                         *)
(* A hash is the bytes hashed, a byte a number.  An integer, and the 32    *)
(* bytes of an identifier, take one byte; base58 and base64 texts are the  *)
(* bytes they decode to.  An Option is a sequence of at most one element.  *)
(***************************************************************************)
EXTENDS Integers, SequencesExt

CONSTANTS
    Drafts,         \* KeyspaceDocJson, as clients send it
    GrantDrafts,    \* AccessGrantJson
    LibraryDocs,    \* documents that a program using the store crate puts
    Width,          \* bits of a u64
    MaxPosts,       \* bounds on the records sent
    MaxSeconds      \* and on the server's clock

Octets == Seq(Nat)
Text == [tag : STRING, bytes : Octets]
U64 == 0..(2^Width - 1)
Optional(S) == {o \in Seq(S) : Len(o) <= 1}

MemberJson ==
    [fingerprint : Octets, permissions : Seq(STRING), decryption_policy : STRING,
     added_at : Nat, added_by : Octets]

KeyspaceDocJson ==
    [id : Octets, version : Nat, parent : Optional(Octets), mode : STRING, name : Octets,
     root_pk : Text, epoch_pre_pk : Octets, epoch : Nat, members : Seq(MemberJson),
     quorum : Nat, signatures : Seq(Text), created_at : Nat]

AccessGrantJson ==
    [keyspace_id : Octets, keyspace_version : U64, subject : Octets, issuer : Octets,
     permissions : Seq(STRING), expires_at : Optional(U64), delegation_depth : Nat,
     parent_grant : Optional(Octets), created_at : U64]

(* Permissions, in the order a BTreeSet yields them.                       *)
PermissionOrder == <<"read", "write", "delegate", "admin", "sign_rotation">>
Permissions == ToSet(PermissionOrder)

(* Identifiers have one length.                                            *)
IdLen == 1
WellFormed(text) == Len(text) = IdLen
Ids == {text \in Octets : WellFormed(text)}

Plain(kind) == [kind |-> kind, ids |-> <<>>]
Modes == <<"create", "additive", "hygiene", "revoke", "burn", "fork", "tombstone">>
RotationMode ==
    [kind : {"create", "additive", "hygiene", "tombstone"}, ids : {<<>>}]
    \union [kind : {"revoke", "burn"}, ids : Seq(Ids)]
    \union [kind : {"fork"}, ids : {new \in Seq(Ids) : Len(new) = 1}]

Standalone == [kind |-> "standalone"]
DecryptionPolicy ==
    {Standalone}
    \union [kind : {"threshold"}, threshold : Nat, total : Nat, policy_ref : Ids]

Member ==
    [fingerprint : Ids, permissions : SUBSET Permissions,
     decryption_policy : DecryptionPolicy, added_at : Nat, added_by : Ids]

KeyspaceDoc ==
    [id : Ids, version : Nat, parent : Optional(Ids), mode : RotationMode, name : Octets,
     root_pk : Octets, epoch_pre_pk : Ids, epoch : Nat, members : Seq(Member),
     quorum : Nat, signatures : Seq(Octets), created_at : Nat]

(* No backend knows that a power of two is a positive number.              *)
ASSUME RecordsAssumption ==
    /\ Drafts \subseteq KeyspaceDocJson
    /\ GrantDrafts \subseteq AccessGrantJson
    /\ LibraryDocs \subseteq KeyspaceDoc
    /\ Width \in Nat \ {0} /\ 2^Width \in Nat \ {0}
    /\ MaxPosts \in Nat /\ MaxSeconds \in U64

VARIABLES
    in_sqlite,      \* is the store SQLite?
    documents,      \* doc hash -> document, or its row's doc_bytes
    grants,         \* grant id -> grant, or its row
    second,         \* SystemTime
    posts,
    sent            \* history: the record each 201 was about, and the hash told

recordVars == <<in_sqlite, documents, grants, second, posts, sent>>

Empty == [h \in {} |-> h]

RecordsInit ==
    /\ in_sqlite \in BOOLEAN
    /\ documents = Empty /\ grants = Empty
    /\ second = 0 /\ posts = 0 /\ sent = {}

-----------------------------------------------------------------------------
(* The tags of permissions, in their order; they are parsed whatever their *)
(* case.                                                                   *)
Sorted(perms) ==
    FlattenSeq([n \in DOMAIN PermissionOrder |->
        IF PermissionOrder[n] \in perms THEN <<PermissionOrder[n]>> ELSE <<>>])

Lowered(tag) == CASE tag = "READ" -> "read" [] tag = "Admin" -> "admin" [] OTHER -> tag

(* string_to_caps drops a tag it does not know; the routes refuse it.      *)
ParsePermissions(tags) == {Lowered(tags[i]) : i \in DOMAIN tags} \intersect Permissions
KnownPermissions(tags) == \A i \in DOMAIN tags : Lowered(tags[i]) \in Permissions

(* Blobs have the tag "b64:".                                              *)
Tagged(bytes) == [tag |-> "b64:", bytes |-> bytes]
IsTagged(text) == text.tag = "b64:"

string_to_mode(s) ==
    IF s \in {"create", "additive", "hygiene", "tombstone"} THEN <<Plain(s)>> ELSE <<>>

string_to_decryption_policy(s) == IF s = "standalone" THEN <<Standalone>> ELSE <<>>

ToMember(m) ==
    [m EXCEPT !.permissions = ParsePermissions(@), !.decryption_policy = Standalone]

(* What a member must satisfy to be taken.                                 *)
MemberReads(m) ==
    /\ WellFormed(m.fingerprint) /\ WellFormed(m.added_by)
    /\ KnownPermissions(m.permissions)
    /\ string_to_decryption_policy(m.decryption_policy) # <<>>

json_to_doc(j) ==
    IF /\ \A text \in {j.id, j.epoch_pre_pk} \union ToSet(j.parent) : WellFormed(text)
       /\ string_to_mode(j.mode) # <<>>
       /\ \A text \in {j.root_pk} \union ToSet(j.signatures) : IsTagged(text)
       /\ \A m \in ToSet(j.members) : MemberReads(m)
    THEN <<[j EXCEPT !.mode = string_to_mode(@)[1],
                     !.root_pk = @.bytes,
                     !.members = [i \in DOMAIN @ |-> ToMember(@[i])],
                     !.signatures = [i \in DOMAIN @ |-> @[i].bytes]]>>
    ELSE <<>>

(* A threshold policy is shown without its reference, a mode without the   *)
(* identifiers it carries: json_to_doc takes neither.                      *)
FromMember(m) ==
    [m EXCEPT !.permissions = Sorted(@), !.decryption_policy = @.kind]

doc_to_json(d) ==
    [d EXCEPT !.mode = @.kind,
              !.root_pk = Tagged(@),
              !.members = [i \in DOMAIN @ |-> FromMember(@[i])],
              !.signatures = [i \in DOMAIN @ |-> Tagged(@[i])]]

(* The server's second replaces the client's created_at.                   *)
json_to_grant(j, now) ==
    IF /\ \A text \in {j.keyspace_id, j.subject, j.issuer} \union ToSet(j.parent_grant) :
             WellFormed(text)
       /\ KnownPermissions(j.permissions)
    THEN <<[j EXCEPT !.permissions = ParsePermissions(@), !.created_at = now]>>
    ELSE <<>>

grant_to_json(g) == [g EXCEPT !.permissions = Sorted(@)]

-----------------------------------------------------------------------------
(* Mutant: fields of any length follow each other bare. *)
Unprefixed(bytes) == bytes

write_len_prefixed(bytes) == <<Len(bytes)>> \o bytes

(* How many, and the tags, numbered here, in the order of the set.         *)
write_permissions(perms) ==
    LET tags == Sorted(perms) IN
      <<Len(tags)>>
      \o [i \in DOMAIN tags |->
            CHOOSE n \in DOMAIN PermissionOrder : PermissionOrder[n] = tags[i]]

OptionBytes(o) == IF o = <<>> THEN <<0>> ELSE <<1>> \o o[1]

encode_rotation_mode(m) ==
    <<CHOOSE n \in DOMAIN Modes : Modes[n] = m.kind>>
    \o (IF m.kind \in {"revoke", "burn"} THEN <<Len(m.ids)>> ELSE <<>>)
    \o FlattenSeq(m.ids)

encode_decryption_policy(p) ==
    IF p = Standalone THEN <<1>> ELSE <<2, p.threshold, p.total>> \o p.policy_ref

MemberBytes(m) ==
    m.fingerprint \o write_permissions(m.permissions)
    \o encode_decryption_policy(m.decryption_policy) \o <<m.added_at>> \o m.added_by

(* KeyspaceDoc::canonical_bytes: whatever has no length of its own comes   *)
(* with one, or with a count.                                              *)
doc_hash(d) ==
    d.id \o <<d.version>> \o OptionBytes(d.parent) \o encode_rotation_mode(d.mode)
    \o write_len_prefixed(d.name) \o write_len_prefixed(d.root_pk)
    \o d.epoch_pre_pk \o <<d.epoch, Len(d.members)>>
    \o FlattenSeq([i \in DOMAIN d.members |-> MemberBytes(d.members[i])])
    \o <<d.quorum, Len(d.signatures)>>
    \o FlattenSeq([i \in DOMAIN d.signatures |-> write_len_prefixed(d.signatures[i])])
    \o <<d.created_at>>

(* AccessGrant::canonical_bytes: without an expiry, as if it were 0.       *)
from_grant(g) ==
    g.keyspace_id \o <<g.keyspace_version>> \o g.subject \o g.issuer
    \o write_permissions(g.permissions)
    \o <<IF g.expires_at = <<>> THEN 0 ELSE g.expires_at[1], g.delegation_depth>>
    \o OptionBytes(g.parent_grant) \o <<g.created_at>>

-----------------------------------------------------------------------------
(* u64 as i64, and back.                                                   *)
AsI64(n) == IF n >= 2^(Width - 1) THEN n - 2^Width ELSE n
AsU64(i) == i % 2^Width

(* The row of a grant; permissions are tags joined by commas, and          *)
(* string_to_caps splits them again.                                       *)
GrantRow(g) ==
    [g EXCEPT !.keyspace_version = AsI64(@),
              !.permissions = Sorted(@),
              !.expires_at = [i \in DOMAIN @ |-> AsI64(@[i])],
              !.created_at = AsI64(@)]

row_to_grant(r) ==
    [r EXCEPT !.keyspace_version = AsU64(@),
              !.permissions = ParsePermissions(@),
              !.expires_at = [i \in DOMAIN @ |-> AsU64(@[i])],
              !.created_at = AsU64(@)]

(* doc_bytes: serde_json of the document, its sets become lists.           *)
AsList(m) == [m EXCEPT !.permissions = Sorted(@)]
AsSet(m) == [m EXCEPT !.permissions = ToSet(@)]

ToDocBytes(d) == [d EXCEPT !.members = [i \in DOMAIN @ |-> AsList(@[i])]]
FromDocBytes(d) == [d EXCEPT !.members = [i \in DOMAIN @ |-> AsSet(@[i])]]

Filed(map, h, x) == [k \in DOMAIN map \union {h} |-> IF k = h THEN x ELSE map[k]]

(* put, once the chain check has passed: the map replaces what it holds    *)
(* under the hash, the table's primary key refuses.                        *)
PutDoc(d, how) ==
    IF in_sqlite /\ doc_hash(d) \in DOMAIN documents THEN UNCHANGED <<documents, sent>>
    ELSE /\ documents' = Filed(documents, doc_hash(d), IF in_sqlite THEN ToDocBytes(d) ELSE d)
         /\ sent' = sent \union {[how |-> how, hash |-> doc_hash(d), record |-> d]}

Post ==
    posts < MaxPosts /\ posts' = posts + 1 /\ UNCHANGED <<in_sqlite, second>>

(* create_keyspace and publish_version.                                    *)
PostDoc(j) ==
    /\ Post /\ UNCHANGED grants
    /\ IF json_to_doc(j) = <<>> THEN UNCHANGED <<documents, sent>>
       ELSE PutDoc(json_to_doc(j)[1], "document")

(* The store's other users put documents of any mode and policy.           *)
PutDirectly(d) == Post /\ UNCHANGED grants /\ PutDoc(d, "library")

IssueRecord(g) ==
    IF from_grant(g) \in DOMAIN grants THEN UNCHANGED <<grants, sent>>
    ELSE /\ grants' = Filed(grants, from_grant(g), IF in_sqlite THEN GrantRow(g) ELSE g)
         /\ sent' = sent \union {[how |-> "grant", hash |-> from_grant(g), record |-> g]}

(* issue_grant.                                                            *)
PostGrant(j) ==
    /\ Post /\ UNCHANGED documents
    /\ IF json_to_grant(j, second) = <<>> THEN UNCHANGED <<grants, sent>>
       ELSE IssueRecord(json_to_grant(j, second)[1])

NextSecond ==
    /\ second < MaxSeconds
    /\ second' = second + 1
    /\ UNCHANGED <<in_sqlite, documents, grants, posts, sent>>

RecordsNext ==
    \/ \E j \in Drafts : PostDoc(j)
    \/ \E d \in LibraryDocs : PutDirectly(d)
    \/ \E j \in GrantDrafts : PostGrant(j)
    \/ NextSecond

RecordsSpec == RecordsInit /\ [][RecordsNext]_recordVars

-----------------------------------------------------------------------------
LoadDoc(h) == IF in_sqlite THEN FromDocBytes(documents[h]) ELSE documents[h]
LoadGrant(h) == IF in_sqlite THEN row_to_grant(grants[h]) ELSE grants[h]

(* get_keyspace, get_grant and the two lists of grants.                    *)
get_keyspace(h) == doc_to_json(LoadDoc(h))
get_grant(h) == grant_to_json(LoadGrant(h))
list_grants_by_subject(s) ==
    {get_grant(h) : h \in {x \in DOMAIN grants : grants[x].subject = s}}
list_grants_by_keyspace(k) ==
    {get_grant(h) : h \in {x \in DOMAIN grants : grants[x].keyspace_id = k}}

(* Whoever was told that a record is stored reads that record, and no      *)
(* other, under the hash it was told, from either store: what is read      *)
(* parses to what was sent and has that hash, whatever else was sent       *)
(* before or since, and a grant is in the lists of its subject and its     *)
(* keyspace.  A document the routes cannot express reads as one they       *)
(* refuse, never as another ("any silent change here invalidates every     *)
(* stored chain", keyspace.rs; "rejected loudly rather than silently       *)
(* rewritten", routes/keyspaces.rs).                                       *)
ReadsBack ==
    \A s \in sent :
        CASE s.how = "grant" ->
               LET j == get_grant(s.hash) IN
               /\ json_to_grant(j, j.created_at) = <<s.record>>
               /\ from_grant(s.record) = s.hash
               /\ j \in list_grants_by_subject(s.record.subject)
               /\ j \in list_grants_by_keyspace(s.record.keyspace_id)
          [] s.how = "document" -> json_to_doc(get_keyspace(s.hash)) = <<s.record>>
          [] s.how = "library" ->
               /\ LoadDoc(s.hash) = s.record
               /\ json_to_doc(get_keyspace(s.hash)) \in {<<>>, <<s.record>>}
===============================================================================
