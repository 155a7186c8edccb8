------------------------------- MODULE MCStores --------------------------------
(* Seven parts that share nothing, for TLC: the nonce guard, the stores    *)
(* beside the keyspaces, and the walk over a capability chain.  part says  *)
(* which of them runs.                                                     *)
EXTENDS NonceGuard, BlobStore, Ownership, ProviderIndex, Schema, Records, CapabilityChain

CONSTANTS lake, moor

(* The clock readings and stamps of the nonce guard sit on and next to the *)
(* edges of the window (WindowSecs = 1) and of the second.                 *)
MCStamps == {500, 999, 61000}
MCInstants == {0, 999, 1500, 1501, 1999, 2000, 61999, 62000, 63000}

(* Capabilities of two accounts, with the digests 1, 2, ... in the order   *)
(* they are made, that differ from those with full permissions and no      *)
(* expiry on the resource lake in permissions, expiry or resource.         *)
On(subject, permissions, expiries) == UNION {
    [issuer : Fps, granted_to : Fps, subject : {subject}, permissions : permissions,
     expires_at : expiries, parent : {IF d = 1 THEN NoParent ELSE d - 1},
     digest : {d}] : d \in Digests}

Full == {"read", "delegate"}
Mixed == On(lake, {{"read"}, {"delegate"}, Full}, {Never}) \union On(lake, {Full}, {0, 1})
           \union On(moor, {Full}, {Never})

(* Documents: fields of any length beside each other, one well-formed text *)
(* of a kind and one that is not, tags repeated and in capitals.           *)
Reader(tags) ==
    [fingerprint |-> <<1>>, permissions |-> tags, decryption_policy |-> "standalone",
     added_at |-> 0, added_by |-> <<0>>]
Draft(parent, mode, name, root_pk, members, signatures) ==
    [id |-> <<0>>, version |-> 1, parent |-> parent, mode |-> mode, name |-> name,
     root_pk |-> root_pk, epoch_pre_pk |-> <<1>>, epoch |-> 0, members |-> members,
     quorum |-> 1, signatures |-> signatures, created_at |-> 0]
Root == Tagged(<<1>>)

MCDrafts ==
    {Draft(<<>>, "create", n, Tagged(r), <<>>, s) :
        n \in {<<>>, <<1>>, <<0, 1>>}, r \in {<<>>, <<1>>, <<0>>},
        s \in {<<>>, <<Tagged(<<>>)>>, <<Tagged(<<1>>), Tagged(<<>>)>>}}
    \union {Draft(p, m, <<1>>, Root, <<>>, <<>>) :
        p \in {<<>>, <<<<1>>>>, <<<<1, 0>>>>}, m \in {"additive", "tombstone", "revoke"}}
    \union {Draft(<<<<0>>>>, "hygiene", <<>>, Root, ms, <<>>) :
        ms \in {<<Reader(t)>> : t \in {<<>>, <<"read", "READ">>, <<"write", "read">>, <<"owner">>}}
           \union {<<Reader(<<"Admin">>), Reader(<<>>)>>}}
    \union {Draft(<<>>, "create", <<1>>, [tag |-> "b58:", bytes |-> <<1>>], <<>>, <<>>)}

MCLibraryDocs ==
    {[Draft(<<<<1>>>>, m, <<1>>, <<1>>, ms, <<>>) EXCEPT !.mode = m] :
        m \in {Plain("additive"), [kind |-> "revoke", ids |-> <<<<1>>>>],
               [kind |-> "burn", ids |-> <<>>], [kind |-> "fork", ids |-> <<<<0>>>>]},
        ms \in {<<>>, <<[Reader({"read"}) EXCEPT !.decryption_policy =
            [kind |-> "threshold", threshold |-> 1, total |-> 2, policy_ref |-> <<0>>]]>>}}

MCGrantDrafts ==
    {[keyspace_id |-> <<k>>, keyspace_version |-> 3, subject |-> s, issuer |-> <<1>>,
      permissions |-> t, expires_at |-> e, delegation_depth |-> 1, parent_grant |-> p,
      created_at |-> 3] :
        k \in {0, 1}, s \in {<<0>>, <<>>}, t \in {<<>>, <<"write", "READ">>},
        e \in {<<>>, <<0>>, <<2>>}, p \in {<<>>, <<<<0>>>>}}

VARIABLE part

nonceVars == vars
storeVars == <<blobVars, ownerVars, indexVars, schemaVars, recordVars>>
allVars == <<part, nonceVars, storeVars, walkVars>>

(* No walk: one that has refused the envelope it began with. *)
WalkOver ==
    /\ clock = 0 /\ begun = 0
    /\ current = Unverified /\ chain = <<>>
    /\ st = "refused"

MCInit ==
    /\ part \in {"nonces", "blobs", "owners", "index", "schema", "records", "walk"}
    /\ Init /\ BlobInit /\ OwnerInit /\ IndexInit /\ SchemaInit /\ RecordsInit
    /\ IF part = "walk" THEN WalkInit ELSE WalkOver
    /\ part # "nonces" => backend = "memory" /\ now = 0
    /\ part # "blobs" => impl = "memory"
    /\ part # "owners" => ~sqlite
    /\ part # "schema" => versions = {}
    /\ part # "records" => ~in_sqlite

StoresNext ==
    \/ part = "blobs" /\ BlobNext
       /\ UNCHANGED <<ownerVars, indexVars, schemaVars, recordVars>>
    \/ part = "owners" /\ OwnerNext
       /\ UNCHANGED <<blobVars, indexVars, schemaVars, recordVars>>
    \/ part = "index" /\ IndexNext
       /\ UNCHANGED <<blobVars, ownerVars, schemaVars, recordVars>>
    \/ part = "schema" /\ SchemaNext
       /\ UNCHANGED <<blobVars, ownerVars, indexVars, recordVars>>
    \/ part = "records" /\ RecordsNext
       /\ UNCHANGED <<blobVars, ownerVars, indexVars, schemaVars>>

MCNext ==
    /\ UNCHANGED part
    /\ \/ part = "nonces" /\ Next /\ UNCHANGED <<storeVars, walkVars>>
       \/ StoresNext /\ UNCHANGED <<nonceVars, walkVars>>
       \/ part = "walk" /\ WalkNext /\ UNCHANGED <<nonceVars, storeVars>>

(* The fairness of the sweep and of the walk, where they run.              *)
MCFairness ==
    /\ WF_allVars(part = "nonces" /\ GcStart /\ UNCHANGED <<part, storeVars, walkVars>>)
    /\ WF_allVars(part = "nonces" /\ GcSweep /\ UNCHANGED <<part, storeVars, walkVars>>)
    /\ WF_allVars(part = "walk" /\ Turn /\ UNCHANGED <<part, nonceVars, storeVars>>)

MCSpec == MCInit /\ [][MCNext]_allVars /\ MCFairness
===============================================================================
