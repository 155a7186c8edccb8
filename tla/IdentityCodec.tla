---------------------------- MODULE IdentityCodec -----------------------------
(***************************************************************************)
(* An identity as the wallet holds it (recrypt-cli, wallet/mod.rs), as the *)
(* wire crate holds it, as the envelope it is written as, and as the       *)
(* signed envelope an export makes of that (recrypt-wire, identity.rs).    *)
(*                                                                         *)
(* A key pair is known by one value: a secret key fits the public key it   *)
(* equals, the fingerprint of a public key is that key, a signature is the *)
(* key that made it with what it was made over.  An elided assertion keeps *)
(* its digest: the digest of an envelope is what it says with nothing      *)
(* hidden.                                                                 *)
(***************************************************************************)

CONSTANTS
    Keys,     \* key pairs, of whatever algorithm
    None,     \* an absent option
    Bad,      \* an assertion whose value has another type
    Err,      \* the answer of a conversion that fails
    Known,    \* names BackendId::from_str knows, and
    Unknown,  \* one it does not
    Now,      \* the time of an import
    Names     \* names of identities

(* What a wallet holds; its unknown assertions are there or not.           *)
WalletIdentities ==
    [fp : Keys, ed : Keys, edSecret : Keys, ml : Keys, mlSecret : Keys,
     pre : Keys, preSecret : Keys, backend : Known, created : {"t", Now},
     extra : BOOLEAN]

Assertions == {"created", "ed25519-public", "ed25519-secret", "ml-dsa-public",
               "ml-dsa-secret", "name", "pre-backend", "pre-public",
               "pre-secret", "extra"}

(* The shapes of what is encoded, decoded and signed. *)
Values ==
    Keys \union Known \union Names \union {"theirs", "t", "extra", Now, Unknown, Bad, None}
KeyPairs == [public : Values, secret : Values]
PreKeys == [backend : Values, public : Values, secret : Values]
WireIdentities ==
    [fp : Keys, ed : Values, edSecret : Values, name : Values, created : Values,
     ml : KeyPairs \union {None}, pre : PreKeys \union {None}, extra : BOOLEAN]
Envelopes ==
    [version : {1, 2}, fp : Keys, says : [Assertions -> Values], hidden : SUBSET Assertions]
EnvelopeDigests == [version : {1, 2}, fp : Keys, says : [Assertions -> Values]]
Signatures == [by : Keys, over : EnvelopeDigests]
EnvelopeFiles ==
    [inner : Envelopes, wrapped : BOOLEAN, signed : Signatures \union {None},
     mldsa : Signatures \union {None}]

ASSUME CodecAssumption ==
    /\ {None, Bad, Err, Unknown, Now} \intersect (Keys \union Known) = {}
    /\ {None, Bad} \intersect (Names \union {"theirs", "t", "extra", Now}) = {}
    /\ Unknown # Bad /\ None # Bad /\ None # Err
    /\ {None, Err} \intersect (WalletIdentities \union WireIdentities) = {}
    /\ {None, Err} \intersect (Envelopes \union EnvelopeFiles) = {}
    /\ None \notin KeyPairs \union PreKeys \union Signatures

(* One generated identity: the three key pairs of one k.                   *)
Generated(k, b) ==
    [fp |-> k, ed |-> k, edSecret |-> k, ml |-> k, mlSecret |-> k,
     pre |-> k, preSecret |-> k, backend |-> b, created |-> "t", extra |-> FALSE]

-----------------------------------------------------------------------------
(* wallet_to_wire_identity; every part is there in a wallet.               *)
ToWire(name, id) ==
    [fp |-> id.fp, ed |-> id.ed, edSecret |-> id.edSecret, name |-> name,
     created |-> id.created, ml |-> [public |-> id.ml, secret |-> id.mlSecret],
     pre |-> [backend |-> id.backend, public |-> id.pre, secret |-> id.preSecret],
     extra |-> id.extra]

Complete(w) ==
    /\ w.edSecret # None /\ w.ml # None /\ w.pre # None
    /\ w.ml.secret # None
    /\ w.pre.secret # None
    /\ w.pre.backend \in Known

(* Mutant: the time of the import replaces the identity's own. *)
FromWireAnew(w) ==
    IF Complete(w)
    THEN [fp |-> w.fp, ed |-> w.ed, edSecret |-> w.edSecret,
          ml |-> w.ml.public, mlSecret |-> w.ml.secret,
          pre |-> w.pre.public, preSecret |-> w.pre.secret,
          backend |-> w.pre.backend, created |-> Now, extra |-> w.extra]
    ELSE Err

(* wallet_identity_from_wire; wire_to_wallet_identity instead takes the    *)
(* wallet's own envelopes and wants a name and a time in them.             *)
FromWire(w) ==
    IF Complete(w)
    THEN [fp |-> w.fp, ed |-> w.ed, edSecret |-> w.edSecret,
          ml |-> w.ml.public, mlSecret |-> w.ml.secret,
          pre |-> w.pre.public, preSecret |-> w.pre.secret,
          backend |-> w.pre.backend,
          created |-> IF w.created = None THEN Now ELSE w.created,
          extra |-> w.extra]
    ELSE Err

FromStored(w) == IF w.name = None \/ w.created = None THEN Err ELSE FromWire(w)

-----------------------------------------------------------------------------
Asserted(w) ==
    LET of(option, part) == IF option = None THEN None ELSE part IN
    [p \in Assertions |->
        CASE p = "created"        -> w.created
          [] p = "ed25519-public" -> w.ed
          [] p = "ed25519-secret" -> w.edSecret
          [] p = "ml-dsa-public"  -> of(w.ml, w.ml.public)
          [] p = "ml-dsa-secret"  -> of(w.ml, w.ml.secret)
          [] p = "name"           -> w.name
          [] p = "pre-backend"    -> of(w.pre, w.pre.backend)
          [] p = "pre-public"     -> of(w.pre, w.pre.public)
          [] p = "pre-secret"     -> of(w.pre, w.pre.secret)
          [] p = "extra"          -> IF w.extra THEN "extra" ELSE None]

(* Mutant: the fingerprint is not compared with the key. *)
EncodeUnchecked(w) == [version |-> 1, fp |-> w.fp, says |-> Asserted(w), hidden |-> {}]

(* to_envelope_inner                                                       *)
Encode(w) ==
    IF w.fp = w.ed
    THEN [version |-> 1, fp |-> w.fp, says |-> Asserted(w), hidden |-> {}]
    ELSE Err

(* Mutant: the envelope is not wrapped before it is signed. *)
DigestOfSubject(e) == [version |-> e.version, fp |-> e.fp]

Digest(e) == [version |-> e.version, fp |-> e.fp, says |-> e.says]
Read(e, p) == IF p \in e.hidden THEN None ELSE e.says[p]

(* from_envelope_inner.  A malformed secret key of ed25519 and a malformed *)
(* name count as absent; anything else malformed is refused, and a part    *)
(* whose public half is absent is absent.                                  *)
Lenient(v) == IF v = Bad THEN None ELSE v
Decode(e) ==
    LET ed == Read(e, "ed25519-public")
        ml == Read(e, "ml-dsa-public")
        backend == Read(e, "pre-backend")
        mlSecret == Read(e, "ml-dsa-secret")
        prePublic == Read(e, "pre-public")
        preSecret == Read(e, "pre-secret") IN
    IF \/ e.version # 1
       \/ ed \in {None, Bad}
       \/ ed # e.fp
       \/ Read(e, "created") = Bad
       \/ ml = Bad
       \/ /\ ml # None
          /\ mlSecret = Bad
       \/ backend = Bad
       \/ /\ backend # None
          /\ prePublic \in {None, Bad} \/ preSecret = Bad
    THEN Err
    ELSE [fp |-> e.fp, ed |-> ed,
          edSecret |-> Lenient(Read(e, "ed25519-secret")),
          name |-> Lenient(Read(e, "name")), created |-> Read(e, "created"),
          ml |-> IF ml = None THEN None ELSE [public |-> ml, secret |-> mlSecret],
          pre |-> IF backend = None THEN None
                  ELSE [backend |-> backend, public |-> prePublic, secret |-> preSecret],
          extra |-> Read(e, "extra") # None]

-----------------------------------------------------------------------------
(* An envelope file: an identity's envelope, bare or wrapped and signed.   *)
Bare(e) == [inner |-> e, wrapped |-> FALSE, signed |-> None, mldsa |-> None]

(* sign_self_hybrid, over the digest of the wrapped envelope.              *)
SignSelfHybrid(w, mlSecret) ==
    LET e == Encode(w) IN
    IF e = Err \/ w.edSecret = None THEN Err
    ELSE [inner |-> e, wrapped |-> TRUE,
          signed |-> [by |-> w.edSecret, over |-> Digest(e)],
          mldsa |-> [by |-> mlSecret, over |-> Digest(e)]]

Signs(signature, key, e) ==
    signature # None /\ signature.by = key /\ signature.over = Digest(e)

(* verify_self_signature_ed25519, and the part of it in ..._hybrid.        *)
VerifiesEd(f) ==
    LET w == Decode(f.inner) IN w # Err /\ Signs(f.signed, w.ed, f.inner)

VerifiesHybrid(f) ==
    /\ VerifiesEd(f)
    /\ LET w == Decode(f.inner) IN w.ml # None /\ Signs(f.mldsa, w.ml.public, f.inner)

(* parse_identity_envelope, and the import's conversion of what it yields. *)
ParseIdentity(f) ==
    IF ~f.wrapped \/ (IF f.mldsa # None THEN VerifiesHybrid(f) ELSE VerifiesEd(f))
    THEN Decode(f.inner) ELSE Err

Imported(f) == LET w == ParseIdentity(f) IN IF w = Err THEN Err ELSE FromWire(w)
===============================================================================
