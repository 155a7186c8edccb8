--------------------------- MODULE DocumentProofs ---------------------------
(***************************************************************************)
(* What is verified, imported or decrypted is what was signed, exported or *)
(* encrypted: capability chains, the identities of a wallet and encrypted  *)
(* files, for every set of keys, names, processes and contents.  The three *)
(* share nothing, and each has its section.                                *)
(***************************************************************************)
EXTENDS CapabilityChain, Wallet, EncryptedFiles,
        WellFoundedInduction, SequenceTheorems, TLAPS

(***************************************************************************)
(* Theorems about CapabilityChain, for chains of any length.               *)
(*                                                                         *)
(* Attenuated is inductive once types are known: what a turn checks of two *)
(* neighbours is transitive.  Rooted needs Walked, which says of a walk in *)
(* progress that every capability so far names a parent.                   *)
(***************************************************************************)
(* Every accepted ancestor issued on and was alive when the walk began; no *)
(* capability but the last of an accepted chain is a root.                 *)
Walked ==
    /\ \A i \in 2..Len(chain) :
         /\ chain[i].granted_to = chain[i - 1].issuer
         /\ chain[i].expires_at = Never \/ begun <= chain[i].expires_at
    /\ st = "walking" => \A i \in 1..Len(chain) : chain[i].parent # NoParent
    /\ st = "accepted" =>
         /\ chain # <<>>
         /\ \A i \in 1..Len(chain) : chain[i].parent = NoParent <=> i = Len(chain)

(* Appending one element keeps the others and adds one at the end. *)
LEMMA AppendFacts ==
    ASSUME NEW S, NEW s \in Seq(S), NEW e \in S
    PROVE  /\ Append(s, e) \in Seq(S)
           /\ Len(Append(s, e)) = Len(s) + 1
           /\ Len(s) \in Nat
           /\ \A i \in 1..Len(s) : Append(s, e)[i] = s[i] /\ s[i] \in S
           /\ Append(s, e)[Len(s) + 1] = e
           /\ s = <<>> <=> Len(s) = 0
  OBVIOUS

(* A capability's fields. *)
LEMMA CapabilityFields ==
    ASSUME NEW c \in Capabilities
    PROVE  /\ c.expires_at \in Nat \union {Never}
           /\ c.parent \in Digests \union {NoParent}
  BY CapabilityAssumption

(* Expiry bounds are transitive. *)
LEMMA WithinTransitive ==
    ASSUME NEW e \in Nat \union {Never}, NEW f \in Nat \union {Never},
           NEW g \in Nat \union {Never}, Within(e, f), Within(f, g)
    PROVE  Within(e, g)
  BY CapabilityAssumption DEF Within

(* Both turns that accept the envelope in hand append a capability that    *)
(* passed the rules.                                                       *)
LEMMA Appending ==
    ASSUME WalkTypeOK, Accept \/ Resolve
    PROVE  /\ current \in Capabilities
           /\ chain' = Append(chain, current)
           /\ Len(chain) < max_depth
           /\ chain # <<>> => Delegates(current, chain[Len(chain)])
           /\ st = "walking"
           /\ UNCHANGED <<clock, begun>>
  BY DEF WalkTypeOK, Accept, Resolve, Sound, DepthLeft, Resolvable
-----------------------------------------------------------------------------
(* The type invariant holds initially. *)
LEMMA InitTypeOK == WalkInit => WalkTypeOK
  BY CapabilityAssumption DEF WalkInit, WalkTypeOK, Resolvable

(* Every step keeps the type invariant, the bound on the length included. *)
LEMMA NextTypeOK == WalkTypeOK /\ [WalkNext]_walkVars => WalkTypeOK'
<1> SUFFICES ASSUME WalkTypeOK, [WalkNext]_walkVars PROVE WalkTypeOK'
  OBVIOUS
<1>1. ASSUME Accept \/ Resolve PROVE WalkTypeOK'
  <2>1. current \in Capabilities /\ chain' = Append(chain, current) /\ Len(chain) < max_depth
        /\ UNCHANGED <<clock, begun>>
    BY <1>1, Appending
  <2>2. chain' \in Seq(Capabilities) /\ Len(chain') <= max_depth
    BY <2>1, AppendFacts, CapabilityAssumption DEF WalkTypeOK, Resolvable
  <2>3. current' \in Capabilities \union {Unverified} /\ st' \in {"walking", "accepted", "refused"}
    BY <1>1, <2>1 DEF Accept, Resolve, Resolvable, WalkTypeOK
  <2> QED BY <2>1, <2>2, <2>3 DEF WalkTypeOK, Resolvable
<1>2. CASE Refuse
  BY <1>2 DEF Refuse, WalkTypeOK, Resolvable
<1>3. CASE TimePasses
  BY <1>3, CapabilityAssumption DEF TimePasses, WalkTypeOK, Resolvable
<1>4. CASE UNCHANGED walkVars
  BY <1>4 DEF walkVars, WalkTypeOK, Resolvable
<1> QED BY <1>1, <1>2, <1>3, <1>4 DEF WalkNext, Turn

(* The walk keeps its types, and its chain within max_depth, for every     *)
(* resolver and every depth.                                               *)
THEOREM TypeCorrect == WalkSpec => []WalkTypeOK
<1>1. WalkInit => WalkTypeOK BY InitTypeOK
<1>2. WalkTypeOK /\ [WalkNext]_walkVars => WalkTypeOK' BY NextTypeOK
<1> QED BY <1>1, <1>2, PTL DEF WalkSpec
-----------------------------------------------------------------------------
(* A new ancestor that delegated to the last capability bounds all those   *)
(* before it.                                                              *)
LEMMA NextAttenuated == WalkTypeOK /\ Attenuated /\ [WalkNext]_walkVars => Attenuated'
<1> SUFFICES ASSUME WalkTypeOK, Attenuated, [WalkNext]_walkVars PROVE Attenuated'
  OBVIOUS
<1>1. ASSUME Accept \/ Resolve PROVE Attenuated'
  <2> DEFINE n == Len(chain)
  <2>1. /\ current \in Capabilities /\ chain' = Append(chain, current)
        /\ chain # <<>> => Delegates(current, chain[n])
    BY <1>1, Appending
  <2>2. /\ n \in Nat /\ Len(chain') = n + 1
        /\ \A i \in 1..n : chain'[i] = chain[i] /\ chain[i] \in Capabilities
        /\ chain'[n + 1] = current
        /\ chain = <<>> <=> n = 0
    BY <2>1, AppendFacts DEF WalkTypeOK
  <2> HIDE DEF n
  <2> SUFFICES ASSUME NEW i \in 1..(n + 1), NEW j \in 1..(n + 1), i < j
               PROVE  /\ chain'[i].subject = chain'[j].subject
                      /\ chain'[i].permissions \subseteq chain'[j].permissions
                      /\ Within(chain'[i].expires_at, chain'[j].expires_at)
                      /\ "delegate" \in chain'[j].permissions
    BY <2>2 DEF Attenuated, Within
  <2>3. CASE j <= n
    BY <2>2, <2>3 DEF Attenuated, n
  <2>4. CASE j = n + 1
    <3>1. i \in 1..n /\ n \in 1..n /\ chain # <<>>
      BY <2>2, <2>4
    <3>2. Delegates(current, chain[n]) /\ chain'[j] = current /\ chain'[i] = chain[i]
      BY <2>1, <2>2, <2>4, <3>1
    <3>3. CASE i = n
      BY <3>2, <3>3 DEF Delegates
    <3>4. CASE i < n
      <4>1. /\ chain[i].subject = chain[n].subject
            /\ chain[i].permissions \subseteq chain[n].permissions
            /\ Within(chain[i].expires_at, chain[n].expires_at)
        BY <3>1, <3>4 DEF Attenuated, n
      <4>2. /\ chain[i].expires_at \in Nat \union {Never}
            /\ chain[n].expires_at \in Nat \union {Never}
            /\ current.expires_at \in Nat \union {Never}
        BY <2>1, <2>2, <3>1, CapabilityFields
      <4>3. Within(chain[i].expires_at, current.expires_at)
        BY <3>2, <4>1, <4>2, WithinTransitive DEF Delegates
      <4> QED BY <3>2, <4>1, <4>3 DEF Delegates
    <3> QED BY <2>2, <3>1, <3>3, <3>4
  <2> QED BY <2>2, <2>3, <2>4
<1>2. CASE Refuse \/ TimePasses \/ UNCHANGED walkVars
  <2>1. UNCHANGED chain
    BY <1>2 DEF Refuse, TimePasses, walkVars
  <2> QED BY <2>1 DEF Attenuated, Within
<1> QED BY <1>1, <1>2 DEF WalkNext, Turn

(* However long the chain, a capability accepted on it permits no more,    *)
(* lasts no longer and names no other resource than any of its ancestors.  *)
THEOREM Attenuation == WalkSpec => []Attenuated
<1>1. WalkInit => WalkTypeOK /\ Attenuated
  BY InitTypeOK DEF WalkInit, Attenuated
<1>2. WalkTypeOK /\ Attenuated /\ [WalkNext]_walkVars => WalkTypeOK' /\ Attenuated'
  BY NextTypeOK, NextAttenuated
<1> QED BY <1>1, <1>2, PTL DEF WalkSpec
-----------------------------------------------------------------------------
(* The links of the chain, as a turn adds one. *)
LEMMA NextWalked == WalkTypeOK /\ Walked /\ [WalkNext]_walkVars => Walked'
<1> SUFFICES ASSUME WalkTypeOK, Walked, [WalkNext]_walkVars PROVE Walked'
  OBVIOUS
<1>1. ASSUME Accept \/ Resolve PROVE Walked'
  <2> DEFINE n == Len(chain)
  <2>1. /\ current \in Capabilities /\ chain' = Append(chain, current)
        /\ chain # <<>> => Delegates(current, chain[n])
        /\ st = "walking" /\ UNCHANGED <<clock, begun>>
    BY <1>1, Appending
  <2>2. /\ n \in Nat /\ Len(chain') = n + 1
        /\ \A i \in 1..n : chain'[i] = chain[i]
        /\ chain'[n + 1] = current
        /\ chain = <<>> <=> n = 0
        /\ chain' # <<>>
    BY <2>1, AppendFacts DEF WalkTypeOK
  <2>3. \A i \in 1..n : chain[i].parent # NoParent
    BY <2>1 DEF Walked
  <2>4. \A i \in 2..n : /\ chain[i].granted_to = chain[i - 1].issuer
                        /\ chain[i].expires_at = Never \/ begun <= chain[i].expires_at
    BY DEF Walked
  <2>5. current.expires_at \in Nat \union {Never} /\ clock \in Nat /\ begun \in Nat /\ begun <= clock
    BY <2>1, CapabilityFields DEF WalkTypeOK
  <2> HIDE DEF n
  <2>6. ASSUME NEW i \in 2..(n + 1)
        PROVE  /\ chain'[i].granted_to = chain'[i - 1].issuer
               /\ chain'[i].expires_at = Never \/ begun' <= chain'[i].expires_at
    <3>1. CASE i <= n
      BY <2>1, <2>2, <2>4, <3>1
    <3>2. CASE i = n + 1
      <4>1. n \in 1..n /\ chain'[i - 1] = chain[n] /\ Delegates(current, chain[n])
        BY <2>1, <2>2, <3>2
      <4>2. current.expires_at = Never \/ begun <= current.expires_at
        BY <2>5, <4>1 DEF Delegates, is_expired
      <4> QED BY <2>1, <2>2, <3>2, <4>1, <4>2 DEF Delegates
    <3> QED BY <2>2, <3>1, <3>2
  <2>7. CASE Accept
    <3>1. current.parent = NoParent /\ st' = "accepted"
      BY <2>7 DEF Accept
    <3>2. \A i \in 1..(n + 1) : chain'[i].parent = NoParent <=> i = n + 1
      BY <2>2, <2>3, <3>1
    <3> QED BY <2>2, <2>6, <3>1, <3>2 DEF Walked
  <2>8. CASE Resolve
    <3>1. current.parent # NoParent /\ st' # "accepted"
      BY <2>1, <2>8 DEF Resolve
    <3>2. \A i \in 1..(n + 1) : chain'[i].parent # NoParent
      BY <2>2, <2>3, <3>1
    <3> QED BY <2>2, <2>6, <3>1, <3>2 DEF Walked
  <2> QED BY <1>1, <2>7, <2>8
<1>2. CASE Refuse
  BY <1>2 DEF Refuse, Walked
<1>3. CASE TimePasses
  BY <1>3 DEF TimePasses, Walked
<1>4. CASE UNCHANGED walkVars
  BY <1>4 DEF walkVars, Walked
<1> QED BY <1>1, <1>2, <1>3, <1>4 DEF WalkNext, Turn

(* An accepted chain ends in its only root, is linked by who was granted   *)
(* and who issued, and had no expired ancestor when the walk began.        *)
THEOREM RootedChains == WalkSpec => []Rooted
<1>1. WalkInit => WalkTypeOK /\ Walked
  BY InitTypeOK DEF WalkInit, Walked
<1>2. WalkTypeOK /\ Walked /\ [WalkNext]_walkVars => WalkTypeOK' /\ Walked'
  BY NextTypeOK, NextWalked
<1>3. Walked => Rooted
  BY DEF Walked, Rooted
<1> QED BY <1>1, <1>2, <1>3, PTL DEF WalkSpec
-----------------------------------------------------------------------------
(***************************************************************************)
(* Identities.  First what the conversions do to one identity: an envelope *)
(* is read back as what was written (DecodeEncode), an import of a changed *)
(* envelope can be written again (Completed), and a verified one says what *)
(* was exported (ImportedIsSigned).  Then the wallet: Loadable is not      *)
(* inductive, because a command saves the copy it loaded, however old; so  *)
(* the invariant says of every copy, and of every exported file, what it   *)
(* may hold.                                                               *)
(***************************************************************************)
(* What a key fits what it is read back as.  An identity that a wallet can *)
(* write: its fingerprint is that of its key.                              *)
Writable == {id \in WalletIdentities : id.fp = id.ed}
Titles == Names \union {"theirs"}

SaidOf(n, id, p) ==
    CASE p = "created"        -> id.created
      [] p = "ed25519-public" -> id.ed
      [] p = "ed25519-secret" -> id.edSecret
      [] p = "ml-dsa-public"  -> id.ml
      [] p = "ml-dsa-secret"  -> id.mlSecret
      [] p = "name"           -> n
      [] p = "pre-backend"    -> id.backend
      [] p = "pre-public"     -> id.pre
      [] p = "pre-secret"     -> id.preSecret
      [] p = "extra"          -> IF id.extra THEN "extra" ELSE None
SaysOf(n, id) == [p \in Assertions |-> SaidOf(n, id, p)]

(* The parts of an identity are values, and none of them is missing or bad. *)
LEMMA Parts ==
    ASSUME NEW id \in WalletIdentities
    PROVE  /\ \A v \in {id.fp, id.ed, id.edSecret, id.ml, id.mlSecret, id.pre, id.preSecret} :
                 v \in Keys /\ v \in Values /\ v # None /\ v # Bad
           /\ id.backend \in Known /\ id.backend \in Values
           /\ id.backend # None /\ id.backend # Bad
           /\ id.created \in {"t", Now} /\ id.created \in Values
           /\ id.created # None /\ id.created # Bad
           /\ id.extra \in BOOLEAN
  BY CodecAssumption DEF WalletIdentities, Values

LEMMA WireShape ==
    ASSUME NEW n \in Titles, NEW id \in WalletIdentities
    PROVE  /\ ToWire(n, id) \in WireIdentities
           /\ ToWire(n, id).ml \in KeyPairs /\ ToWire(n, id).ml # None
           /\ ToWire(n, id).pre \in PreKeys /\ ToWire(n, id).pre # None
<1>1. n \in Values
  BY DEF Titles, Values
<1>2. [public |-> id.ml, secret |-> id.mlSecret] \in KeyPairs
  BY Parts DEF KeyPairs
<1>3. [backend |-> id.backend, public |-> id.pre, secret |-> id.preSecret] \in PreKeys
  BY Parts DEF PreKeys
<1>. QED
  BY <1>1, <1>2, <1>3, Parts, CodecAssumption DEF ToWire, WireIdentities

LEMMA AssertedOf ==
    ASSUME NEW n \in Titles, NEW id \in WalletIdentities
    PROVE  Asserted(ToWire(n, id)) = SaysOf(n, id)
<1>. DEFINE w == ToWire(n, id)
<1>1. w.ml # None /\ w.pre # None
  BY WireShape
<1>2. /\ w.created = id.created /\ w.ed = id.ed /\ w.edSecret = id.edSecret
      /\ w.ml.public = id.ml /\ w.ml.secret = id.mlSecret /\ w.name = n
      /\ w.pre.backend = id.backend /\ w.pre.public = id.pre /\ w.pre.secret = id.preSecret
      /\ w.extra = id.extra
  BY DEF ToWire
<1>. HIDE DEF w
<1>3. Asserted(w) = SaysOf(n, id)
  BY <1>1, <1>2 DEF Asserted, SaysOf, SaidOf
<1>. QED
  BY <1>3 DEF w

LEMMA SaysShape ==
    ASSUME NEW n \in Titles, NEW id \in WalletIdentities
    PROVE  /\ SaysOf(n, id) \in [Assertions -> Values]
           /\ SaysOf(n, id)["created"] = id.created
           /\ SaysOf(n, id)["ed25519-public"] = id.ed
           /\ SaysOf(n, id)["ed25519-secret"] = id.edSecret
           /\ SaysOf(n, id)["ml-dsa-public"] = id.ml
           /\ SaysOf(n, id)["ml-dsa-secret"] = id.mlSecret
           /\ SaysOf(n, id)["name"] = n
           /\ SaysOf(n, id)["pre-backend"] = id.backend
           /\ SaysOf(n, id)["pre-public"] = id.pre
           /\ SaysOf(n, id)["pre-secret"] = id.preSecret
           /\ SaysOf(n, id)["extra"] = IF id.extra THEN "extra" ELSE None
<1>1. /\ SaysOf(n, id)["created"] = id.created
      /\ SaysOf(n, id)["ed25519-public"] = id.ed
      /\ SaysOf(n, id)["ed25519-secret"] = id.edSecret
      /\ SaysOf(n, id)["ml-dsa-public"] = id.ml
      /\ SaysOf(n, id)["ml-dsa-secret"] = id.mlSecret
      /\ SaysOf(n, id)["name"] = n
      /\ SaysOf(n, id)["pre-backend"] = id.backend
      /\ SaysOf(n, id)["pre-public"] = id.pre
      /\ SaysOf(n, id)["pre-secret"] = id.preSecret
      /\ SaysOf(n, id)["extra"] = IF id.extra THEN "extra" ELSE None
  BY DEF SaysOf, SaidOf, Assertions
<1>2. n \in Values /\ "extra" \in Values /\ None \in Values
  BY DEF Titles, Values
<1>3. \A p \in Assertions : SaidOf(n, id, p) \in Values
  BY <1>2, Parts DEF Assertions, SaidOf
<1>4. SaysOf(n, id) \in [Assertions -> Values]
  BY <1>3 DEF SaysOf
<1>. QED
  BY <1>1, <1>4

(* to_envelope_inner refuses exactly a fingerprint of another key.         *)
LEMMA EncodeOf ==
    ASSUME NEW n \in Titles, NEW id \in WalletIdentities
    PROVE  /\ id.fp # id.ed => Encode(ToWire(n, id)) = Err
           /\ id.fp = id.ed =>
                /\ Encode(ToWire(n, id)) =
                     [version |-> 1, fp |-> id.fp, says |-> SaysOf(n, id), hidden |-> {}]
                /\ Encode(ToWire(n, id)) \in Envelopes
                /\ Encode(ToWire(n, id)) \notin {None, Err}
<1>1. ToWire(n, id).fp = id.fp /\ ToWire(n, id).ed = id.ed
  BY DEF ToWire
<1>2. [version |-> 1, fp |-> id.fp, says |-> SaysOf(n, id), hidden |-> {}] \in Envelopes
  BY Parts, SaysShape DEF Envelopes
<1>. QED
  BY <1>1, <1>2, AssertedOf, CodecAssumption DEF Encode

(* What is written in an envelope is what is read from it.                 *)
LEMMA DecodeEncode ==
    ASSUME NEW n \in Titles, NEW id \in Writable
    PROVE  Decode(Encode(ToWire(n, id))) = ToWire(n, id)
<1>1. id \in WalletIdentities /\ id.fp = id.ed
  BY DEF Writable
<1>2. PICK e : e = Encode(ToWire(n, id))
  OBVIOUS
<1>3. e = [version |-> 1, fp |-> id.fp, says |-> SaysOf(n, id), hidden |-> {}]
  BY <1>1, <1>2, EncodeOf
<1>4. \A p \in Assertions : Read(e, p) = SaysOf(n, id)[p]
  BY <1>3 DEF Read
<1>5. /\ Read(e, "ed25519-public") = id.ed /\ Read(e, "ed25519-secret") = id.edSecret
      /\ Read(e, "ml-dsa-public") = id.ml /\ Read(e, "ml-dsa-secret") = id.mlSecret
      /\ Read(e, "pre-public") = id.pre /\ Read(e, "pre-secret") = id.preSecret
      /\ Read(e, "pre-backend") = id.backend
      /\ Read(e, "created") = id.created /\ Read(e, "name") = n
      /\ Read(e, "extra") = IF id.extra THEN "extra" ELSE None
  BY <1>1, <1>4, SaysShape DEF Assertions
<1>6. e.version = 1 /\ e.fp = id.ed
  BY <1>1, <1>3
<1>7. (Read(e, "extra") # None) = id.extra
  <2>1. CASE id.extra = TRUE
    BY <1>5, <2>1, CodecAssumption
  <2>2. CASE id.extra = FALSE
    BY <1>5, <2>2
  <2>. QED
    BY <1>1, <2>1, <2>2, Parts
<1>8. n # Bad
  BY CodecAssumption DEF Titles
<1>9. Lenient(Read(e, "ed25519-secret")) = id.edSecret /\ Lenient(Read(e, "name")) = n
  BY <1>1, <1>5, <1>8, Parts DEF Lenient
<1>10. Decode(e) =
        [fp |-> e.fp, ed |-> id.ed, edSecret |-> id.edSecret, name |-> n,
         created |-> id.created, ml |-> [public |-> id.ml, secret |-> id.mlSecret],
         pre |-> [backend |-> id.backend, public |-> id.pre, secret |-> id.preSecret],
         extra |-> Read(e, "extra") # None]
  BY <1>1, <1>5, <1>6, <1>9, Parts DEF Decode
<1>. QED
  BY <1>1, <1>2, <1>6, <1>7, <1>10 DEF ToWire

LEMMA FromWireToWire ==
    ASSUME NEW n \in Titles, NEW id \in WalletIdentities
    PROVE  /\ FromWire(ToWire(n, id)) = id
           /\ FromStored(ToWire(n, id)) = id
           /\ ToWire(n, id) # Err /\ id # Err /\ id # None
<1>1. PICK w : w = ToWire(n, id)
  OBVIOUS
<1>2. w \in WireIdentities /\ w # Err /\ w.ml # None /\ w.pre # None
  BY <1>1, WireShape, CodecAssumption
<1>3. /\ w.fp = id.fp /\ w.ed = id.ed /\ w.edSecret = id.edSecret
      /\ w.ml.public = id.ml /\ w.ml.secret = id.mlSecret
      /\ w.pre.public = id.pre /\ w.pre.secret = id.preSecret
      /\ w.pre.backend = id.backend /\ w.created = id.created /\ w.extra = id.extra
      /\ w.name = n
  BY <1>1 DEF ToWire
<1>4. Complete(w)
  BY <1>2, <1>3, Parts DEF Complete
<1>5. w.created # None /\ w.name # None
  BY <1>3, Parts, CodecAssumption DEF Titles
<1>6. FromWire(w) = id
  BY <1>3, <1>4, <1>5 DEF FromWire, WalletIdentities
<1>. QED
  BY <1>1, <1>2, <1>5, <1>6, CodecAssumption DEF FromStored

LEMMA DiskRoundTrip ==
    ASSUME NEW n \in Titles, NEW id \in Writable
    PROVE  /\ FromDisk(Encode(ToWire(n, id))) = id
           /\ Encode(ToWire(n, id)) \notin {None, Err}
  BY EncodeOf, DecodeEncode, FromWireToWire DEF FromDisk, Writable

(* A signed export of an identity whose secret keys are those of its       *)
(* public keys is accepted, and imported as that identity.                 *)
LEMMA SignedRoundTrip ==
    ASSUME NEW n \in Titles, NEW id \in Writable,
           id.edSecret = id.ed, id.mlSecret = id.ml
    PROVE  Imported(SignSelfHybrid(ToWire(n, id), id.mlSecret)) = id
<1>1. id \in WalletIdentities /\ id.fp = id.ed
  BY DEF Writable
<1>2. PICK w : w = ToWire(n, id)
  OBVIOUS
<1>3. PICK e : e = Encode(w)
  OBVIOUS
<1>4. e # Err /\ Decode(e) = w /\ w # Err /\ FromWire(w) = id
  BY <1>1, <1>2, <1>3, EncodeOf, DecodeEncode, FromWireToWire
<1>5. /\ w.ed = id.ed /\ w.edSecret = id.ed /\ w.ml # None /\ w.ml.public = id.ml
      /\ w.edSecret # None
  BY <1>1, <1>2, WireShape, Parts DEF ToWire
<1>6. PICK f : f = SignSelfHybrid(w, id.mlSecret)
  OBVIOUS
<1>7. f = [inner |-> e, wrapped |-> TRUE, signed |-> [by |-> id.ed, over |-> Digest(e)],
           mldsa |-> [by |-> id.ml, over |-> Digest(e)]]
  BY <1>3, <1>4, <1>5, <1>6 DEF SignSelfHybrid
<1>8. Digest(e) \in EnvelopeDigests
  BY <1>1, <1>2, <1>3, EncodeOf DEF Digest, Envelopes, EnvelopeDigests
<1>9. f.signed \in Signatures /\ f.mldsa \in Signatures
  BY <1>1, <1>7, <1>8, Parts DEF Signatures
<1>10. VerifiesHybrid(f)
  BY <1>4, <1>5, <1>7, <1>9, CodecAssumption DEF VerifiesHybrid, VerifiesEd, Signs
<1>11. ParseIdentity(f) = w
  BY <1>4, <1>7, <1>9, <1>10, CodecAssumption DEF ParseIdentity
<1>. QED
  BY <1>2, <1>4, <1>6, <1>11 DEF Imported

-----------------------------------------------------------------------------
(* An envelope that an export has made, and what its way may have made of  *)
(* it: no value has become one of another type, but for a bad one.         *)
WellSaid ==
    {e \in Envelopes :
        /\ \A a \in KeyAssertions : e.says[a] \in Keys \union {Bad}
        /\ e.says["created"] \in {"t", Now}
        /\ e.says["pre-backend"] \in Known \union {Unknown}}
SoundFiles == {f \in EnvelopeFiles : f.inner \in WellSaid}

LEMMA Decoded ==
    ASSUME NEW e \in WellSaid, Decode(e) # Err
    PROVE  /\ e.version = 1 /\ Decode(e).fp = e.fp /\ Decode(e).ed = e.fp
           /\ Decode(e).edSecret # None =>
                Decode(e).edSecret = e.says["ed25519-secret"] /\ Decode(e).edSecret \in Keys
           /\ Decode(e).created \in {None, e.says["created"]}
           /\ Decode(e).extra = (Read(e, "extra") # None)
           /\ Decode(e).ml # None =>
                /\ Decode(e).ml.public = e.says["ml-dsa-public"] /\ Decode(e).ml.public \in Keys
                /\ Decode(e).ml.secret # None =>
                     /\ Decode(e).ml.secret = e.says["ml-dsa-secret"]
                     /\ Decode(e).ml.secret \in Keys
           /\ Decode(e).pre # None =>
                /\ Decode(e).pre.backend = e.says["pre-backend"]
                /\ Decode(e).pre.public = e.says["pre-public"] /\ Decode(e).pre.public \in Keys
                /\ Decode(e).pre.secret # None =>
                     /\ Decode(e).pre.secret = e.says["pre-secret"]
                     /\ Decode(e).pre.secret \in Keys
<1>. DEFINE ed == Read(e, "ed25519-public")
            edSecret == Read(e, "ed25519-secret")
            ml == Read(e, "ml-dsa-public")
            backend == Read(e, "pre-backend")
            mlSecret == Read(e, "ml-dsa-secret")
            prePublic == Read(e, "pre-public")
            preSecret == Read(e, "pre-secret")
<1>1. \A a \in Assertions : Read(e, a) = None \/ Read(e, a) = e.says[a]
  BY DEF Read
<1>2. /\ {"ed25519-public", "ed25519-secret", "ml-dsa-public", "ml-dsa-secret",
          "pre-public", "pre-secret"} \subseteq KeyAssertions \intersect Assertions
      /\ {"created", "extra", "pre-backend"} \subseteq Assertions
  BY DEF KeyAssertions, Assertions
<1>3. \A a \in KeyAssertions \intersect Assertions :
         Read(e, a) # None => Read(e, a) = e.says[a] /\ Read(e, a) \in Keys \union {Bad}
  BY <1>1 DEF WellSaid
<1>4. /\ e.version = 1 /\ ed = e.fp /\ ml # Bad
      /\ ml # None => mlSecret # Bad
      /\ backend # None => prePublic \notin {None, Bad} /\ preSecret # Bad
      /\ Decode(e) =
          [fp |-> e.fp, ed |-> ed, edSecret |-> Lenient(edSecret),
           name |-> Lenient(Read(e, "name")), created |-> Read(e, "created"),
           ml |-> IF ml = None THEN None ELSE [public |-> ml, secret |-> mlSecret],
           pre |-> IF backend = None THEN None
                   ELSE [backend |-> backend, public |-> prePublic, secret |-> preSecret],
           extra |-> Read(e, "extra") # None]
  BY DEF Decode
<1>. HIDE DEF ed, edSecret, ml, backend, mlSecret, prePublic, preSecret
<1>5. Decode(e).fp = e.fp /\ Decode(e).ed = e.fp
  BY <1>4
<1>6. Decode(e).edSecret # None =>
        Decode(e).edSecret = e.says["ed25519-secret"] /\ Decode(e).edSecret \in Keys
  BY <1>2, <1>3, <1>4 DEF Lenient, edSecret
<1>7. Decode(e).created \in {None, e.says["created"]}
  BY <1>1, <1>2, <1>4
<1>8. Decode(e).extra = (Read(e, "extra") # None)
  BY <1>4
<1>9. ASSUME Decode(e).ml # None
      PROVE  /\ Decode(e).ml.public = e.says["ml-dsa-public"] /\ Decode(e).ml.public \in Keys
             /\ Decode(e).ml.secret # None =>
                  /\ Decode(e).ml.secret = e.says["ml-dsa-secret"]
                  /\ Decode(e).ml.secret \in Keys
  <2>1. ml # None /\ Decode(e).ml.public = ml /\ Decode(e).ml.secret = mlSecret
    BY <1>4, <1>9
  <2>. QED
    BY <1>2, <1>3, <1>4, <2>1 DEF ml, mlSecret
<1>10. ASSUME Decode(e).pre # None
       PROVE  /\ Decode(e).pre.backend = e.says["pre-backend"]
              /\ Decode(e).pre.public = e.says["pre-public"] /\ Decode(e).pre.public \in Keys
              /\ Decode(e).pre.secret # None =>
                   /\ Decode(e).pre.secret = e.says["pre-secret"]
                   /\ Decode(e).pre.secret \in Keys
  <2>1. /\ backend # None /\ Decode(e).pre.backend = backend
        /\ Decode(e).pre.public = prePublic /\ Decode(e).pre.secret = preSecret
    BY <1>4, <1>10
  <2>. QED
    BY <1>1, <1>2, <1>3, <1>4, <2>1 DEF backend, prePublic, preSecret
<1>. QED
  BY <1>4, <1>5, <1>6, <1>7, <1>8, <1>9, <1>10

(* Whatever an import makes of an envelope, it is an identity that can be  *)
(* written, and its keys are those the envelope says.                      *)
LEMMA Completed ==
    ASSUME NEW e \in WellSaid, Decode(e) # Err, FromWire(Decode(e)) # Err
    PROVE  /\ FromWire(Decode(e)) \in Writable
           /\ e.version = 1 /\ FromWire(Decode(e)).fp = e.fp
           /\ FromWire(Decode(e)).edSecret = e.says["ed25519-secret"]
           /\ FromWire(Decode(e)).ml = e.says["ml-dsa-public"]
           /\ FromWire(Decode(e)).mlSecret = e.says["ml-dsa-secret"]
           /\ FromWire(Decode(e)).pre = e.says["pre-public"]
           /\ FromWire(Decode(e)).preSecret = e.says["pre-secret"]
           /\ FromWire(Decode(e)).backend = e.says["pre-backend"]
           /\ FromWire(Decode(e)).created \in {Now, e.says["created"]}
           /\ FromWire(Decode(e)).extra => e.says["extra"] # None
<1>1. PICK w : w = Decode(e)
  OBVIOUS
<1>2. Complete(w)
  BY <1>1 DEF FromWire
<1>3. /\ w.edSecret # None /\ w.ml # None /\ w.pre # None
      /\ w.ml.secret # None /\ w.pre.secret # None /\ w.pre.backend \in Known
  BY <1>2 DEF Complete
<1>4. /\ e.version = 1 /\ w.fp = e.fp /\ w.ed = e.fp
      /\ w.edSecret = e.says["ed25519-secret"] /\ w.edSecret \in Keys
      /\ w.ml.public = e.says["ml-dsa-public"] /\ w.ml.public \in Keys
      /\ w.ml.secret = e.says["ml-dsa-secret"] /\ w.ml.secret \in Keys
      /\ w.pre.public = e.says["pre-public"] /\ w.pre.public \in Keys
      /\ w.pre.secret = e.says["pre-secret"] /\ w.pre.secret \in Keys
      /\ w.pre.backend = e.says["pre-backend"]
  BY <1>1, <1>3, Decoded
<1>5. /\ w.created \in {None, e.says["created"]} /\ w.extra = (Read(e, "extra") # None)
      /\ e.says["created"] \in {"t", Now} /\ e.fp \in Keys
  BY <1>1, Decoded DEF WellSaid, Envelopes
<1>6. w.extra \in BOOLEAN /\ (w.extra => e.says["extra"] # None)
  BY <1>5 DEF Read
<1>7. PICK c : c = IF w.created = None THEN Now ELSE w.created
  OBVIOUS
<1>8. c \in {Now, e.says["created"]} /\ c \in {"t", Now}
  BY <1>5, <1>7
<1>9. FromWire(w) =
        [fp |-> w.fp, ed |-> w.ed, edSecret |-> w.edSecret,
         ml |-> w.ml.public, mlSecret |-> w.ml.secret,
         pre |-> w.pre.public, preSecret |-> w.pre.secret,
         backend |-> w.pre.backend, created |-> c, extra |-> w.extra]
  BY <1>2, <1>7 DEF FromWire
<1>10. FromWire(w) \in WalletIdentities
  BY <1>3, <1>4, <1>5, <1>6, <1>8, <1>9 DEF WalletIdentities
<1>. QED
  BY <1>1, <1>4, <1>5, <1>6, <1>8, <1>9, <1>10 DEF Writable

(* What is signed is the envelope, whole.                                  *)
Seals(f, n, id) == f.signed # None => f.signed.over = Digest(Encode(ToWire(n, id)))

LEMMA ImportedIsFound ==
    ASSUME NEW f \in SoundFiles, Imported(f) # Err
    PROVE  /\ Imported(f) = FromWire(Decode(f.inner)) /\ Decode(f.inner) # Err
           /\ f.wrapped => f.signed # None /\ f.signed.over = Digest(f.inner)
           /\ Imported(f) \in Writable
<1>1. ParseIdentity(f) # Err /\ Imported(f) = FromWire(ParseIdentity(f))
  BY DEF Imported
<1>2. ParseIdentity(f) = Decode(f.inner) /\ (f.wrapped => VerifiesHybrid(f) \/ VerifiesEd(f))
  BY <1>1 DEF ParseIdentity
<1>3. f.wrapped => f.signed # None /\ f.signed.over = Digest(f.inner)
  BY <1>2 DEF VerifiesHybrid, VerifiesEd, Signs
<1>4. f.inner \in WellSaid
  BY DEF SoundFiles
<1>. QED
  BY <1>1, <1>2, <1>3, <1>4, Completed

LEMMA ImportedIsSigned ==
    ASSUME NEW f \in SoundFiles, Imported(f) # Err, f.wrapped,
           NEW n \in Titles, NEW x \in Writable, Seals(f, n, x)
    PROVE  /\ Imported(f) = [x EXCEPT !.created = Imported(f).created,
                                      !.extra = Imported(f).extra]
           /\ Imported(f).created \in {x.created, Now}
           /\ Imported(f).extra => x.extra
<1>1. PICK e : e = f.inner
  OBVIOUS
<1>2. PICK id : id = Imported(f)
  OBVIOUS
<1>3. /\ id = FromWire(Decode(e)) /\ Decode(e) # Err /\ e \in WellSaid /\ id # Err
      /\ f.signed # None /\ f.signed.over = Digest(e) /\ id \in Writable
  BY <1>1, <1>2, ImportedIsFound DEF SoundFiles
<1>4. x \in WalletIdentities /\ x.fp = x.ed /\ id \in WalletIdentities /\ id.fp = id.ed
  BY <1>3 DEF Writable
<1>5. Digest(e) = Digest(Encode(ToWire(n, x)))
  BY <1>3 DEF Seals
<1>6. e.fp = x.fp /\ e.says = SaysOf(n, x)
  BY <1>4, <1>5, EncodeOf DEF Digest
<1>7. /\ id.fp = x.fp /\ id.edSecret = x.edSecret /\ id.ml = x.ml /\ id.mlSecret = x.mlSecret
      /\ id.pre = x.pre /\ id.preSecret = x.preSecret /\ id.backend = x.backend
      /\ id.created \in {Now, x.created} /\ (id.extra => e.says["extra"] # None)
  BY <1>3, <1>4, <1>6, Completed, SaysShape
<1>8. id.extra => x.extra
  BY <1>4, <1>6, <1>7, SaysShape
<1>9. id = [x EXCEPT !.created = id.created, !.extra = id.extra]
  BY <1>4, <1>7 DEF WalletIdentities
<1>. QED
  BY <1>2, <1>7, <1>8, <1>9

(* What export_identity signs.                                             *)
LEMMA ExportedIsSound ==
    ASSUME NEW n \in Titles, NEW id \in Writable
    PROVE  /\ SignSelfHybrid(ToWire(n, id), id.mlSecret) \in SoundFiles
           /\ SignSelfHybrid(ToWire(n, id), id.mlSecret) # Err
           /\ Seals(SignSelfHybrid(ToWire(n, id), id.mlSecret), n, id)
<1>1. id \in WalletIdentities /\ id.fp = id.ed
  BY DEF Writable
<1>2. PICK e : e = Encode(ToWire(n, id))
  OBVIOUS
<1>3. /\ e = [version |-> 1, fp |-> id.fp, says |-> SaysOf(n, id), hidden |-> {}]
      /\ e # Err /\ e \in Envelopes
  BY <1>1, <1>2, EncodeOf
<1>4. PICK f : f = SignSelfHybrid(ToWire(n, id), id.mlSecret)
  OBVIOUS
<1>5. ToWire(n, id).edSecret = id.edSecret /\ id.edSecret # None
  BY <1>1, Parts DEF ToWire
<1>6. f = [inner |-> e, wrapped |-> TRUE, signed |-> [by |-> id.edSecret, over |-> Digest(e)],
           mldsa |-> [by |-> id.mlSecret, over |-> Digest(e)]]
  BY <1>2, <1>3, <1>4, <1>5 DEF SignSelfHybrid
<1>7. Digest(e) \in EnvelopeDigests
  BY <1>3 DEF Digest, Envelopes, EnvelopeDigests
<1>8. [by |-> id.edSecret, over |-> Digest(e)] \in Signatures
      /\ [by |-> id.mlSecret, over |-> Digest(e)] \in Signatures
  BY <1>1, <1>7, Parts DEF Signatures
<1>9. f \in EnvelopeFiles
  BY <1>3, <1>6, <1>8 DEF EnvelopeFiles
<1>10. KeyAssertions = {"ed25519-public", "ed25519-secret", "ml-dsa-public", "ml-dsa-secret",
                        "pre-public", "pre-secret"}
  BY DEF KeyAssertions, Assertions
<1>11. \A a \in KeyAssertions : e.says[a] \in Keys
  BY <1>1, <1>3, <1>10, Parts, SaysShape
<1>12. e \in WellSaid
  BY <1>1, <1>3, <1>11, Parts, SaysShape DEF WellSaid
<1>13. Seals(f, n, id)
  BY <1>2, <1>6 DEF Seals
<1>14. f \in SoundFiles
  BY <1>6, <1>9, <1>12 DEF SoundFiles
<1>15. f # Err
  BY <1>9, CodecAssumption
<1>. QED
  BY <1>4, <1>13, <1>14, <1>15

(* What may become of an envelope keeps its signature or takes it away.    *)
LEMMA ChangedIsSound ==
    ASSUME NEW doc \in SoundFiles,
           NEW d \in Redacted(doc) \union Edited(doc) \union Stripped(doc)
    PROVE  d \in SoundFiles /\ d.signed \in {None, doc.signed}
<1>1. doc \in EnvelopeFiles /\ doc.inner \in WellSaid /\ doc.inner \in Envelopes
  BY DEF SoundFiles, WellSaid
<1>2. doc.inner.says \in [Assertions -> Values] /\ doc.inner.hidden \in SUBSET Assertions
  BY <1>1 DEF Envelopes
<1>3. CASE d \in Redacted(doc)
  <2>1. PICK a \in Assertions : d = [doc EXCEPT !.inner.hidden = @ \union {a}]
    BY <1>3 DEF Redacted
  <2>2. [doc.inner EXCEPT !.hidden = @ \union {a}] \in WellSaid
    BY <1>1, <1>2 DEF WellSaid, Envelopes
  <2>3. d = [doc EXCEPT !.inner = [doc.inner EXCEPT !.hidden = @ \union {a}]]
    BY <2>1
  <2>. QED
    BY <1>1, <2>2, <2>3 DEF SoundFiles, EnvelopeFiles, WellSaid
<1>4. CASE d \in Edited(doc)
  <2>1. CASE \E a \in KeyAssertions, v \in Keys \union {Bad} :
               d = [doc EXCEPT !.inner.says[a] = v]
    <3>1. PICK a \in KeyAssertions, v \in Keys \union {Bad} :
                 d = [doc EXCEPT !.inner.says[a] = v]
      BY <2>1
    <3>2. a \in Assertions /\ a \notin {"created", "pre-backend"} /\ v \in Values
      BY DEF KeyAssertions, Values
    <3>3. PICK s : s = [doc.inner.says EXCEPT ![a] = v]
      OBVIOUS
    <3>4. s \in [Assertions -> Values] /\ \A b \in Assertions : s[b] = IF b = a THEN v ELSE doc.inner.says[b]
      BY <1>2, <3>2, <3>3
    <3>5. [doc.inner EXCEPT !.says = s] \in WellSaid
      BY <1>1, <1>2, <3>2, <3>4 DEF WellSaid, Envelopes, KeyAssertions, Assertions
    <3>6. d = [doc EXCEPT !.inner = [doc.inner EXCEPT !.says = s]]
      BY <3>1, <3>3
    <3>. QED
      BY <1>1, <3>5, <3>6 DEF SoundFiles, EnvelopeFiles, WellSaid
  <2>2. CASE d = [doc EXCEPT !.inner.says["pre-backend"] = Unknown]
    <3>1. PICK s : s = [doc.inner.says EXCEPT !["pre-backend"] = Unknown]
      OBVIOUS
    <3>2. /\ s \in [Assertions -> Values]
          /\ \A b \in Assertions : s[b] = IF b = "pre-backend" THEN Unknown ELSE doc.inner.says[b]
      BY <1>2, <3>1 DEF Assertions, Values
    <3>3. [doc.inner EXCEPT !.says = s] \in WellSaid
      BY <1>1, <1>2, <3>2 DEF WellSaid, Envelopes, KeyAssertions, Assertions
    <3>4. d = [doc EXCEPT !.inner = [doc.inner EXCEPT !.says = s]]
      BY <2>2, <3>1
    <3>. QED
      BY <1>1, <3>3, <3>4 DEF SoundFiles, EnvelopeFiles, WellSaid
  <2>3. CASE d = [doc EXCEPT !.inner.version = 2]
    <3>1. [doc.inner EXCEPT !.version = 2] \in WellSaid
      BY <1>1, <1>2 DEF WellSaid, Envelopes
    <3>2. d = [doc EXCEPT !.inner = [doc.inner EXCEPT !.version = 2]]
      BY <2>3
    <3>. QED
      BY <1>1, <3>1, <3>2 DEF SoundFiles, EnvelopeFiles, WellSaid
  <2>. QED
    BY <1>4, <2>1, <2>2, <2>3 DEF Edited
<1>5. CASE d \in Stripped(doc)
  <2>1. CASE d = Bare(doc.inner)
    BY <1>1, <2>1 DEF Bare, SoundFiles, EnvelopeFiles
  <2>2. CASE d = [doc EXCEPT !.mldsa = None]
    BY <1>1, <2>2 DEF SoundFiles, EnvelopeFiles
  <2>3. CASE d = [doc EXCEPT !.signed = None]
    BY <1>1, <2>3 DEF SoundFiles, EnvelopeFiles
  <2>. QED
    BY <1>5, <2>1, <2>2, <2>3 DEF Stripped
<1>. QED
  BY <1>3, <1>4, <1>5

-----------------------------------------------------------------------------
Holdings == [Names -> Writable \union {None}]
JsonFiles ==
    [form : {"json"}, doc : WalletIdentities, source : WalletIdentities \union {None}]
SignedFiles == [form : {"signed"}, doc : SoundFiles, source : WalletIdentities \union {None}]
FileStates == {NoFile} \union JsonFiles \union SignedFiles
LoadedRuns ==
    [st : {"loaded"}, op : {"new", "use", "delete", "export", "import"},
     name : Names \union {Unnamed}, form : {"signed", "json"}, file : Files,
     ids : Holdings, active : Names \union {None}, stale : BOOLEAN]
ImportedRuns == [st : {"imported"}, id : Writable, file : FileStates]

WalletTypeOK ==
    /\ stored \in [Names -> Envelopes \union {None}]
    /\ active \in Names \union {None}
    /\ files \in [Files -> FileStates]
    /\ runs \in [Procs -> {NoCommand} \union LoadedRuns \union ImportedRuns]
    /\ used \in SUBSET Keys /\ commands \in Nat /\ changes \in Nat
    /\ expected \in Holdings
    /\ raced \in BOOLEAN
    /\ exported \in SUBSET Writable

(* The wallet file is one that was saved. *)
Readable == \E ids \in Holdings : stored = ToDisk(ids)
ActiveHeld == active # None => stored[active] # None

CopiesHold ==
    \A p \in Procs : runs[p].st = "loaded" =>
        /\ runs[p].op \notin {"new", "import"} => runs[p].name # Unnamed
        /\ runs[p].active # None => runs[p].ids[runs[p].active] # None
        /\ ~runs[p].stale => runs[p].ids = Loaded

(* A file that may have been changed on its way is signed, if it is, over  *)
(* an identity that was exported; one that was not is what its source says. *)
Genuine(f, given) ==
    /\ f \in JsonFiles /\ f.source # None =>
          f.source \in Writable /\ f.doc = [f.source EXCEPT !.extra = FALSE]
    /\ f \in SignedFiles =>
          /\ f.doc.signed # None => \E e \in given, n \in Titles : Seals(f.doc, n, e)
          /\ f.source # None =>
                /\ f.source \in Writable
                /\ \E n \in Titles :
                      f.doc = SignSelfHybrid(ToWire(n, f.source), f.source.mlSecret)

FilesGenuine == \A x \in Files : Genuine(files[x], exported)
ImportsGenuine ==
    \A p \in Procs : runs[p].st = "imported" =>
        Genuine(runs[p].file, exported) /\ runs[p].id = FromFile(runs[p].file)

WalletIInv ==
    /\ WalletTypeOK /\ Readable /\ ActiveHeld /\ CopiesHold
    /\ FilesGenuine /\ ImportsGenuine /\ KeptUnlessRaced

-----------------------------------------------------------------------------
LEMMA SavedLoads ==
    ASSUME NEW ids \in Holdings
    PROVE  /\ ToDisk(ids) \in [Names -> Envelopes \union {None}]
           /\ \A n \in Names :
                /\ FromDisk(ToDisk(ids)[n]) = ids[n] /\ ids[n] # Err
                /\ ToDisk(ids)[n] = None <=> ids[n] = None
<1>1. ASSUME NEW n \in Names
      PROVE  /\ ToDisk(ids)[n] \in Envelopes \union {None}
             /\ FromDisk(ToDisk(ids)[n]) = ids[n] /\ ids[n] # Err
             /\ ToDisk(ids)[n] = None <=> ids[n] = None
  <2>1. n \in Titles /\ ids[n] \in Writable \union {None}
    BY DEF Titles, Holdings
  <2>2. ToDisk(ids)[n] = IF ids[n] = None THEN None ELSE Encode(ToWire(n, ids[n]))
    BY DEF ToDisk
  <2>3. CASE ids[n] = None
    BY <2>2, <2>3, CodecAssumption DEF FromDisk
  <2>4. CASE ids[n] # None
    <3>1. ids[n] \in Writable /\ ids[n] \in WalletIdentities /\ ids[n].fp = ids[n].ed
      BY <2>1, <2>4 DEF Writable
    <3>2. Encode(ToWire(n, ids[n])) \in Envelopes
      BY <2>1, <3>1, EncodeOf
    <3>. QED
      BY <2>1, <2>2, <2>4, <3>1, <3>2, DiskRoundTrip, CodecAssumption
  <2>. QED
    BY <2>3, <2>4
<1>. QED
  BY <1>1 DEF ToDisk

(* What cannot be read back is not written.                                *)
LEMMA SavedIsWritable ==
    ASSUME NEW ids \in [Names -> WalletIdentities \union {None}], Saves(ids)
    PROVE  ids \in Holdings
<1>1. ASSUME NEW n \in Names, ids[n] # None
      PROVE  ids[n] \in Writable
  <2>1. n \in Titles /\ ids[n] \in WalletIdentities
    BY <1>1 DEF Titles
  <2>2. Encode(ToWire(n, ids[n])) # Err
    BY <1>1 DEF Saves, ToDisk
  <2>. QED
    BY <2>1, <2>2, EncodeOf DEF Writable
<1>. QED
  BY <1>1 DEF Holdings

LEMMA LoadedFits ==
    ASSUME WalletTypeOK, Readable
    PROVE  /\ Loads /\ Loaded \in Holdings
           /\ \A n \in Names : stored[n] = None <=> Loaded[n] = None
<1>1. PICK ids \in Holdings : stored = ToDisk(ids)
  BY DEF Readable
<1>2. \A n \in Names : Loaded[n] = ids[n] /\ ids[n] # Err /\ (stored[n] = None <=> ids[n] = None)
  BY <1>1, SavedLoads DEF Loaded
<1>3. Loaded = ids
  BY <1>2 DEF Loaded, Holdings
<1>. QED
  BY <1>2, <1>3 DEF Loads

LEMMA RunShapes ==
    ASSUME WalletTypeOK, NEW p \in Procs
    PROVE  /\ runs[p].st = "loaded" <=> runs[p] \in LoadedRuns
           /\ runs[p].st = "imported" <=> runs[p] \in ImportedRuns
           /\ runs[p].st = "idle" <=> runs[p] = NoCommand
           /\ runs[p].st \in {"idle", "loaded", "imported"}
<1>1. \A r \in LoadedRuns : r.st = "loaded"
  BY DEF LoadedRuns
<1>2. \A r \in ImportedRuns : r.st = "imported"
  BY DEF ImportedRuns
<1>3. NoCommand.st = "idle"
  BY DEF NoCommand
<1>4. runs[p] \in {NoCommand} \union LoadedRuns \union ImportedRuns
  BY DEF WalletTypeOK
<1>. QED
  BY <1>1, <1>2, <1>3, <1>4

LEMMA FileShapes ==
    ASSUME NEW f \in FileStates
    PROVE  /\ f.form = "json" <=> f \in JsonFiles
           /\ f.form = "signed" <=> f \in SignedFiles
           /\ f.form \in {"none", "json", "signed"}
<1>1. CASE f = NoFile
  BY <1>1 DEF NoFile, JsonFiles, SignedFiles
<1>2. CASE f \in JsonFiles
  BY <1>2 DEF NoFile, JsonFiles, SignedFiles
<1>3. CASE f \in SignedFiles
  BY <1>3 DEF NoFile, JsonFiles, SignedFiles
<1>. QED
  BY <1>1, <1>2, <1>3 DEF FileStates

LEMMA FoundInFile ==
    ASSUME NEW f \in FileStates, FromFile(f) # Err
    PROVE  FromFile(f) \in WalletIdentities
<1>1. CASE f \in JsonFiles
  BY <1>1, FileShapes DEF FromFile, JsonFiles
<1>2. CASE f \in SignedFiles
  <2>1. f.doc \in SoundFiles /\ Imported(f.doc) # Err /\ FromFile(f) = Imported(f.doc)
    BY <1>2, FileShapes DEF FromFile, SignedFiles
  <2>. QED
    BY <2>1, ImportedIsFound DEF Writable
<1>3. CASE f = NoFile
  BY <1>3 DEF FromFile, NoFile
<1>. QED
  BY <1>1, <1>2, <1>3 DEF FileStates

(* Exports only add to what may be signed.                                 *)
LEMMA StillGenuine ==
    ASSUME NEW f, NEW given, NEW more, given \subseteq more, Genuine(f, given)
    PROVE  Genuine(f, more)
  BY DEF Genuine

-----------------------------------------------------------------------------
(* A command that ends without saving.                                     *)
LEMMA RestStep ==
    ASSUME WalletIInv, NEW p \in Procs, runs' = [runs EXCEPT ![p] = NoCommand],
           UNCHANGED <<stored, active, expected, raced, commands, changes>>,
           used' \in SUBSET Keys, exported' \in SUBSET Writable, exported \subseteq exported',
           files' \in [Files -> FileStates], FilesGenuine'
    PROVE  WalletIInv'
<1>1. WalletTypeOK /\ NoCommand.st = "idle"
  BY DEF WalletIInv, NoCommand
<1>2. \A q \in Procs : runs'[q] = IF q = p THEN NoCommand ELSE runs[q]
  BY <1>1 DEF WalletTypeOK
<1>3. WalletTypeOK'
  BY <1>1 DEF WalletTypeOK
<1>4. Readable' /\ ActiveHeld' /\ Loaded' = Loaded
  BY DEF WalletIInv, Readable, ActiveHeld, Loaded
<1>5. CopiesHold'
  BY <1>1, <1>2, <1>4 DEF WalletIInv, CopiesHold
<1>6. ImportsGenuine'
  BY <1>1, <1>2, StillGenuine DEF WalletIInv, ImportsGenuine
<1>7. KeptUnlessRaced'
  BY <1>4 DEF WalletIInv, KeptUnlessRaced
<1>. QED
  BY <1>3, <1>4, <1>5, <1>6, <1>7 DEF WalletIInv

LEMMA FailStep ==
    ASSUME WalletIInv, NEW p \in Procs, Fail(p), used' = used,
           UNCHANGED <<files, commands, changes, exported>>
    PROVE  WalletIInv'
<1>1. /\ used' \in SUBSET Keys /\ exported' \in SUBSET Writable
      /\ files' \in [Files -> FileStates]
  BY DEF WalletIInv, WalletTypeOK
<1>2. FilesGenuine'
  BY DEF WalletIInv, FilesGenuine
<1>. QED
  BY <1>1, <1>2, RestStep DEF Fail

(* A wallet is saved with one identity put in, replaced by itself, or      *)
(* taken out, and what is active is in it.                                 *)
LEMMA SaveStep ==
    ASSUME WalletIInv, NEW p \in Procs, runs[p].st = "loaded",
           NEW n \in Names, NEW id \in WalletIdentities \union {None},
           NEW act \in Names \union {None}, NEW then,
           Save(p, n, id, act, then),
           UNCHANGED <<files, commands, changes, exported>>, used' \in SUBSET Keys,
           id = None \/ runs[p].ids[n] \in {None, id},
           act # None => IF act = n THEN id # None ELSE runs[p].ids[act] # None,
           then = NoCommand \/ \E f \in FileStates :
              /\ then = [st |-> "imported", id |-> id, file |-> f]
              /\ id # None /\ Genuine(f, exported) /\ id = FromFile(f)
    PROVE  WalletIInv'
<1>. DEFINE held == [runs[p].ids EXCEPT ![n] = id]
<1>1. /\ WalletTypeOK /\ runs[p] \in LoadedRuns
  BY RunShapes DEF WalletIInv
<1>2. /\ runs[p].ids \in Holdings
  BY <1>1 DEF LoadedRuns
<1>3. /\ exported' \in SUBSET Writable /\ files' \in [Files -> FileStates] /\ FilesGenuine'
  BY DEF WalletIInv, WalletTypeOK, FilesGenuine
<1>4. PICK ids : ids = held
  OBVIOUS
<1>5. /\ ids \in [Names -> WalletIdentities \union {None}]
      /\ \A m \in Names : ids[m] = IF m = n THEN id ELSE runs[p].ids[m]
  BY <1>2, <1>4 DEF Holdings, Writable
<1>6. CASE ~Saves(ids)
  <2>1. runs' = [runs EXCEPT ![p] = NoCommand] /\ UNCHANGED <<stored, active, expected, raced>>
    BY <1>4, <1>6 DEF Save
  <2>. QED
    BY <2>1, <1>3, RestStep
<1>7. CASE Saves(ids)
  <2>1. /\ stored' = ToDisk(ids) /\ active' = act
        /\ expected' = IF id = None \/ expected[n] = None
                       THEN [expected EXCEPT ![n] = id] ELSE expected
        /\ raced' = (raced \/ runs[p].stale)
        /\ Outdate(p, then)
    BY <1>4, <1>7 DEF Save
  <2>2. ids \in Holdings
    BY <1>5, <1>7, SavedIsWritable
  <2>3. id \in Writable \union {None}
    BY <1>5, <2>2 DEF Holdings
  <2>4. expected' \in Holdings
    BY <1>1, <2>1, <2>3 DEF WalletTypeOK, Holdings
  <2>5. then \in {NoCommand} \union ImportedRuns
    BY <2>3 DEF ImportedRuns
  <2>6. \A q \in Procs :
           runs'[q] = IF q = p THEN then
                      ELSE IF runs[q].st = "loaded"
                      THEN [runs[q] EXCEPT !.stale = TRUE] ELSE runs[q]
    BY <2>1 DEF Outdate
  <2>7. ASSUME NEW q \in Procs, q # p, runs[q].st = "loaded"
        PROVE  /\ runs'[q] \in LoadedRuns /\ runs'[q].st = "loaded" /\ runs'[q].stale
               /\ runs'[q].op = runs[q].op /\ runs'[q].name = runs[q].name
               /\ runs'[q].ids = runs[q].ids /\ runs'[q].active = runs[q].active
    <3>1. runs[q] \in LoadedRuns /\ runs'[q] = [runs[q] EXCEPT !.stale = TRUE]
      BY <1>1, <2>6, <2>7, RunShapes
    <3>. QED
      BY <3>1 DEF LoadedRuns
  <2>8. runs' \in [Procs -> {NoCommand} \union LoadedRuns \union ImportedRuns]
    <3>1. \A q \in Procs : runs'[q] \in {NoCommand} \union LoadedRuns \union ImportedRuns
      BY <1>1, <2>5, <2>6, <2>7 DEF WalletTypeOK
    <3>. QED
      BY <2>1, <3>1 DEF Outdate
  <2>9. stored' \in [Names -> Envelopes \union {None}]
    BY <2>1, <2>2, SavedLoads
  <2>10. WalletTypeOK'
    BY <1>1, <1>3, <2>1, <2>4, <2>8, <2>9 DEF WalletTypeOK, LoadedRuns
  <2>11. Readable'
    BY <2>1, <2>2 DEF Readable
  <2>12. ActiveHeld'
    BY <1>5, <2>1, <2>2, SavedLoads DEF ActiveHeld
  <2>13. NoCommand.st = "idle" /\ \A r \in ImportedRuns : r.st = "imported"
    BY DEF NoCommand, ImportedRuns
  <2>14. CopiesHold'
    <3>1. ASSUME NEW q \in Procs, runs'[q].st = "loaded"
          PROVE  q # p /\ runs[q].st = "loaded"
      BY <2>5, <2>6, <2>13, <3>1
    <3>. QED
      BY <2>7, <3>1 DEF WalletIInv, CopiesHold
  <2>15. ImportsGenuine'
    <3>1. ASSUME NEW q \in Procs, q # p, runs'[q].st = "imported"
          PROVE  runs'[q] = runs[q] /\ runs[q].st = "imported"
      BY <2>6, <2>7, <3>1
    <3>2. runs'[p].st = "imported" =>
             Genuine(runs'[p].file, exported') /\ runs'[p].id = FromFile(runs'[p].file)
      <4>1. runs'[p] = then /\ exported' = exported
        BY <2>6
      <4>2. CASE then = NoCommand
        BY <2>13, <4>1, <4>2
      <4>3. CASE then # NoCommand
        <5>1. PICK f \in FileStates :
                /\ then = [st |-> "imported", id |-> id, file |-> f]
                /\ Genuine(f, exported) /\ id = FromFile(f)
          BY <4>3
        <5>2. then.file = f /\ then.id = id
          BY <5>1
        <5>. QED
          BY <4>1, <5>1, <5>2
      <4>. QED
        BY <4>2, <4>3
    <3>. QED
      BY <3>1, <3>2 DEF WalletIInv, ImportsGenuine
  <2>16. Loaded' = ids
    <3>1. \A m \in Names : FromDisk(stored'[m]) = ids[m]
      BY <2>1, <2>2, SavedLoads
    <3>. QED
      BY <2>2, <3>1 DEF Loaded, Holdings
  <2>17. KeptUnlessRaced'
    <3>1. SUFFICES ASSUME ~raced' PROVE ids = expected'
      BY <2>16 DEF KeptUnlessRaced
    <3>2. runs[p].ids = Loaded /\ Loaded = expected
      BY <2>1, <3>1, ~runs[p].stale DEF WalletIInv, CopiesHold, KeptUnlessRaced
    <3>. QED
      BY <1>1, <1>4, <2>1, <3>2 DEF WalletTypeOK, Holdings
  <2>. QED
    BY <1>3, <2>10, <2>11, <2>12, <2>14, <2>15, <2>17 DEF WalletIInv
<1>. QED
  BY <1>6, <1>7

-----------------------------------------------------------------------------
(* The commands.                                                           *)
LEMMA StartStep ==
    ASSUME WalletIInv, NEW p \in Procs, NEW c \in Command, Start(p, c)
    PROVE  WalletIInv'
<1>. DEFINE r == [st |-> "loaded", op |-> c.op, name |-> c.name, form |-> c.form,
                  file |-> c.file, ids |-> Loaded, active |-> active, stale |-> FALSE]
<1>1. WalletTypeOK /\ Loads /\ Loaded \in Holdings
  BY LoadedFits DEF WalletIInv
<1>2. /\ runs' = [runs EXCEPT ![p] = r] /\ commands' = commands + 1
      /\ UNCHANGED <<stored, active, files, used, changes, expected, raced, exported>>
      /\ c.name = Unnamed => c.op \in {"new", "import"}
  <2>1. /\ runs' = [runs EXCEPT ![p] = IF Loads THEN r ELSE NoCommand]
        /\ commands' = commands + 1
        /\ c.name = Unnamed => c.op \in {"new", "import"}
        /\ UNCHANGED <<stored, active, files, used, changes, expected, raced, exported>>
    BY Zenon DEF Start
  <2>2. (IF Loads THEN r ELSE NoCommand) = r
    BY <1>1, Zenon
  <2>. QED
    BY <2>1, <2>2, Zenon
<1>3. r \in LoadedRuns
  <2>1. /\ c.op \in {"new", "use", "delete", "export", "import"}
        /\ c.name \in Names \union {Unnamed} /\ c.form \in {"signed", "json"} /\ c.file \in Files
    BY DEF Command
  <2>2. active \in Names \union {None}
    BY <1>1 DEF WalletTypeOK
  <2>. QED
    BY <1>1, <2>1, <2>2 DEF LoadedRuns
<1>4. PICK s : s = r
  OBVIOUS
<1>5. /\ s.st = "loaded" /\ s.op = c.op /\ s.name = c.name /\ s.ids = Loaded /\ s.active = active
      /\ s \in LoadedRuns
  BY <1>3, <1>4
<1>. HIDE DEF r
<1>6. \A q \in Procs : runs'[q] = IF q = p THEN s ELSE runs[q]
  BY <1>1, <1>2, <1>4 DEF WalletTypeOK
<1>7. WalletTypeOK'
  BY <1>1, <1>2, <1>4, <1>5 DEF WalletTypeOK
<1>8. Readable' /\ ActiveHeld' /\ Loaded' = Loaded /\ FilesGenuine' /\ KeptUnlessRaced'
  BY <1>2 DEF WalletIInv, Readable, ActiveHeld, Loaded, FilesGenuine, KeptUnlessRaced
<1>9. s.active # None => s.ids[s.active] # None
  BY <1>5, LoadedFits DEF WalletIInv, ActiveHeld, WalletTypeOK
<1>10. CopiesHold'
  BY <1>2, <1>5, <1>6, <1>8, <1>9 DEF WalletIInv, CopiesHold
<1>11. ImportsGenuine'
  BY <1>2, <1>5, <1>6 DEF WalletIInv, ImportsGenuine
<1>. QED
  BY <1>7, <1>8, <1>10, <1>11 DEF WalletIInv

LEMMA RunningIs ==
    ASSUME WalletIInv, NEW p \in Procs, NEW op, Running(p, op)
    PROVE  /\ runs[p].st = "loaded" /\ runs[p] \in LoadedRuns /\ runs[p].op = op
           /\ runs[p].ids \in Holdings /\ runs[p].active \in Names \union {None}
           /\ runs[p].active # None => runs[p].ids[runs[p].active] # None
           /\ op \notin {"new", "import"} => runs[p].name \in Names
           /\ runs[p].form \in {"signed", "json"} /\ runs[p].file \in Files
<1>1. runs[p].st = "loaded" /\ runs[p] \in LoadedRuns /\ runs[p].op = op
  BY RunShapes DEF Running, WalletIInv
<1>. QED
  BY <1>1 DEF WalletIInv, CopiesHold, LoadedRuns

(* A command names only names.                                             *)
LEMMA NamesFit ==
    ASSUME WalletIInv, NEW p \in Procs, runs[p] \in LoadedRuns,
           NEW series \in Seq(Names), NEW n \in NamesFor(p, series)
    PROVE  n \in Names
<1>1. \A i \in DOMAIN series : series[i] \in Names
  OBVIOUS
<1>2. runs[p].name \in Names \union {Unnamed}
  BY DEF LoadedRuns
<1>3. CASE runs[p].name # Unnamed
  BY <1>2, <1>3 DEF NamesFor
<1>4. CASE runs[p].name = Unnamed
  <2>1. PICK i \in Free(p, series) : n = series[i]
    BY <1>4 DEF NamesFor
  <2>. QED
    BY <1>1, <2>1 DEF Free
<1>. QED
  BY <1>3, <1>4

LEMMA GeneratedIs ==
    ASSUME NEW k \in Keys, NEW b \in Known
    PROVE  /\ Generated(k, b) \in Writable /\ Generated(k, b) \in WalletIdentities
           /\ Newer(k, b) \in Writable /\ Newer(k, b).mlSecret = k
  BY DEF Generated, Newer, Writable, WalletIdentities

LEMMA NewStep ==
    ASSUME WalletIInv, NEW p \in Procs, New(p)
    PROVE  WalletIInv'
<1>1. /\ Running(p, "new") /\ UNCHANGED <<files, commands, changes, exported>>
      /\ runs[p] \in LoadedRuns /\ WalletTypeOK
  BY RunningIs DEF New, WalletIInv
<1>2. PICK n \in NamesFor(p, NewNames) :
        IF runs[p].ids[n] # None THEN Fail(p) /\ UNCHANGED used
        ELSE \E k \in Keys \ used, b \in Known :
               /\ Save(p, n, Generated(k, b),
                       IF runs[p].active = None THEN n ELSE runs[p].active, NoCommand)
               /\ used' = used \union {k}
  BY DEF New
<1>3. n \in Names
  BY <1>1, NamesFit, WalletAssumption
<1>4. CASE runs[p].ids[n] # None
  BY <1>1, <1>2, <1>4, FailStep
<1>5. CASE runs[p].ids[n] = None
  <2>1. PICK k \in Keys \ used, b \in Known :
          /\ Save(p, n, Generated(k, b),
                  IF runs[p].active = None THEN n ELSE runs[p].active, NoCommand)
          /\ used' = used \union {k}
    BY <1>2, <1>5
  <2>2. PICK act : act = IF runs[p].active = None THEN n ELSE runs[p].active
    OBVIOUS
  <2>3. PICK id : id = Generated(k, b)
    OBVIOUS
  <2>4. /\ Save(p, n, id, act, NoCommand) /\ used' \in SUBSET Keys
        /\ id \in WalletIdentities /\ id # None
    BY <1>1, <2>1, <2>2, <2>3, GeneratedIs, CodecAssumption DEF WalletTypeOK
  <2>5. /\ act \in Names \union {None}
        /\ act # None => IF act = n THEN id # None ELSE runs[p].ids[act] # None
        /\ runs[p].st = "loaded"
    BY <1>1, <1>3, <2>2, <2>4, RunningIs
  <2>. QED
    BY <1>1, <1>3, <1>5, <2>4, <2>5, SaveStep
<1>. QED
  BY <1>4, <1>5

LEMMA UseStep ==
    ASSUME WalletIInv, NEW p \in Procs, Use(p)
    PROVE  WalletIInv'
<1>1. PICK n : n = runs[p].name
  OBVIOUS
<1>2. PICK id : id = runs[p].ids[n]
  OBVIOUS
<1>3. /\ Running(p, "use") /\ UNCHANGED <<files, used, commands, changes, exported>>
      /\ IF id = None THEN Fail(p) ELSE Save(p, n, id, n, NoCommand)
  BY <1>1, <1>2 DEF Use
<1>4. /\ runs[p].st = "loaded" /\ n \in Names /\ id \in WalletIdentities \union {None}
      /\ used' \in SUBSET Keys
  BY <1>1, <1>2, <1>3, RunningIs DEF Holdings, Writable, WalletIInv, WalletTypeOK
<1>5. CASE id = None
  BY <1>3, <1>5, FailStep
<1>6. CASE id # None
  BY <1>2, <1>3, <1>4, <1>6, SaveStep
<1>. QED
  BY <1>5, <1>6

LEMMA DeleteStep ==
    ASSUME WalletIInv, NEW p \in Procs, Delete(p)
    PROVE  WalletIInv'
<1>1. PICK n : n = runs[p].name
  OBVIOUS
<1>2. PICK rest : rest = {m \in Names \ {n} : runs[p].ids[m] # None}
  OBVIOUS
<1>3. /\ Running(p, "delete") /\ UNCHANGED <<files, used, commands, changes, exported>>
      /\ IF runs[p].ids[n] = None THEN Fail(p)
         ELSE \E next \in (IF runs[p].active # n THEN {runs[p].active}
                            ELSE IF rest = {} THEN {None} ELSE rest) :
                Save(p, n, None, next, NoCommand)
  BY <1>1, <1>2 DEF Delete
<1>4. /\ runs[p].st = "loaded" /\ n \in Names /\ used' \in SUBSET Keys
      /\ runs[p].active \in Names \union {None}
      /\ runs[p].active # None => runs[p].ids[runs[p].active] # None
  BY <1>1, <1>3, RunningIs DEF WalletIInv, WalletTypeOK
<1>5. CASE runs[p].ids[n] = None
  BY <1>3, <1>5, FailStep
<1>6. CASE runs[p].ids[n] # None
  <2>1. PICK next \in (IF runs[p].active # n THEN {runs[p].active}
                       ELSE IF rest = {} THEN {None} ELSE rest) :
           Save(p, n, None, next, NoCommand)
    BY <1>3, <1>6
  <2>2. /\ next \in Names \union {None}
        /\ next # None => next # n /\ runs[p].ids[next] # None
    BY <1>2, <1>4, <2>1
  <2>. QED
    BY <1>3, <1>4, <2>1, <2>2, SaveStep
<1>. QED
  BY <1>5, <1>6

LEMMA ExportStep ==
    ASSUME WalletIInv, NEW p \in Procs, Export(p)
    PROVE  WalletIInv'
<1>1. PICK n : n = runs[p].name
  OBVIOUS
<1>2. PICK id : id = runs[p].ids[n]
  OBVIOUS
<1>3. PICK form : form = runs[p].form
  OBVIOUS
<1>4. PICK x : x = runs[p].file
  OBVIOUS
<1>5. PICK f : f = Exported(n, id, form)
  OBVIOUS
<1>6. /\ Running(p, "export") /\ runs' = [runs EXCEPT ![p] = NoCommand]
      /\ UNCHANGED <<stored, active, used, commands, changes, expected, raced>>
      /\ IF id = None \/ f.doc = Err THEN UNCHANGED <<files, exported>>
         ELSE /\ files' = [files EXCEPT ![x] = f]
              /\ exported' = exported \union {id}
  BY <1>1, <1>2, <1>3, <1>4, <1>5 DEF Export
<1>7. /\ n \in Names /\ n \in Titles /\ x \in Files /\ form \in {"signed", "json"}
      /\ id \in Writable \union {None}
  BY <1>1, <1>2, <1>3, <1>4, <1>6, RunningIs DEF Titles, Holdings
<1>8. used' \in SUBSET Keys
  BY <1>6 DEF WalletIInv, WalletTypeOK
<1>9. CASE id = None \/ f.doc = Err
  <2>1. exported' \in SUBSET Writable /\ files' \in [Files -> FileStates] /\ FilesGenuine'
    BY <1>6, <1>9 DEF WalletIInv, WalletTypeOK, FilesGenuine
  <2>. QED
    BY <1>6, <1>8, <1>9, <2>1, RestStep
<1>10. CASE ~(id = None \/ f.doc = Err)
  <2>1. /\ files' = [files EXCEPT ![x] = f] /\ exported' = exported \union {id}
        /\ id \in Writable /\ id \in WalletIdentities /\ id.fp = id.ed
    BY <1>6, <1>7, <1>10 DEF Writable
  <2>2. f \in FileStates /\ Genuine(f, exported \union {id})
    <3>1. CASE form = "json"
      <4>1. f = [form |-> "json", doc |-> [id EXCEPT !.extra = FALSE], source |-> id]
        BY <1>5, <3>1 DEF Exported, File
      <4>2. [id EXCEPT !.extra = FALSE] \in WalletIdentities
        BY <2>1 DEF WalletIdentities
      <4>3. f \in JsonFiles
        BY <2>1, <4>1, <4>2 DEF JsonFiles
      <4>4. f \notin SignedFiles
        BY <4>1 DEF SignedFiles
      <4>. QED
        BY <2>1, <4>1, <4>3, <4>4 DEF FileStates, Genuine
    <3>2. CASE form = "signed"
      <4>1. PICK doc : doc = SignSelfHybrid(ToWire(n, id), id.mlSecret)
        OBVIOUS
      <4>2. doc \in SoundFiles /\ Seals(doc, n, id)
        BY <1>7, <2>1, <4>1, ExportedIsSound
      <4>3. f = [form |-> "signed", doc |-> doc, source |-> id]
        BY <1>5, <1>7, <2>1, <3>2, <4>1, FromWireToWire DEF Exported, Exportable, File
      <4>4. f \in SignedFiles
        BY <2>1, <4>2, <4>3 DEF SignedFiles
      <4>5. f \notin JsonFiles
        BY <4>3 DEF JsonFiles
      <4>6. f.doc = doc /\ f.source = id
        BY <4>3
      <4>. QED
        BY <1>7, <2>1, <4>1, <4>2, <4>4, <4>5, <4>6 DEF FileStates, Genuine
    <3>. QED
      BY <1>7, <3>1, <3>2
  <2>3. exported' \in SUBSET Writable /\ files' \in [Files -> FileStates]
    BY <1>7, <2>1, <2>2 DEF WalletIInv, WalletTypeOK
  <2>4. FilesGenuine'
    <3>1. ASSUME NEW y \in Files PROVE Genuine(files'[y], exported')
      <4>1. CASE y = x
        BY <1>7, <2>1, <2>2, <4>1 DEF WalletIInv, WalletTypeOK
      <4>2. CASE y # x
        <5>1. files'[y] = files[y] /\ Genuine(files[y], exported)
          BY <2>1, <4>2 DEF WalletIInv, WalletTypeOK, FilesGenuine
        <5>2. PICK g : g = files[y]
          OBVIOUS
        <5>. QED
          BY <2>1, <5>1, <5>2, StillGenuine
      <4>. QED
        BY <4>1, <4>2
    <3>. QED
      BY <3>1 DEF FilesGenuine
  <2>. QED
    BY <1>6, <1>8, <2>1, <2>3, <2>4, RestStep
<1>. QED
  BY <1>9, <1>10

LEMMA ImportStep ==
    ASSUME WalletIInv, NEW p \in Procs, Import(p)
    PROVE  WalletIInv'
<1>1. PICK f : f = files[runs[p].file]
  OBVIOUS
<1>2. PICK id : id = FromFile(f)
  OBVIOUS
<1>3. PICK then : then = [st |-> "imported", id |-> id, file |-> f]
  OBVIOUS
<1>4. /\ Running(p, "import") /\ UNCHANGED <<files, used, commands, changes, exported>>
      /\ \E n \in NamesFor(p, ImportNames) :
            IF id = Err \/ runs[p].ids[n] # None THEN Fail(p)
            ELSE Save(p, n, id, runs[p].active, then)
  BY <1>1, <1>2, <1>3 DEF Import
<1>5. /\ runs[p].st = "loaded" /\ runs[p] \in LoadedRuns /\ runs[p].file \in Files
      /\ runs[p].active \in Names \union {None}
      /\ runs[p].active # None => runs[p].ids[runs[p].active] # None
      /\ used' \in SUBSET Keys /\ UNCHANGED used
  BY <1>4, RunningIs DEF WalletIInv, WalletTypeOK
<1>6. PICK n \in NamesFor(p, ImportNames) :
        IF id = Err \/ runs[p].ids[n] # None THEN Fail(p)
        ELSE Save(p, n, id, runs[p].active, then)
  BY <1>4
<1>7. n \in Names
  BY <1>5, NamesFit, WalletAssumption
<1>8. f \in FileStates /\ Genuine(f, exported)
  BY <1>1, <1>5 DEF WalletIInv, WalletTypeOK, FilesGenuine
<1>9. CASE id = Err \/ runs[p].ids[n] # None
  BY <1>4, <1>6, <1>9, FailStep
<1>10. CASE ~(id = Err \/ runs[p].ids[n] # None)
  <2>1. id \in WalletIdentities /\ id # None
    BY <1>2, <1>8, <1>10, FoundInFile, CodecAssumption
  <2>2. PICK act : act = runs[p].active
    OBVIOUS
  <2>3. /\ Save(p, n, id, act, then) /\ act \in Names \union {None}
        /\ act # None => IF act = n THEN id # None ELSE runs[p].ids[act] # None
    BY <1>5, <1>6, <1>10, <2>1, <2>2
  <2>. QED
    BY <1>2, <1>3, <1>4, <1>5, <1>7, <1>8, <1>10, <2>1, <2>3, SaveStep
<1>. QED
  BY <1>9, <1>10

LEMMA ChangeStep ==
    ASSUME WalletIInv, NEW x \in Files, Change(x)
    PROVE  WalletIInv'
<1>1. PICK f : f = files[x]
  OBVIOUS
<1>2. /\ f.form \in {"signed", "json"} /\ changes' = changes + 1
      /\ UNCHANGED <<stored, active, runs, used, commands, expected, raced, exported>>
      /\ \/ \E d \in Changed(f) : files' = [files EXCEPT ![x] = File(f.form, d, None)]
         \/ files' = [files EXCEPT ![x] = NoFile]
  BY <1>1 DEF Change
<1>3. WalletTypeOK /\ f \in FileStates /\ Genuine(f, exported)
  BY <1>1 DEF WalletIInv, WalletTypeOK, FilesGenuine
<1>4. \E g \in FileStates : files' = [files EXCEPT ![x] = g] /\ Genuine(g, exported)
  <2>1. CASE files' = [files EXCEPT ![x] = NoFile]
    <3>1. NoFile \in FileStates /\ NoFile \notin JsonFiles /\ NoFile \notin SignedFiles
      BY DEF FileStates, NoFile, JsonFiles, SignedFiles
    <3>. QED
      BY <2>1, <3>1 DEF Genuine
  <2>2. ASSUME NEW d \in Changed(f), files' = [files EXCEPT ![x] = File(f.form, d, None)]
        PROVE  \E g \in FileStates : files' = [files EXCEPT ![x] = g] /\ Genuine(g, exported)
    <3>1. PICK g : g = File(f.form, d, None)
      OBVIOUS
    <3>2. g = [form |-> f.form, doc |-> d, source |-> None]
      BY <3>1 DEF File
    <3>3. CASE f.form = "json"
      <4>1. f.doc \in WalletIdentities
        BY <1>3, <3>3, FileShapes DEF JsonFiles
      <4>2. PICK a \in {"fp", "ed", "edSecret", "ml", "preSecret"}, v \in Keys :
               d = [f.doc EXCEPT ![a] = v]
        BY <2>2, <3>3 DEF Changed, EditedJson
      <4>3. d \in WalletIdentities
        BY <4>1, <4>2 DEF WalletIdentities
      <4>4. g \in JsonFiles /\ g \notin SignedFiles /\ g.source = None
        BY <3>2, <3>3, <4>3 DEF JsonFiles, SignedFiles
      <4>. QED
        BY <2>2, <3>1, <4>4 DEF FileStates, Genuine
    <3>4. CASE f.form = "signed"
      <4>1. f \in SignedFiles /\ f.doc \in SoundFiles
        BY <1>3, <3>4, FileShapes DEF SignedFiles
      <4>2. d \in Redacted(f.doc) \union Edited(f.doc) \union Stripped(f.doc)
        BY <2>2, <3>4 DEF Changed
      <4>3. d \in SoundFiles /\ d.signed \in {None, f.doc.signed}
        BY <4>1, <4>2, ChangedIsSound
      <4>4. /\ g \in SignedFiles /\ g \notin JsonFiles
            /\ g.source = None /\ g.doc = d
        BY <3>2, <3>4, <4>3 DEF JsonFiles, SignedFiles
      <4>5. d.signed # None => \E e \in exported, n \in Titles : Seals(d, n, e)
        BY <1>3, <4>1, <4>3 DEF Genuine, Seals
      <4>. QED
        BY <2>2, <3>1, <4>4, <4>5 DEF FileStates, Genuine
    <3>. QED
      BY <1>2, <3>3, <3>4
  <2>. QED
    BY <1>2, <2>1, <2>2
<1>5. PICK g \in FileStates : files' = [files EXCEPT ![x] = g] /\ Genuine(g, exported)
  BY <1>4
<1>6. WalletTypeOK'
  BY <1>2, <1>3, <1>5 DEF WalletTypeOK
<1>7. FilesGenuine'
  <2>1. \A y \in Files : files'[y] = IF y = x THEN g ELSE files[y]
    BY <1>3, <1>5 DEF WalletTypeOK
  <2>. QED
    BY <1>2, <1>5, <2>1 DEF WalletIInv, FilesGenuine
<1>8. Readable' /\ ActiveHeld' /\ Loaded' = Loaded
  BY <1>2 DEF WalletIInv, Readable, ActiveHeld, Loaded
<1>9. CopiesHold' /\ ImportsGenuine' /\ KeptUnlessRaced'
  BY <1>2, <1>8 DEF WalletIInv, CopiesHold, ImportsGenuine, KeptUnlessRaced
<1>. QED
  BY <1>6, <1>7, <1>8, <1>9 DEF WalletIInv

LEMMA WalletInitial == WalletInit => WalletIInv
<1>. SUFFICES ASSUME WalletInit PROVE WalletIInv
  OBVIOUS
<1>1. PICK none : none = [n \in Names |-> None]
  OBVIOUS
<1>2. /\ stored = none /\ expected = none /\ active = None /\ ~raced
      /\ commands = 0 /\ changes = 0 /\ runs = [p \in Procs |-> NoCommand]
  BY <1>1 DEF WalletInit
<1>3. PICK k \in Keys, b \in Known :
        \/ /\ files = [f \in Files |-> NoFile]
           /\ used = {} /\ exported = {}
        \/ /\ files = [f \in Files |-> NewerFile(k, b)]
           /\ used = {k} /\ exported = {Newer(k, b)}
  BY DEF WalletInit
<1>4. none \in Holdings /\ none = ToDisk(none)
  BY <1>1 DEF Holdings, ToDisk
<1>5. PICK id : id = Newer(k, b)
  OBVIOUS
<1>6. /\ id \in Writable /\ id.mlSecret = k /\ "theirs" \in Titles /\ id \in WalletIdentities
  BY <1>5, GeneratedIs DEF Titles, Writable
<1>7. PICK doc : doc = SignSelfHybrid(ToWire("theirs", id), id.mlSecret)
  OBVIOUS
<1>8. doc \in SoundFiles /\ Seals(doc, "theirs", id)
  BY <1>6, <1>7, ExportedIsSound
<1>9. NewerFile(k, b) = [form |-> "signed", doc |-> doc, source |-> id]
  BY <1>5, <1>6, <1>7 DEF NewerFile, File
<1>10. /\ NewerFile(k, b) \in SignedFiles /\ NewerFile(k, b) \notin JsonFiles
       /\ NewerFile(k, b).doc = doc /\ NewerFile(k, b).source = id
  BY <1>6, <1>8, <1>9 DEF SignedFiles, JsonFiles
<1>11. Genuine(NewerFile(k, b), {id})
  BY <1>6, <1>7, <1>8, <1>10 DEF Genuine
<1>12. /\ NoFile \in FileStates /\ NoFile \notin JsonFiles /\ NoFile \notin SignedFiles
  BY DEF FileStates, NoFile, JsonFiles, SignedFiles
<1>13. /\ files \in [Files -> FileStates] /\ used \in SUBSET Keys
       /\ exported \in SUBSET Writable
  BY <1>3, <1>5, <1>6, <1>10, <1>12 DEF FileStates
<1>14. FilesGenuine
  BY <1>3, <1>5, <1>11, <1>12 DEF FilesGenuine, Genuine
<1>15. WalletTypeOK
  <2>1. stored \in [Names -> Envelopes \union {None}]
    BY <1>1, <1>2
  <2>2. runs \in [Procs -> {NoCommand} \union LoadedRuns \union ImportedRuns]
    BY <1>2
  <2>3. raced \in BOOLEAN
    BY DEF WalletInit
  <2>. QED
    BY <1>2, <1>4, <1>13, <2>1, <2>2, <2>3 DEF WalletTypeOK
<1>16. Readable /\ ActiveHeld
  BY <1>2, <1>4 DEF Readable, ActiveHeld
<1>17. CopiesHold /\ ImportsGenuine
  BY <1>2 DEF CopiesHold, ImportsGenuine, NoCommand
<1>18. KeptUnlessRaced
  <2>1. \A n \in Names : FromDisk(stored[n]) = None
    BY <1>1, <1>2 DEF FromDisk
  <2>. QED
    BY <1>1, <1>2, <2>1 DEF KeptUnlessRaced, Loaded
<1>. QED
  BY <1>14, <1>15, <1>16, <1>17, <1>18 DEF WalletIInv

LEMMA WalletInductive == WalletSpec => []WalletIInv
<1>1. WalletIInv /\ [WalletNext]_walletVars => WalletIInv'
  <2>. SUFFICES ASSUME WalletIInv, [WalletNext]_walletVars PROVE WalletIInv'
    OBVIOUS
  <2>1. CASE \E p \in Procs, c \in Command : Start(p, c)
    BY <2>1, StartStep
  <2>2. CASE \E p \in Procs : New(p) \/ Use(p) \/ Delete(p) \/ Export(p) \/ Import(p)
    BY <2>2, NewStep, UseStep, DeleteStep, ExportStep, ImportStep
  <2>3. CASE \E x \in Files : Change(x)
    BY <2>3, ChangeStep
  <2>4. CASE UNCHANGED walletVars
    <3>1. UNCHANGED <<stored, active, files, runs, used, commands, changes, expected, raced, exported>>
      BY <2>4 DEF walletVars
    <3>2. Loaded' = Loaded
      BY <3>1 DEF Loaded
    <3>. QED
      BY <3>1, <3>2 DEF WalletIInv, WalletTypeOK, Readable, ActiveHeld, CopiesHold,
         FilesGenuine, ImportsGenuine, KeptUnlessRaced
  <2>. QED
    BY <2>1, <2>2, <2>3, <2>4 DEF WalletNext
<1>. QED
  BY <1>1, WalletInitial, PTL DEF WalletSpec

(* Whatever is imported, and however the commands of several processes     *)
(* interleave, the wallet that identity.rs saves can be loaded again, and  *)
(* its active identity is one it holds.                                    *)
THEOREM WalletStaysLoadable == WalletSpec => []Loadable
<1>1. WalletIInv => Loadable
  BY LoadedFits DEF WalletIInv, Loadable, ActiveHeld
<1>. QED
  BY <1>1, WalletInductive, PTL

(* As long as no command saves over a wallet it has not read, every        *)
(* identity of it is there, unchanged, until a command deletes it.         *)
THEOREM IdentitiesKept == WalletSpec => []KeptUnlessRaced
<1>1. WalletIInv => KeptUnlessRaced
  BY DEF WalletIInv
<1>. QED
  BY <1>1, WalletInductive, PTL

(* What import_identity takes from a signed file, whatever has happened to *)
(* the file on its way, is an exported identity, but for the time of its   *)
(* creation and its unknown assertions.                                    *)
THEOREM ImportsAreSigned == WalletSpec => []ImportedAsSigned
<1>1. WalletIInv => ImportedAsSigned
  <2>. SUFFICES ASSUME WalletIInv, NEW p \in Procs, runs[p].st = "imported",
                       runs[p].file.form # "json", runs[p].file.doc.wrapped
                PROVE  \E e \in exported :
                         /\ runs[p].id = [e EXCEPT !.created = runs[p].id.created,
                                                   !.extra = runs[p].id.extra]
                         /\ runs[p].id.created \in {e.created, Now}
                         /\ runs[p].id.extra => e.extra
    BY DEF ImportedAsSigned
  <2>1. PICK f : f = runs[p].file
    OBVIOUS
  <2>2. PICK id : id = runs[p].id
    OBVIOUS
  <2>3. runs[p] \in ImportedRuns
    BY RunShapes DEF WalletIInv
  <2>4. /\ f \in FileStates /\ id \in Writable /\ id # Err
        /\ Genuine(f, exported) /\ id = FromFile(f)
    BY <2>1, <2>2, <2>3, CodecAssumption DEF ImportedRuns, WalletIInv, ImportsGenuine, Writable
  <2>5. f.form = "signed" /\ f \in SignedFiles
    BY <2>1, <2>4, FileShapes DEF FromFile
  <2>6. f.doc \in SoundFiles /\ id = Imported(f.doc) /\ f.doc.wrapped
    BY <2>1, <2>4, <2>5 DEF FromFile, SignedFiles
  <2>7. f.doc.signed # None
    BY <2>4, <2>6, ImportedIsFound
  <2>8. PICK e \in exported, n \in Titles : Seals(f.doc, n, e)
    BY <2>4, <2>5, <2>7 DEF Genuine
  <2>9. e \in Writable
    BY DEF WalletIInv, WalletTypeOK
  <2>10. PICK doc : doc = f.doc
    OBVIOUS
  <2>11. /\ doc \in SoundFiles /\ Imported(doc) # Err /\ doc.wrapped /\ Seals(doc, n, e)
         /\ id = Imported(doc)
    BY <2>4, <2>6, <2>8, <2>10
  <2>12. /\ id = [e EXCEPT !.created = id.created, !.extra = id.extra]
         /\ id.created \in {e.created, Now}
         /\ id.extra => e.extra
    BY <2>9, <2>11, ImportedIsSigned
  <2>. QED
    BY <2>2, <2>12
<1>. QED
  BY <1>1, WalletInductive, PTL

(* An exported file that nobody changed is imported as the identity that   *)
(* export_identity took, but for what its form has no place for.           *)
THEOREM ExportsComeBack == WalletSpec => []ExportsReimport
<1>1. WalletIInv => ExportsReimport
  <2>. SUFFICES ASSUME WalletIInv, NEW x \in Files, files[x].form # "none",
                       files[x].source # None
                PROVE  IF files[x].form = "json"
                       THEN FromFile(files[x]) = [files[x].source EXCEPT !.extra = FALSE]
                       ELSE (/\ files[x].source.edSecret = files[x].source.ed
                             /\ files[x].source.mlSecret = files[x].source.ml)
                              => FromFile(files[x]) = files[x].source
    BY DEF ExportsReimport
  <2>1. PICK f : f = files[x]
    OBVIOUS
  <2>2. f \in FileStates /\ Genuine(f, exported) /\ f.form # "none" /\ f.source # None
    BY <2>1 DEF WalletIInv, WalletTypeOK, FilesGenuine
  <2>3. CASE f.form = "json"
    BY <2>1, <2>2, <2>3, FileShapes DEF Genuine, FromFile
  <2>4. CASE f.form = "signed"
    <3>1. f \in SignedFiles /\ f.source \in Writable
      BY <2>2, <2>4, FileShapes DEF Genuine
    <3>2. PICK n \in Titles : f.doc = SignSelfHybrid(ToWire(n, f.source), f.source.mlSecret)
      BY <2>2, <3>1 DEF Genuine
    <3>3. f.doc # Err
      BY <3>1, <3>2, ExportedIsSound
    <3>4. FromFile(f) = Imported(f.doc)
      BY <2>4, <3>3 DEF FromFile
    <3>5. ASSUME f.source.edSecret = f.source.ed, f.source.mlSecret = f.source.ml
          PROVE  FromFile(f) = f.source
      BY <3>1, <3>2, <3>4, <3>5, SignedRoundTrip
    <3>. QED
      BY <2>1, <2>4, <3>5
  <2>. QED
    BY <2>1, <2>2, <2>3, <2>4, FileShapes
<1>. QED
  BY <1>1, WalletInductive, PTL

-----------------------------------------------------------------------------
(***************************************************************************)
(* The hash tree.  A tree is a recursive function over ranges of chunk     *)
(* groups; what holds of all of its nodes is proved of the least range for *)
(* which it would not (LeastMember).  Recursion says that such a function  *)
(* exists, PairsOfOutboard that the outboard has each parent's pair.       *)
(***************************************************************************)
(* A set of naturals that is not empty has a least member: what induction  *)
(* over the tree rests on.                                                 *)
LEMMA LeastMember ==
    ASSUME NEW T \in SUBSET Nat, T # {}
    PROVE  \E m \in T : \A k \in T : m <= k
<1>1. PICK m \in T : \A y \in T : ~ (<<y, m>> \in OpToRel(<, Nat))
  BY NatLessThanWellFounded, WFMin
<1>2. \A k \in T : ~ (k < m)
  BY <1>1, Zenon DEF OpToRel
<1>. QED
  BY <1>2

LEMMA GreatestMember ==
    ASSUME NEW n \in Nat, NEW T \in SUBSET (1..n), T # {}
    PROVE  \E m \in T : \A k \in T : k <= m
<1>. DEFINE down == {n - k : k \in T}
<1>1. down \in SUBSET Nat
  <2>1. \A k \in T : n - k \in Nat
    OBVIOUS
  <2>. QED
    BY <2>1
<1>2. down # {}
  OBVIOUS
<1>3. PICK d \in down : \A k \in down : d <= k
  BY <1>1, <1>2, LeastMember
<1>4. PICK m \in T : d = n - m
  OBVIOUS
<1>5. ASSUME NEW k \in T PROVE k <= m
  <2>1. n - k \in down
    OBVIOUS
  <2>2. k \in Int /\ m \in Int
    <3>1. k \in 1..n /\ m \in 1..n
      OBVIOUS
    <3>. QED
      BY ONLY <3>1
  <2>. QED
    BY <1>3, <1>4, <2>1, <2>2
<1>. QED
  BY <1>5

LEMMA Doubled ==
    ASSUME NEW p \in Nat \ {0}, PowerOfTwo(p)
    PROVE  PowerOfTwo(2 * p)
<1>. SUFFICES ASSUME NEW d \in 1..(2 * p), NEW k \in 1..(2 * p), d * k = 2 * p, d % 2 # 0
              PROVE  d = 1
  BY DEF PowerOfTwo
<1>1. PICK e \in Nat : d = 2 * e + 1
  OBVIOUS
<1>2. (2 * e + 1) * k = 2 * (e * k) + k
  OBVIOUS
<1>3. PICK j \in Nat : k = 2 * j
  <2>1. PICK f : f = e * k
    OBVIOUS
  <2>2. f \in Int /\ k = 2 * (p - f)
    BY <1>1, <1>2, <2>1
  <2>3. p - f \in Nat
    BY <2>2
  <2>. QED
    BY <2>2, <2>3
<1>4. d * j = p
  <2>1. d * (2 * j) = 2 * (d * j)
    OBVIOUS
  <2>2. d * j \in Int
    OBVIOUS
  <2>. QED
    BY <1>3, <2>1, <2>2
<1>5. j \in 1..p /\ d \in 1..p
  <2>1. j >= 1
    BY <1>3
  <2>2. d * j >= d /\ d * j >= j
    BY <2>1
  <2>. QED
    BY <1>4, <2>1, <2>2
<1>. QED
  BY <1>4, <1>5 DEF PowerOfTwo

(* The left child of a parent takes some of its groups, not all.           *)
LEMMA MidBetween ==
    ASSUME NEW a \in Nat, NEW b \in Nat, a < b
    PROVE  Mid(<<a, b>>) \in a..(b - 1)
<1>. DEFINE n == b - a + 1
            T == {p \in 1..(n - 1) : PowerOfTwo(p)}
<1>1. n \in Nat /\ n >= 2
  OBVIOUS
<1>2. PowerOfTwo(1)
  BY DEF PowerOfTwo
<1>3. T \in SUBSET (1..(n - 1)) /\ 1 \in T
  BY <1>1, <1>2
<1>. HIDE DEF n
<1>4. PICK p \in T : \A k \in T : k <= p
  BY <1>1, <1>3, GreatestMember, n - 1 \in Nat
<1>5. n <= 2 * p
  <2>. SUFFICES ASSUME 2 * p < n PROVE FALSE
    BY <1>1, <1>4
  <2>1. PowerOfTwo(2 * p)
    BY <1>4, Doubled
  <2>2. 2 * p \in T
    BY <1>1, <1>4, <2>1
  <2>. QED
    BY <1>1, <1>4, <2>2
<1>6. PICK q : q = CHOOSE q2 \in 1..n : PowerOfTwo(q2) /\ q2 < n /\ n <= 2 * q2
  OBVIOUS
<1>7. \E q2 \in 1..n : PowerOfTwo(q2) /\ q2 < n /\ n <= 2 * q2
  BY <1>1, <1>4, <1>5
<1>8. q \in 1..n /\ q < n
  BY <1>6, <1>7
<1>9. Mid(<<a, b>>) = a + q - 1
  BY <1>6 DEF Mid, n
<1>. QED
  BY <1>1, <1>8, <1>9 DEF n

LEMMA NodesBelow ==
    ASSUME NEW n, GroupCount(n) \in Nat, NEW r \in Ranges(n), ~ IsLeaf(r)
    PROVE  /\ Left(r) \in Ranges(n) /\ Right(r) \in Ranges(n)
           /\ Left(r)[1] = r[1] /\ Left(r)[2] \in Nat /\ Right(r)[1] = Left(r)[2] + 1
           /\ Right(r)[2] = r[2] /\ r[1] <= Left(r)[2] /\ Left(r)[2] < r[2]
<1>1. PICK a \in 1..GroupCount(n), b \in 1..GroupCount(n) : r = <<a, b>> /\ a < b
  BY DEF Ranges, IsLeaf
<1>2. Mid(r) \in a..(b - 1)
  BY <1>1, MidBetween
<1>. QED
  BY <1>1, <1>2 DEF Left, Right, Ranges

(* Groups fill the bytes they count, and none of them is empty but one.    *)
LEMMA GroupsCover ==
    ASSUME NEW n \in Nat
    PROVE  /\ GroupCount(n) \in Nat /\ GroupCount(n) >= 1
           /\ GroupCount(n) * GroupSize >= n
           /\ n <= GroupSize <=> GroupCount(n) = 1
           /\ (GroupCount(n) - 1) * GroupSize <= n
<1>. USE GroupSizeAssumption
<1>1. CASE n = 0
  BY <1>1 DEF GroupCount
<1>2. CASE n # 0
  <2>. DEFINE g == (n + GroupSize - 1) \div GroupSize
              r == (n + GroupSize - 1) % GroupSize
  <2>1. g \in Int /\ r \in 0..(GroupSize - 1) /\ n + GroupSize - 1 = GroupSize * g + r
    OBVIOUS
  <2>2. GroupCount(n) = g
    BY <1>2 DEF GroupCount
  <2>. HIDE DEF g, r
  <2>3. g >= 1
    <3>. SUFFICES ASSUME g <= 0 PROVE FALSE
      BY <2>1
    <3>1. GroupSize * g <= 0
      BY <2>1
    <3>. QED
      BY <1>2, <2>1, <3>1
  <2>4. g * GroupSize = GroupSize * g /\ (g - 1) * GroupSize = GroupSize * g - GroupSize
    BY <2>1
  <2>5. GroupSize * g \in Int
    BY <2>1
  <2>6. n <= GroupSize <=> g = 1
    <3>1. CASE g = 1
      BY <2>1, <3>1
    <3>2. CASE g >= 2
      <4>1. GroupSize * g >= GroupSize * 2
        BY <2>1, <3>2
      <4>. QED
        BY <2>1, <2>5, <3>2, <4>1
    <3>. QED
      BY <2>1, <2>3, <3>1, <3>2
  <2>. QED
    BY <2>1, <2>2, <2>3, <2>4, <2>5, <2>6
<1>. QED
  BY <1>1, <1>2

-----------------------------------------------------------------------------
(* What the hashes of a tree and the order of its parents are defined by   *)
(* is true of them: the tree has finitely many levels.                     *)
HashOf(ct, h, r) ==
    IF IsLeaf(r) THEN LeafHash(r[1], Group(ct, r[1]))
    ELSE ParentHash(<<h[Left(r)], h[Right(r)]>>)
ParentsOf(o, r) == IF IsLeaf(r) THEN <<>> ELSE o[Left(r)] \o o[Right(r)] \o <<r>>

LEMMA Recursion ==
    ASSUME NEW ct, NEW n \in Nat
    PROVE  \E h, o : /\ h = [r \in Ranges(n) |-> HashOf(ct, h, r)]
                     /\ o = [r \in Ranges(n) |-> ParentsOf(o, r)]
<1>. DEFINE Level(k) == {r \in Ranges(n) : r[2] - r[1] <= k}
            Made(k) == \E h, o : /\ h = [r \in Level(k) |-> HashOf(ct, h, r)]
                                 /\ o = [r \in Level(k) |-> ParentsOf(o, r)]
            Failing == {k \in Nat : ~ Made(k)}
<1>1. GroupCount(n) \in Nat
  BY GroupsCover
<1>2. Failing = {}
  <2>. SUFFICES ASSUME Failing # {} PROVE FALSE
    OBVIOUS
  <2>1. PICK k \in Failing : \A j \in Failing : k <= j
    <3>. HIDE DEF Made
    <3>. QED
      BY LeastMember
  <2>2. CASE k = 0
    <3>1. PICK h : h = [r \in Level(0) |-> LeafHash(r[1], Group(ct, r[1]))]
      OBVIOUS
    <3>2. PICK o : o = [r \in Level(0) |-> <<>>]
      OBVIOUS
    <3>3. \A r \in Level(0) : IsLeaf(r)
      BY <1>1 DEF Ranges, IsLeaf
    <3>4. \A r \in Level(0) : /\ HashOf(ct, h, r) = LeafHash(r[1], Group(ct, r[1]))
                              /\ ParentsOf(o, r) = <<>>
      BY <3>3 DEF HashOf, ParentsOf
    <3>5. /\ h = [r \in Level(0) |-> HashOf(ct, h, r)]
          /\ o = [r \in Level(0) |-> ParentsOf(o, r)]
      <4>. HIDE DEF Level
      <4>. QED
        BY <3>1, <3>2, <3>4
    <3>6. Made(0)
      <4>. HIDE DEF Level
      <4>. QED
        BY <3>5
    <3>. HIDE DEF Made
    <3>. QED
      BY <2>1, <2>2, <3>6
  <2>3. CASE k # 0
    <3>1. k - 1 \in Nat /\ Made(k - 1)
      <4>. HIDE DEF Made
      <4>. QED
        BY <2>1, <2>3
    <3>2. PICK g, b : /\ g = [r \in Level(k - 1) |-> HashOf(ct, g, r)]
                      /\ b = [r \in Level(k - 1) |-> ParentsOf(b, r)]
      BY <3>1
    <3>3. PICK h, o : /\ h = [r \in Level(k) |-> HashOf(ct, g, r)]
                      /\ o = [r \in Level(k) |-> ParentsOf(b, r)]
      OBVIOUS
    <3>4. ASSUME NEW r \in Level(k)
          PROVE  HashOf(ct, g, r) = HashOf(ct, h, r) /\ ParentsOf(b, r) = ParentsOf(o, r)
      <4>1. CASE IsLeaf(r)
        BY <4>1 DEF HashOf, ParentsOf
      <4>2. CASE ~ IsLeaf(r)
        <5>1. /\ Left(r) \in Level(k - 1) /\ Right(r) \in Level(k - 1)
              /\ Left(r) \in Level(k) /\ Right(r) \in Level(k)
          <6>1. PICK i \in 1..GroupCount(n), j \in 1..GroupCount(n) : r = <<i, j>> /\ i <= j
            BY DEF Ranges
          <6>2. j - i <= k
            BY <6>1
          <6>. QED
            BY <1>1, <2>1, <3>1, <4>2, <6>1, <6>2, NodesBelow
        <5>. HIDE DEF Level
        <5>2. /\ g[Left(r)] = HashOf(ct, g, Left(r)) /\ g[Right(r)] = HashOf(ct, g, Right(r))
              /\ b[Left(r)] = ParentsOf(b, Left(r)) /\ b[Right(r)] = ParentsOf(b, Right(r))
          BY <3>2, <5>1
        <5>3. /\ h[Left(r)] = HashOf(ct, g, Left(r)) /\ h[Right(r)] = HashOf(ct, g, Right(r))
              /\ o[Left(r)] = ParentsOf(b, Left(r)) /\ o[Right(r)] = ParentsOf(b, Right(r))
          BY <3>3, <5>1
        <5>. QED
          BY <4>2, <5>2, <5>3 DEF HashOf, ParentsOf
      <4>. QED
        BY <4>1, <4>2
    <3>5. /\ h = [r \in Level(k) |-> HashOf(ct, h, r)]
          /\ o = [r \in Level(k) |-> ParentsOf(o, r)]
      <4>. HIDE DEF Level
      <4>. QED
        BY <3>3, <3>4
    <3>6. Made(k)
      <4>. HIDE DEF Level
      <4>. QED
        BY <3>5
    <3>. HIDE DEF Made
    <3>. QED
      BY <2>1, <3>6
  <2>. QED
    BY <2>2, <2>3
<1>3. Made(GroupCount(n))
  <2>. HIDE DEF Made
  <2>. QED
    BY <1>1, <1>2
<1>4. Level(GroupCount(n)) = Ranges(n)
  BY <1>1 DEF Ranges
<1>. HIDE DEF Level
<1>. QED
  BY <1>3, <1>4

LEMMA HashesDefined ==
    ASSUME NEW ct, Len(ct) \in Nat
    PROVE  Hashes(ct) = [r \in Ranges(Len(ct)) |-> HashOf(ct, Hashes(ct), r)]
<1>1. Hashes(ct) = CHOOSE h : h = [r \in Ranges(Len(ct)) |-> HashOf(ct, h, r)]
  BY DEF Hashes, HashOf
<1>2. PICK n : n = Len(ct)
  OBVIOUS
<1>3. PICK H : H = CHOOSE h : h = [r \in Ranges(n) |-> HashOf(ct, h, r)]
  OBVIOUS
<1>4. H = [r \in Ranges(n) |-> HashOf(ct, H, r)]
  BY <1>2, <1>3, Recursion
<1>. QED
  BY <1>1, <1>2, <1>3, <1>4

LEMMA PostOrdersDefined ==
    ASSUME NEW n \in Nat
    PROVE  PostOrders(n) = [r \in Ranges(n) |-> ParentsOf(PostOrders(n), r)]
<1>1. PostOrders(n) = CHOOSE o : o = [r \in Ranges(n) |-> ParentsOf(o, r)]
  BY DEF PostOrders, ParentsOf
<1>2. PICK O : O = CHOOSE o : o = [r \in Ranges(n) |-> ParentsOf(o, r)]
  OBVIOUS
<1>3. O = [r \in Ranges(n) |-> ParentsOf(O, r)]
  BY <1>2, Recursion
<1>. QED
  BY <1>1, <1>2, <1>3

(* The parents below a node are nodes of the tree.                         *)
LEMMA PostOrdersType ==
    ASSUME NEW n \in Nat, NEW r \in Ranges(n)
    PROVE  PostOrders(n)[r] \in Seq(Ranges(n))
<1>. DEFINE O == PostOrders(n)
            Failing == {k \in Nat : \E q \in Ranges(n) : q[2] - q[1] = k /\ O[q] \notin Seq(Ranges(n))}
<1>1. GroupCount(n) \in Nat
  BY GroupsCover
<1>2. \A q \in Ranges(n) : q[2] - q[1] \in Nat
  BY <1>1 DEF Ranges
<1>3. Failing = {}
  <2>. SUFFICES ASSUME Failing # {} PROVE FALSE
    OBVIOUS
  <2>1. PICK k \in Failing : \A j \in Failing : k <= j
    BY LeastMember
  <2>2. PICK q \in Ranges(n) : q[2] - q[1] = k /\ O[q] \notin Seq(Ranges(n))
    BY <2>1
  <2>3. O[q] = ParentsOf(O, q)
    BY PostOrdersDefined
  <2>. HIDE DEF O
  <2>4. CASE IsLeaf(q)
    BY <2>2, <2>3, <2>4 DEF ParentsOf
  <2>5. CASE ~ IsLeaf(q)
    <3>1. PICK i \in 1..GroupCount(n), j \in 1..GroupCount(n) : q = <<i, j>> /\ i < j
      BY <2>5 DEF Ranges, IsLeaf
    <3>2. /\ Left(q) \in Ranges(n) /\ Left(q)[2] - Left(q)[1] < k
          /\ Right(q) \in Ranges(n) /\ Right(q)[2] - Right(q)[1] < k
      BY <1>1, <2>2, <2>5, <3>1, NodesBelow
    <3>3. \A s \in Ranges(n) : s[2] - s[1] < k => O[s] \in Seq(Ranges(n))
      BY <1>2, <2>1
    <3>4. /\ O[Left(q)] \in Seq(Ranges(n)) /\ O[Right(q)] \in Seq(Ranges(n))
          /\ <<q>> \in Seq(Ranges(n))
      BY <3>2, <3>3
    <3>. QED
      BY <2>2, <2>3, <2>5, <3>4 DEF ParentsOf
  <2>. QED
    BY <2>4, <2>5
<1>. QED
  BY <1>2, <1>3

LEMMA HashOfLeaf ==
    ASSUME NEW ct, Len(ct) \in Nat, NEW r \in Ranges(Len(ct)), IsLeaf(r)
    PROVE  Hashes(ct)[r] = LeafHash(r[1], Group(ct, r[1]))
  BY HashesDefined DEF HashOf

LEMMA HashOfParent ==
    ASSUME NEW ct, Len(ct) \in Nat, NEW r \in Ranges(Len(ct)), ~ IsLeaf(r)
    PROVE  Hashes(ct)[r] = ParentHash(<<Hashes(ct)[Left(r)], Hashes(ct)[Right(r)]>>)
  BY HashesDefined DEF HashOf

LEMMA RootInRanges ==
    ASSUME NEW n \in Nat
    PROVE  Root(n) \in Ranges(n) /\ Root(n)[1] = 1 /\ Root(n)[2] = GroupCount(n)
  BY GroupsCover DEF Root, Ranges

(* The parents of the tree that a node is known to be a part of.           *)
Holds(n, r) ==
    \A i \in DOMAIN PostOrders(n)[r] :
        \E j \in DOMAIN PostOrder(n) : PostOrder(n)[j] = PostOrders(n)[r][i]

LEMMA HoldsBelow ==
    ASSUME NEW n \in Nat, NEW r \in Ranges(n), ~ IsLeaf(r), Holds(n, r)
    PROVE  /\ Holds(n, Left(r)) /\ Holds(n, Right(r))
           /\ \E j \in DOMAIN PostOrder(n) : PostOrder(n)[j] = r
<1>. DEFINE O == PostOrders(n)
<1>1. GroupCount(n) \in Nat
  BY GroupsCover
<1>2. Left(r) \in Ranges(n) /\ Right(r) \in Ranges(n)
  BY <1>1, NodesBelow
<1>3. PICK a \in Seq(Ranges(n)), b \in Seq(Ranges(n)), c \in Seq(Ranges(n)) :
        a = O[Left(r)] /\ b = O[Right(r)] /\ c = O[r]
  BY <1>2, PostOrdersType
<1>4. c = a \o b \o <<r>>
  BY <1>3, PostOrdersDefined DEF ParentsOf
<1>5. /\ \A i \in DOMAIN a : i \in DOMAIN c /\ c[i] = a[i]
      /\ \A i \in DOMAIN b : Len(a) + i \in DOMAIN c /\ c[Len(a) + i] = b[i]
      /\ Len(a) + Len(b) + 1 \in DOMAIN c /\ c[Len(a) + Len(b) + 1] = r
  BY <1>4
<1>. DEFINE in(q) == \E j \in DOMAIN PostOrder(n) : PostOrder(n)[j] = q
<1>6. \A i \in DOMAIN c : in(c[i])
  BY <1>3 DEF Holds
<1>. HIDE DEF in
<1>7. (\A i \in DOMAIN a : in(a[i])) /\ (\A i \in DOMAIN b : in(b[i])) /\ in(r)
  BY <1>5, <1>6
<1>. QED
  BY <1>3, <1>7 DEF Holds, in

(* An outboard has the hashes of the children of every parent.             *)
LEMMA PairsOfOutboard ==
    ASSUME NEW ct, Len(ct) \in Nat, NEW r \in Ranges(Len(ct)), ~ IsLeaf(r), Holds(Len(ct), r)
    PROVE  ParentHash(Pair(outboard_post_order(ct), Len(ct), r)) = Hashes(ct)[r]
<1>1. PICK n \in Nat : n = Len(ct)
  OBVIOUS
<1>2. PICK i : i = CHOOSE j \in DOMAIN PostOrder(n) : PostOrder(n)[j] = r
  OBVIOUS
<1>3. i \in DOMAIN PostOrder(n) /\ PostOrder(n)[i] = r
  BY <1>1, <1>2, HoldsBelow
<1>4. outboard_post_order(ct)[i] = <<Hashes(ct)[Left(r)], Hashes(ct)[Right(r)]>>
  BY <1>1, <1>3 DEF outboard_post_order
<1>5. Pair(outboard_post_order(ct), n, r) = outboard_post_order(ct)[i]
  BY <1>2 DEF Pair
<1>. QED
  BY <1>1, <1>4, <1>5, HashOfParent

(***************************************************************************)
(* What a stream of chunk groups deciphers to, and the nodes a decoder has *)
(* still to come (Items, InOrder).                                         *)
(***************************************************************************)
(* The bytes of the first g groups of n.                                   *)
Upto(n, g) == IF g * GroupSize < n THEN g * GroupSize ELSE n
Least(i, j) == IF i < j THEN i ELSE j

LEMMA Edges ==
    ASSUME NEW n \in Nat, NEW g \in 1..GroupCount(n)
    PROVE  /\ (g - 1) * GroupSize \in Nat /\ Upto(n, g - 1) = (g - 1) * GroupSize
           /\ Upto(n, g) \in Nat /\ (g - 1) * GroupSize <= Upto(n, g) /\ Upto(n, g) <= n
           /\ Upto(n, g) <= (g - 1) * GroupSize + GroupSize
<1>. USE GroupSizeAssumption
<1>1. PICK N \in Nat : N = GroupCount(n) /\ (N - 1) * GroupSize <= n /\ g \in 1..N
  BY GroupsCover
<1>2. (g - 1) * GroupSize \in Nat
  OBVIOUS
<1>3. (g - 1) * GroupSize <= (N - 1) * GroupSize
  BY <1>1
<1>4. PICK a \in Nat : a = (g - 1) * GroupSize
  BY <1>2
<1>5. g * GroupSize = a + GroupSize
  BY <1>4
<1>6. (N - 1) * GroupSize \in Int
  BY <1>1
<1>7. a <= n
  BY <1>1, <1>3, <1>4, <1>6
<1>. QED
  BY <1>4, <1>5, <1>7 DEF Upto

LEMMA AllGroups == ASSUME NEW n \in Nat PROVE Upto(n, GroupCount(n)) = n /\ Upto(n, 0) = 0
<1>. USE GroupSizeAssumption
<1>1. PICK m : m = GroupCount(n) * GroupSize
  OBVIOUS
<1>2. m \in Nat /\ m >= n
  BY <1>1, GroupsCover
<1>. QED
  BY <1>1, <1>2 DEF Upto

(* What is written of bytes a + 1 to e of a file s, of which data is a     *)
(* copy, continues what was written of the a bytes before.                 *)
LEMMA OverlapContinues ==
    ASSUME NEW s \in Seq(Bytes), NEW lo \in Nat, NEW hi \in 0..Len(s),
           NEW e \in 0..Len(s), NEW a \in 0..e
    PROVE  SubSeq(s, lo + 1, Least(hi, a)) \o Overlap(SubSeq(s, a + 1, e), a, lo, hi)
             = SubSeq(s, lo + 1, Least(hi, e))
<1>0. PICK data, before : data = SubSeq(s, a + 1, e) /\ before = SubSeq(s, lo + 1, Least(hi, a))
  OBVIOUS
<1>1. data \in Seq(Bytes) /\ Len(data) = e - a
  BY <1>0, SubSeqProperties
<1>a. PICK first \in Nat, last \in Nat : /\ first = IF lo > a THEN lo ELSE a
                                        /\ last = IF hi < e THEN hi ELSE e
  OBVIOUS
<1>2. Overlap(data, a, lo, hi) = IF first < last THEN SubSeq(data, first - a + 1, last - a) ELSE <<>>
  BY <1>1, <1>a DEF Overlap
<1>3. last = Least(hi, e) /\ last <= Len(s)
  BY <1>a DEF Least
<1>4. before \in Seq(Bytes)
  BY <1>0, SubSeqProperties DEF Least
<1>5. CASE first < last
  <2>1. first - a + 1 \in 1..(e - (a + 1) + 1) /\ last - a \in 1..(e - (a + 1) + 1)
    BY <1>5, <1>a
  <2>2. SubSeq(data, first - a + 1, last - a) = SubSeq(s, first + 1, last)
    <3>1. /\ a + 1 \in 1..Len(s) /\ e \in 1..Len(s)
          /\ (a + 1) + (first - a + 1) - 1 = first + 1 /\ (a + 1) + (last - a) - 1 = last
      BY <1>5, <1>a
    <3>. QED
      BY <1>0, <2>1, <3>1, SubSeqOfSubSeq
  <2>3. CASE lo > a
    <3>1. before = <<>>
      BY <1>0, <2>3, SubSeqEmpty DEF Least
    <3>2. SubSeq(s, lo + 1, last) \in Seq(Bytes)
      <4>1. \A i \in (lo + 1)..last : s[i] \in Bytes
        BY <1>3
      <4>. QED
        BY <4>1, SubSeqProperties
    <3>3. first = lo
      BY <1>a, <2>3
    <3>4. <<>> \o SubSeq(s, lo + 1, last) = SubSeq(s, lo + 1, last)
      BY <3>2
    <3>. QED
      BY <1>0, <1>2, <1>3, <1>5, <2>2, <3>1, <3>3, <3>4
  <2>4. CASE lo <= a
    <3>1. Least(hi, a) = a
      BY <1>5, <1>a, <2>4 DEF Least
    <3>2. SubSeq(s, lo + 1, a) \o SubSeq(s, a + 1, last) = SubSeq(s, lo + 1, last)
      <4>1. lo + 1 \in 1..(Len(s) + 1) /\ a \in ((lo + 1) - 1)..Len(s) /\ last \in a..Len(s)
        BY <1>3, <1>5, <1>a, <2>4
      <4>. QED
        BY <4>1, ConcatAdjacentSubSeq
    <3>3. first = a
      BY <1>a, <2>4
    <3>. QED
      BY <1>0, <1>2, <1>3, <1>5, <2>2, <3>1, <3>2, <3>3
  <2>5. lo > a \/ lo <= a
    OBVIOUS
  <2>. QED
    BY ONLY <2>3, <2>4, <2>5
<1>6. CASE ~ (first < last)
  <2>1. before = SubSeq(s, lo + 1, last)
    <3>1. CASE lo > a
      <4>1. last < lo + 1 /\ Least(hi, a) < lo + 1 /\ Least(hi, a) \in Int
        BY <1>6, <1>a, <3>1 DEF Least
      <4>. QED
        BY <1>0, <4>1, SubSeqEmpty
    <3>2. CASE lo <= a
      <4>1. Least(hi, a) = last
        BY <1>6, <1>a, <3>2 DEF Least
      <4>. QED
        BY <1>0, <4>1
    <3>. QED
      BY <3>1, <3>2
  <2>. QED
    <3>1. before \o <<>> = before
      BY <1>4
    <3>2. Overlap(data, a, lo, hi) = <<>>
      BY <1>2, <1>6
    <3>. QED
      BY ONLY <1>0, <1>3, <2>1, <3>1, <3>2
<1>. QED
  BY <1>5, <1>6

(* Every position of a ciphertext has its own part of the keystream.       *)
LEMMA DecipherGroup ==
    ASSUME NEW k, NEW s \in Seq(Bytes), NEW g \in 1..GroupCount(Len(s)), Len(s) \in Nat
    PROVE  Decipher(k, (g - 1) * GroupSize + 1, Group(Keystream(k, s), g))
             = SubSeq(s, (g - 1) * GroupSize + 1, Upto(Len(s), g))
<1>1. PICK a \in Nat, e \in Nat :
        a = (g - 1) * GroupSize /\ e = Upto(Len(s), g) /\ a <= e /\ e <= Len(s)
  BY Edges
<1>2. PICK ct : ct = Keystream(k, s)
  OBVIOUS
<1>3. ct \in Seq([key : {k}, at : Nat, byte : Bytes]) /\ Len(ct) = Len(s)
      /\ \A i \in 1..Len(s) : ct[i] = [key |-> k, at |-> i, byte |-> s[i]]
  <2>1. ct = [i \in 1..Len(s) |-> [key |-> k, at |-> i, byte |-> s[i]]]
    BY <1>2 DEF Keystream
  <2>2. \A i \in 1..Len(s) : [key |-> k, at |-> i, byte |-> s[i]] \in [key : {k}, at : Nat, byte : Bytes]
    OBVIOUS
  <2>. HIDE DEF Upto
  <2>. QED
    BY <2>1, <2>2
<1>4. Group(ct, g) = SubSeq(ct, a + 1, e)
  BY <1>1, <1>3 DEF Group, Upto
<1>5. PICK data : data = SubSeq(ct, a + 1, e)
  OBVIOUS
<1>6. PICK part : part = SubSeq(s, a + 1, e)
  OBVIOUS
<1>7. /\ data \in Seq([key : {k}, at : Nat, byte : Bytes]) /\ Len(data) = e - a
      /\ \A i \in 1..(e - a) : data[i] = ct[a + i]
  <2>1. \A i \in (a + 1)..e : ct[i] \in [key : {k}, at : Nat, byte : Bytes]
    <3>1. \A i \in (a + 1)..e : i \in 1..Len(ct)
      BY <1>1, <1>3
    <3>. QED
      BY <1>3, <3>1, ElementOfSeq
  <2>. QED
    BY <1>1, <1>5, <2>1, SubSeqProperties
<1>8. /\ part \in Seq(Bytes) /\ Len(part) = e - a
      /\ \A i \in 1..(e - a) : part[i] = s[a + i]
  <2>1. \A i \in (a + 1)..e : s[i] \in Bytes
    <3>1. \A i \in (a + 1)..e : i \in 1..Len(s)
      BY <1>1
    <3>. QED
      BY <3>1, ElementOfSeq
  <2>. QED
    BY <1>1, <1>6, <2>1, SubSeqProperties
<1>9. \A i \in 1..(e - a) : data[i] = [key |-> k, at |-> a + i, byte |-> part[i]]
  <2>. SUFFICES ASSUME NEW i \in 1..(e - a)
                PROVE  data[i] = [key |-> k, at |-> a + i, byte |-> part[i]]
    OBVIOUS
  <2>1. a + i \in 1..Len(s)
    BY <1>1
  <2>. QED
    BY <1>3, <1>7, <1>8, <2>1
<1>10. Decipher(k, a + 1, data) = [i \in 1..(e - a) |-> part[i]]
  <2>1. DOMAIN data = 1..(e - a)
    BY <1>7
  <2>2. \A i \in 1..(e - a) : data[i].key = k /\ data[i].at = (a + 1) + i - 1 /\ data[i].byte = part[i]
    <3>. SUFFICES ASSUME NEW i \in 1..(e - a)
                  PROVE  data[i].key = k /\ data[i].at = (a + 1) + i - 1 /\ data[i].byte = part[i]
      OBVIOUS
    <3>1. (a + 1) + i - 1 = a + i
      BY <1>1
    <3>2. data[i] = [key |-> k, at |-> a + i, byte |-> part[i]]
      BY <1>9
    <3>. QED
      BY <3>1, <3>2
  <2>. QED
    BY <2>1, <2>2 DEF Decipher
<1>11. part = [i \in 1..(e - a) |-> part[i]]
  BY <1>8
<1>. QED
  BY <1>1, <1>2, <1>4, <1>5, <1>6, <1>10, <1>11

LEMMA DecipherAll ==
    ASSUME NEW k, NEW s \in Seq(Bytes)
    PROVE  Decipher(k, 1, Keystream(k, s)) = s
<1>1. PICK ct : ct = Keystream(k, s)
  OBVIOUS
<1>2. DOMAIN ct = DOMAIN s /\ \A i \in DOMAIN s : ct[i] = [key |-> k, at |-> i, byte |-> s[i]]
  BY <1>1 DEF Keystream
<1>3. Decipher(k, 1, ct) = [i \in DOMAIN s |-> s[i]]
  <2>1. \A i \in DOMAIN s : i = 1 + i - 1
    OBVIOUS
  <2>. QED
    BY <1>2, <2>1 DEF Decipher
<1>. QED
  BY <1>1, <1>3

-----------------------------------------------------------------------------
(* The nodes that are to come, each with the hash it has in the tree of    *)
(* the ciphertext that was written, cover the groups that are left, one    *)
(* after the other.                                                        *)
Items(n, h) == {Awaited(r, h[r]) : r \in Ranges(n)}
InOrder(n, q) ==
    \A i \in 1..Len(q) :
        q[i].node[2] = IF i = Len(q) THEN GroupCount(n) ELSE q[i + 1].node[1] - 1
Behind(n, q) == IF q = <<>> THEN GroupCount(n) ELSE q[1].node[1] - 1

LEMMA FirstItem ==
    ASSUME NEW n \in Nat, NEW h
    PROVE  LET q == Response(n, h[Root(n)])
           IN  q \in Seq(Items(n, h)) /\ InOrder(n, q) /\ Behind(n, q) = 0
<1>1. PICK it : it = Awaited(Root(n), h[Root(n)])
  OBVIOUS
<1>2. it \in Items(n, h) /\ it.node = Root(n)
  BY <1>1, RootInRanges DEF Items, Awaited
<1>3. <<it>> \in Seq(Items(n, h)) /\ Len(<<it>>) = 1 /\ <<it>>[1] = it /\ <<it>> # <<>>
  BY <1>2
<1>. QED
  BY <1>1, <1>2, <1>3, RootInRanges DEF Response, InOrder, Behind

LEMMA ItemType ==
    ASSUME NEW n \in Nat, NEW h, NEW it \in Items(n, h)
    PROVE  /\ it.node \in Ranges(n) /\ it.hash = h[it.node]
           /\ it.node[1] \in 1..GroupCount(n) /\ it.node[2] \in 1..GroupCount(n)
  BY GroupsCover DEF Items, Awaited, Ranges

LEMMA AfterLeaf ==
    ASSUME NEW n \in Nat, NEW h, NEW q \in Seq(Items(n, h)), InOrder(n, q), q # <<>>,
           IsLeaf(Head(q).node)
    PROVE  /\ Tail(q) \in Seq(Items(n, h)) /\ InOrder(n, Tail(q))
           /\ Behind(n, Tail(q)) = Head(q).node[1] /\ Behind(n, q) = Head(q).node[1] - 1
<1>1. PICK t : t = Tail(q)
  OBVIOUS
<1>2. /\ Head(q) = q[1] /\ t \in Seq(Items(n, h)) /\ Len(t) = Len(q) - 1 /\ Len(q) >= 1
      /\ \A i \in 1..Len(t) : t[i] = q[i + 1]
  BY <1>1, HeadTailProperties
<1>3. InOrder(n, t)
  <2>. SUFFICES ASSUME NEW i \in 1..Len(t)
                PROVE  t[i].node[2] = IF i = Len(t) THEN GroupCount(n) ELSE t[i + 1].node[1] - 1
    BY DEF InOrder
  <2>1. i + 1 \in 1..Len(q) /\ t[i] = q[i + 1] /\ (i = Len(t) <=> i + 1 = Len(q))
        /\ (i # Len(t) => t[i + 1] = q[(i + 1) + 1])
    BY <1>2
  <2>. QED
    BY <2>1 DEF InOrder
<1>4. Behind(n, q) = q[1].node[1] - 1
  BY DEF Behind
<1>5. q[1].node[1] = q[1].node[2]
  BY <1>2 DEF IsLeaf
<1>6. q[1].node[2] = IF 1 = Len(q) THEN GroupCount(n) ELSE q[2].node[1] - 1
  BY <1>2 DEF InOrder
<1>7. Behind(n, t) = q[1].node[2]
  <2>1. CASE Len(q) = 1
    BY <1>2, <1>6, <2>1 DEF Behind
  <2>2. CASE Len(q) # 1
    BY <1>2, <1>6, <2>2 DEF Behind
  <2>. QED
    BY <2>1, <2>2
<1>. QED
  BY <1>1, <1>2, <1>3, <1>4, <1>5, <1>7

LEMMA AfterParent ==
    ASSUME NEW n \in Nat, NEW h, NEW q \in Seq(Items(n, h)), InOrder(n, q), q # <<>>,
           ~ IsLeaf(Head(q).node)
    PROVE  LET r == Head(q).node
               rest == Children(r, <<h[Left(r)], h[Right(r)]>>) \o Tail(q)
           IN  /\ rest \in Seq(Items(n, h)) /\ InOrder(n, rest)
               /\ Behind(n, rest) = Behind(n, q)
<1>1. PICK r, t : r = Head(q).node /\ t = Tail(q)
  OBVIOUS
<1>2. /\ Head(q) = q[1] /\ q[1] \in Items(n, h)
      /\ t \in Seq(Items(n, h)) /\ Len(t) = Len(q) - 1 /\ Len(q) >= 1
      /\ \A i \in 1..Len(t) : t[i] = q[i + 1]
  BY <1>1, HeadTailProperties
<1>3. GroupCount(n) \in Nat /\ r \in Ranges(n)
  BY <1>1, <1>2, ItemType, GroupsCover
<1>4. PICK a, b : a = Awaited(Left(r), h[Left(r)]) /\ b = Awaited(Right(r), h[Right(r)])
  OBVIOUS
<1>5. /\ a \in Items(n, h) /\ b \in Items(n, h)
      /\ a.node[1] = r[1] /\ a.node[2] = b.node[1] - 1 /\ b.node[2] = r[2]
  BY <1>1, <1>3, <1>4, NodesBelow DEF Items, Awaited
<1>6. PICK rest : rest = <<a, b>> \o t
  OBVIOUS
<1>7. Children(r, <<h[Left(r)], h[Right(r)]>>) = <<a, b>>
  BY <1>4 DEF Children
<1>8. /\ rest \in Seq(Items(n, h)) /\ Len(rest) = Len(q) + 1 /\ rest # <<>>
      /\ rest[1] = a /\ rest[2] = b /\ \A i \in 3..Len(rest) : rest[i] = q[i - 1]
  <2>1. <<a, b>> \in Seq(Items(n, h)) /\ Len(<<a, b>>) = 2 /\ <<a, b>>[1] = a /\ <<a, b>>[2] = b
    BY <1>5
  <2>2. rest \in Seq(Items(n, h)) /\ Len(rest) = 2 + Len(t)
        /\ \A i \in 1..Len(rest) : rest[i] = IF i <= 2 THEN <<a, b>>[i] ELSE t[i - 2]
    BY <1>2, <1>6, <2>1, ConcatProperties
  <2>3. \A i \in 3..Len(rest) : rest[i] = t[i - 2] /\ t[i - 2] = q[i - 1]
    <3>. SUFFICES ASSUME NEW i \in 3..Len(rest) PROVE rest[i] = t[i - 2] /\ t[i - 2] = q[i - 1]
      OBVIOUS
    <3>1. i \in 1..Len(rest) /\ ~ (i <= 2) /\ i - 2 \in 1..Len(t) /\ (i - 2) + 1 = i - 1
      BY <1>2, <2>2
    <3>. QED
      BY <1>2, <2>2, <3>1
  <2>. QED
    BY <1>2, <2>1, <2>2, <2>3
<1>9. InOrder(n, rest)
  <2>. SUFFICES ASSUME NEW i \in 1..Len(rest)
                PROVE  rest[i].node[2] = IF i = Len(rest) THEN GroupCount(n)
                                         ELSE rest[i + 1].node[1] - 1
    BY DEF InOrder
  <2>1. CASE i = 1
    BY <1>2, <1>5, <1>8, <2>1
  <2>2. CASE i # 1
    <3>1. i - 1 \in 1..Len(q) /\ (i = Len(rest) <=> i - 1 = Len(q))
          /\ rest[i].node[2] = q[i - 1].node[2]
      BY <1>1, <1>2, <1>5, <1>8, <2>2
    <3>2. i # Len(rest) => rest[i + 1] = q[(i - 1) + 1]
      <4>1. i # Len(rest) => i + 1 \in 3..Len(rest) /\ (i + 1) - 1 = (i - 1) + 1
        BY <1>2, <1>8, <2>2
      <4>. QED
        BY <1>8, <4>1
    <3>. QED
      BY <3>1, <3>2 DEF InOrder
  <2>. QED
    BY <2>1, <2>2
<1>10. Behind(n, rest) = Behind(n, q)
  BY <1>1, <1>2, <1>5, <1>8 DEF Behind
<1>. QED
  BY <1>1, <1>6, <1>7, <1>8, <1>9, <1>10

(***************************************************************************)
(* Encrypted files.  DecryptedAsEncrypted is not inductive: the key        *)
(* material a decryption compares with comes from an F.enc that was read   *)
(* steps before, of an encryption that may have been stopped since.  The   *)
(* invariant says of F.enc, and of every copy of it in use, whose          *)
(* encryption wrote it (WrittenBy), whatever its ciphertext has become.    *)
(***************************************************************************)
Writers == {"open", "write", "open_obao", "write_obao", "encrypted", "stopped"}
Readers == {"read_obao", "decode", "decrypted", "failed"}

CipherBytes == [key : Commands \union {Noise}, at : Nat, byte : Bytes \union {Noise}]

(* F.enc holds what one encryption wrote into it, but for the ciphertext,  *)
(* which has its length and may be damaged.                                *)
WrittenBy(e, were) ==
    \/ e = Unreadable
    \/ /\ e = [readable |-> TRUE, to |-> e.to, km |-> e.km, bao |-> e.bao, ct |-> e.ct]
       /\ e.km.key \in Commands
       /\ were[e.km.key].st \in Writers
       /\ LET k == e.km.key
              s == were[k].plain
          IN  /\ s \in Seq(Bytes) /\ e.km = KeyMaterial(k, s)
              /\ e.bao = RootHash(Keystream(k, s))
              /\ e.ct \in Seq(CipherBytes) /\ Len(e.ct) = Len(s)

IsCall(c) ==
    c = [st |-> c.st, kind |-> c.kind, who |-> c.who, lo |-> c.lo, hi |-> c.hi,
         enc |-> c.enc, km |-> c.km, obao |-> c.obao, pending |-> c.pending, out |-> c.out]

(* What the recipient's decryption has written of plaintext s, encrypted   *)
(* by k, are the bytes asked for of the groups its decoder has left behind.*)
From(c) == IF c.kind = "stream" THEN 0 ELSE c.lo
To(c, n) == IF c.kind = "stream" THEN n ELSE c.hi
Follows(c, k, s) ==
    LET n == Len(s) IN
    /\ c.pending \in Seq(Items(n, Hashes(Keystream(k, s)))) /\ InOrder(n, c.pending)
    /\ c.kind = "range" => c.hi <= n
    /\ c.out = SubSeq(s, From(c) + 1, Least(To(c, n), Upto(n, Behind(n, c.pending))))

(* A decryption works on what it has read, and has told nothing but the    *)
(* plaintext of that.                                                      *)
ReadsWell(c, were) ==
    /\ IsCall(c)
    /\ WrittenBy(c.enc, were)
    /\ c.kind \in {"stream", "range", "whole"} /\ c.lo \in Nat /\ c.hi \in Nat
    /\ c.st # "failed" => c.enc # Unreadable
    /\ c.st = "read_obao" => c.out = <<>>
    /\ c.st = "decode" => c.kind # "whole" /\ c.km \in Unwrap(c.who, c.enc)
    /\ c.st = "decrypted" /\ c.kind # "range" =>
          Ours(c) /\ c.out = were[c.enc.km.key].plain
    /\ c.st = "decode" /\ Ours(c) => Follows(c, c.enc.km.key, were[c.enc.km.key].plain)
    /\ c.st = "decrypted" /\ c.kind = "range" /\ Ours(c) =>
          c.out = SubSeq(were[c.enc.km.key].plain, c.lo + 1, c.hi)

Proceeds(c, were) ==
    \/ c = Idle \/ c = [st |-> "too_large"]
    \/ /\ c.st \in Writers /\ c = [st |-> c.st, to |-> c.to, plain |-> c.plain]
       /\ c.plain \in Seq(Bytes)
    \/ c.st \in Readers /\ ReadsWell(c, were)

EncryptionIInv ==
    /\ cmd = [p \in Commands |-> cmd[p]]
    /\ WrittenBy(enc, cmd)
    /\ \A p \in Commands : Proceeds(cmd[p], cmd)

-----------------------------------------------------------------------------
(* No command forgets what it encrypts.                                    *)
Remembers(were, later) ==
    \A q \in Commands : were[q].st \in Writers =>
        later[q].st \in Writers /\ later[q].plain = were[q].plain

LEMMA StillWritten ==
    ASSUME NEW e, NEW were, NEW later, Remembers(were, later), WrittenBy(e, were)
    PROVE  WrittenBy(e, later)
  BY DEF WrittenBy, Remembers

LEMMA StillProceeds ==
    ASSUME NEW c, NEW were, NEW later, Remembers(were, later), Proceeds(c, were)
    PROVE  Proceeds(c, later)
<1>1. CASE c.st \in Readers /\ ReadsWell(c, were)
  <2>1. WrittenBy(c.enc, later)
    BY <1>1, StillWritten DEF ReadsWell
  <2>2. ASSUME c.st = "decrypted", c.kind # "range"
        PROVE  Ours(c) /\ c.out = later[c.enc.km.key].plain
    BY <1>1, <2>2 DEF ReadsWell, WrittenBy, Remembers
  <2>3. c.enc # Unreadable => later[c.enc.km.key].plain = were[c.enc.km.key].plain
    BY <1>1 DEF ReadsWell, WrittenBy, Remembers
  <2>4. c.st \in {"decode", "decrypted"} => c.enc # Unreadable
    BY <1>1 DEF ReadsWell
  <2>. QED
    BY <1>1, <2>1, <2>2, <2>3, <2>4 DEF ReadsWell, Proceeds
<1>. QED
  BY <1>1 DEF Proceeds

(* One command goes on; what it encrypts stays what it is.                 *)
LEMMA GoesOn ==
    ASSUME EncryptionIInv, NEW p \in Commands, NEW c, Becomes(p, c),
           Proceeds(c, cmd),
           cmd[p].st \in Writers => c.st \in Writers /\ c.plain = cmd[p].plain
    PROVE  /\ Remembers(cmd, cmd')
           /\ cmd' = [q \in Commands |-> cmd'[q]]
           /\ \A q \in Commands : Proceeds(cmd'[q], cmd')
           /\ cmd'[p] = c
<1>1. /\ cmd = [q \in Commands |-> cmd[q]]
      /\ cmd' = [cmd EXCEPT ![p] = c]
  BY DEF EncryptionIInv, Becomes
<1>2. /\ cmd' = [q \in Commands |-> cmd'[q]]
      /\ \A q \in Commands : cmd'[q] = IF q = p THEN c ELSE cmd[q]
  BY <1>1
<1>3. Remembers(cmd, cmd')
  BY <1>2 DEF Remembers
<1>4. PICK later : later = cmd'
  OBVIOUS
<1>5. PICK were : were = cmd
  OBVIOUS
<1>6. ASSUME NEW q \in Commands PROVE Proceeds(cmd'[q], cmd')
  <2>1. PICK d : d = cmd'[q]
    OBVIOUS
  <2>2. Proceeds(d, were)
    BY <1>2, <1>5, <2>1 DEF EncryptionIInv
  <2>. QED
    BY <1>3, <1>4, <1>5, <2>1, <2>2, StillProceeds
<1>. QED
  BY <1>2, <1>3, <1>6

LEMMA EncKept ==
    ASSUME EncryptionIInv, enc' = enc, Remembers(cmd, cmd')
    PROVE  WrittenBy(enc', cmd')
<1>1. PICK e : e = enc
  OBVIOUS
<1>2. PICK later : later = cmd'
  OBVIOUS
<1>3. PICK were : were = cmd
  OBVIOUS
<1>. QED
  BY <1>1, <1>2, <1>3, StillWritten DEF EncryptionIInv

LEMMA ReaderStep ==
    ASSUME EncryptionIInv, NEW p \in Commands, NEW c, Becomes(p, c), Proceeds(c, cmd),
           cmd[p].st \notin Writers, enc' = enc
    PROVE  EncryptionIInv'
  BY GoesOn, EncKept DEF EncryptionIInv

LEMMA ShapeOf ==
    ASSUME EncryptionIInv, NEW p \in Commands
    PROVE  /\ cmd[p].st \in Writers =>
                /\ cmd[p] = [st |-> cmd[p].st, to |-> cmd[p].to, plain |-> cmd[p].plain]
                /\ cmd[p].plain \in Seq(Bytes)
           /\ cmd[p].st \in Readers => ReadsWell(cmd[p], cmd)
           /\ cmd[p] = Idle => cmd[p].st \notin Writers
<1>1. PICK c, were : c = cmd[p] /\ were = cmd
  OBVIOUS
<1>2. Proceeds(c, were)
  BY <1>1 DEF EncryptionIInv
<1>3. /\ c.st \in Writers => c = [st |-> c.st, to |-> c.to, plain |-> c.plain]
                              /\ c.plain \in Seq(Bytes)
      /\ c.st \in Readers => ReadsWell(c, were)
  BY <1>2 DEF Proceeds, Idle, Writers, Readers
<1>4. c = Idle => c.st \notin Writers
  BY DEF Idle, Writers
<1>. QED
  BY <1>1, <1>3, <1>4

LEMMA WriterStep ==
    ASSUME EncryptionIInv, NEW p \in Commands, cmd[p].st \in Writers,
           NEW s \in Writers, Goes(p, s)
    PROVE  /\ Remembers(cmd, cmd')
           /\ cmd' = [q \in Commands |-> cmd'[q]]
           /\ \A q \in Commands : Proceeds(cmd'[q], cmd')
           /\ cmd'[p].st = s /\ cmd'[p].plain = cmd[p].plain
<1>1. /\ cmd[p] = [st |-> cmd[p].st, to |-> cmd[p].to, plain |-> cmd[p].plain]
      /\ cmd[p].plain \in Seq(Bytes)
  BY ShapeOf
<1>2. PICK c : c = [cmd[p] EXCEPT !.st = s]
  OBVIOUS
<1>3. Becomes(p, c)
  BY <1>2 DEF Goes, Becomes
<1>4. /\ c.st = s /\ c.plain = cmd[p].plain
      /\ c = [st |-> c.st, to |-> c.to, plain |-> c.plain]
  BY <1>1, <1>2
<1>5. Proceeds(c, cmd)
  BY <1>1, <1>4 DEF Proceeds
<1>6. /\ Remembers(cmd, cmd')
      /\ cmd' = [q \in Commands |-> cmd'[q]]
      /\ \A q \in Commands : Proceeds(cmd'[q], cmd')
      /\ cmd'[p] = c
  BY <1>3, <1>4, <1>5, GoesOn
<1>. QED
  BY <1>4, <1>6

-----------------------------------------------------------------------------
LEMMA KeystreamType ==
    ASSUME NEW k \in Commands, NEW s \in Seq(Bytes)
    PROVE  Keystream(k, s) \in Seq(CipherBytes) /\ Len(Keystream(k, s)) = Len(s)
<1>1. \A i \in DOMAIN s : [key |-> k, at |-> i, byte |-> s[i]] \in CipherBytes
  BY DEF CipherBytes
<1>2. PICK ct : ct = [i \in 1..Len(s) |-> [key |-> k, at |-> i, byte |-> s[i]]]
  OBVIOUS
<1>3. ct \in Seq(CipherBytes) /\ Len(ct) = Len(s)
  BY <1>1, <1>2
<1>. QED
  BY <1>2, <1>3 DEF Keystream

LEMMA EncryptStep ==
    ASSUME EncryptionIInv, NEW p \in Commands, NEW who, NEW s \in Plaintexts, StartEncrypt(p, who, s)
    PROVE  EncryptionIInv'
<1>1. PICK c : Becomes(p, c) /\ (\/ c = [st |-> "too_large"]
                                \/ c = [st |-> "open", to |-> who, plain |-> s])
  BY DEF StartEncrypt
<1>2. Proceeds(c, cmd)
  BY <1>1, EncryptedFilesAssumption DEF Proceeds, Writers
<1>3. cmd[p].st \notin Writers /\ enc' = enc
  BY ShapeOf DEF StartEncrypt
<1>. QED
  BY <1>1, <1>2, <1>3, ReaderStep

LEMMA WriteStep ==
    ASSUME EncryptionIInv, NEW p \in Commands,
           OpenEnc(p) \/ WriteEnc(p) \/ OpenObao(p) \/ WriteObao(p) \/ Stop(p)
    PROVE  EncryptionIInv'
<1>1. CASE OpenEnc(p)
  <2>1. Goes(p, "write") /\ enc' = Unreadable /\ cmd[p].st \in Writers /\ "write" \in Writers
    BY <1>1 DEF OpenEnc, Writers
  <2>2. /\ cmd' = [q \in Commands |-> cmd'[q]]
        /\ \A q \in Commands : Proceeds(cmd'[q], cmd')
    BY <2>1, WriterStep
  <2>. QED
    BY <2>1, <2>2 DEF EncryptionIInv, WrittenBy
<1>2. CASE WriteEnc(p)
  <2>1. PICK e : e = Envelope(p, cmd[p].to, cmd[p].plain)
    OBVIOUS
  <2>2. PICK then : then = IF Outboard(e.ct) = <<>> THEN "encrypted" ELSE "open_obao"
    OBVIOUS
  <2>3. /\ enc' \in {e, Unreadable} /\ Goes(p, then) /\ cmd[p].st \in Writers
        /\ then \in Writers
    BY <1>2, <2>1, <2>2 DEF WriteEnc, Writers
  <2>4. /\ cmd' = [q \in Commands |-> cmd'[q]]
        /\ \A q \in Commands : Proceeds(cmd'[q], cmd')
        /\ cmd'[p].st = then /\ cmd'[p].plain = cmd[p].plain
    BY <2>3, WriterStep
  <2>5. /\ e = [readable |-> TRUE, to |-> e.to, km |-> e.km, bao |-> e.bao, ct |-> e.ct]
        /\ e.km = KeyMaterial(p, cmd[p].plain)
    BY <2>1 DEF Envelope
  <2>6. e.km.key = p
    BY <2>5 DEF KeyMaterial
  <2>7. WrittenBy(e, cmd')
    <3>1. PICK s, later : s = cmd[p].plain /\ later = cmd'
      OBVIOUS
    <3>2. s \in Seq(Bytes)
      BY <2>3, <3>1, ShapeOf
    <3>3. e.ct = Keystream(p, s) /\ e.bao = RootHash(Keystream(p, s))
      BY <2>1, <3>1 DEF Envelope
    <3>4. later[e.km.key].st \in Writers /\ later[e.km.key].plain = s
      BY <2>3, <2>4, <2>6, <3>1
    <3>5. e.ct \in Seq(CipherBytes) /\ Len(e.ct) = Len(s)
      BY <3>2, <3>3, KeystreamType
    <3>6. e.km = KeyMaterial(p, s)
      BY <2>5, <3>1
    <3>. QED
      BY <2>5, <2>6, <3>1, <3>2, <3>3, <3>4, <3>5, <3>6 DEF WrittenBy
  <2>8. WrittenBy(Unreadable, cmd')
    BY DEF WrittenBy
  <2>. QED
    BY <2>3, <2>4, <2>7, <2>8 DEF EncryptionIInv
<1>3. CASE OpenObao(p) \/ WriteObao(p) \/ Stop(p)
  <2>1. PICK s2 \in Writers : Goes(p, s2) /\ enc' = enc /\ cmd[p].st \in Writers
    BY <1>3 DEF OpenObao, WriteObao, Stop, Encrypting, Writers
  <2>2. /\ Remembers(cmd, cmd')
        /\ cmd' = [q \in Commands |-> cmd'[q]]
        /\ \A q \in Commands : Proceeds(cmd'[q], cmd')
    BY <2>1, WriterStep
  <2>. QED
    BY <2>1, <2>2, EncKept DEF EncryptionIInv
<1>. QED
  BY <1>1, <1>2, <1>3

(* Damage is of the ciphertext and of the outboard.                        *)
LEMMA DamageStep ==
    ASSUME EncryptionIInv, Damage
    PROVE  EncryptionIInv'
<1>1. cmd' = cmd
  BY DEF Damage
<1>2. WrittenBy(enc', cmd)
  <2>1. CASE enc' = enc
    BY <2>1 DEF EncryptionIInv
  <2>2. CASE enc' # enc
    <3>1. PICK i \in DOMAIN enc.ct :
             enc' = [enc EXCEPT !.ct[i] = [key |-> Noise, at |-> i, byte |-> Noise]]
      BY <2>2 DEF Damage
    <3>2. enc.readable
      BY <2>2 DEF Damage
    <3>3. /\ enc = [readable |-> TRUE, to |-> enc.to, km |-> enc.km, bao |-> enc.bao, ct |-> enc.ct]
          /\ enc.km.key \in Commands /\ cmd[enc.km.key].st \in Writers
          /\ cmd[enc.km.key].plain \in Seq(Bytes)
          /\ enc.km = KeyMaterial(enc.km.key, cmd[enc.km.key].plain)
          /\ enc.bao = RootHash(Keystream(enc.km.key, cmd[enc.km.key].plain))
          /\ enc.ct \in Seq(CipherBytes) /\ Len(enc.ct) = Len(cmd[enc.km.key].plain)
      BY <3>2 DEF EncryptionIInv, WrittenBy, Unreadable
    <3>4. PICK ct : ct = [enc.ct EXCEPT ![i] = [key |-> Noise, at |-> i, byte |-> Noise]]
      OBVIOUS
    <3>5. PICK e : e = [enc EXCEPT !.ct = ct]
      OBVIOUS
    <3>6. e = [readable |-> TRUE, to |-> enc.to, km |-> enc.km, bao |-> enc.bao, ct |-> ct]
      <4>1. PICK to, km, bao, old : to = enc.to /\ km = enc.km /\ bao = enc.bao /\ old = enc.ct
        OBVIOUS
      <4>2. enc = [readable |-> TRUE, to |-> to, km |-> km, bao |-> bao, ct |-> old]
        BY ONLY <3>3, <4>1
      <4>3. e = [readable |-> TRUE, to |-> to, km |-> km, bao |-> bao, ct |-> ct]
        BY ONLY <3>5, <4>2
      <4>. QED
        BY ONLY <4>1, <4>3
    <3>7. enc' = e
      BY <3>1, <3>4, <3>5
    <3>8. /\ e.km = enc.km /\ e.bao = enc.bao /\ e.ct = ct
          /\ e = [readable |-> TRUE, to |-> e.to, km |-> e.km, bao |-> e.bao, ct |-> e.ct]
      BY <3>6
    <3>9. ct \in Seq(CipherBytes) /\ Len(ct) = Len(enc.ct)
      <4>1. PICK b : b = [key |-> Noise, at |-> i, byte |-> Noise]
        OBVIOUS
      <4>2. PICK old \in Seq(CipherBytes) : old = enc.ct
        BY <3>3
      <4>3. i \in 1..Len(old)
        BY <4>2
      <4>4. b \in CipherBytes
        BY <4>1, <4>3 DEF CipherBytes
      <4>. QED
        BY <3>4, <4>1, <4>2, <4>3, <4>4
    <3>10. PICK were : were = cmd
      OBVIOUS
    <3>11. WrittenBy(e, were)
      BY <3>3, <3>8, <3>9, <3>10 DEF WrittenBy
    <3>. QED
      BY <3>7, <3>10, <3>11
  <2>. QED
    BY <2>1, <2>2
<1>. QED
  BY <1>1, <1>2 DEF EncryptionIInv

-----------------------------------------------------------------------------
(* A call that fails, or tells what it should, has proceeded.              *)
LEMMA CallEnds ==
    ASSUME NEW c, NEW were, IsCall(c), WrittenBy(c.enc, were), NEW out,
           c.kind \in {"stream", "range", "whole"}, c.lo \in Nat, c.hi \in Nat
    PROVE  /\ Proceeds(Fails(c), were)
           /\ /\ c.enc # Unreadable
              /\ c.kind # "range" => Ours(c) /\ out = were[c.enc.km.key].plain
              /\ c.kind = "range" /\ Ours(c) =>
                    out = SubSeq(were[c.enc.km.key].plain, c.lo + 1, c.hi)
              => Proceeds(Yields(c, out), were)
<1>1. PICK stage, kind, who, lo, hi, e, km, ob, pend, told :
        /\ stage = c.st /\ kind = c.kind /\ who = c.who /\ lo = c.lo /\ hi = c.hi /\ e = c.enc
        /\ km = c.km /\ ob = c.obao /\ pend = c.pending /\ told = c.out
  OBVIOUS
<1>2. c = [st |-> stage, kind |-> kind, who |-> who, lo |-> lo, hi |-> hi, enc |-> e,
           km |-> km, obao |-> ob, pending |-> pend, out |-> told]
  BY <1>1 DEF IsCall
<1>3. PICK f : f = Fails(c)
  OBVIOUS
<1>4. f = [st |-> "failed", kind |-> kind, who |-> who, lo |-> lo, hi |-> hi, enc |-> e,
           km |-> km, obao |-> <<>>, pending |-> <<>>, out |-> <<>>]
  BY ONLY <1>2, <1>3 DEF Fails
<1>5. Proceeds(f, were)
  BY <1>1, <1>4 DEF Proceeds, ReadsWell, Readers, IsCall
<1>6. PICK y : y = Yields(c, out)
  OBVIOUS
<1>7. y = [st |-> "decrypted", kind |-> kind, who |-> who, lo |-> lo, hi |-> hi, enc |-> e,
           km |-> km, obao |-> <<>>, pending |-> <<>>, out |-> out]
  BY ONLY <1>2, <1>6 DEF Yields
<1>8. ASSUME c.enc # Unreadable,
             c.kind # "range" => Ours(c) /\ out = were[c.enc.km.key].plain,
             c.kind = "range" /\ Ours(c) =>
                out = SubSeq(were[c.enc.km.key].plain, c.lo + 1, c.hi)
      PROVE  Proceeds(y, were)
  <2>1. /\ y.kind # "range" => Ours(y) /\ y.out = were[y.enc.km.key].plain
        /\ y.kind = "range" /\ Ours(y) => y.out = SubSeq(were[y.enc.km.key].plain, y.lo + 1, y.hi)
    BY <1>1, <1>7, <1>8 DEF Ours
  <2>2. /\ IsCall(y) /\ y.enc = c.enc /\ y.kind = c.kind /\ y.lo = c.lo /\ y.hi = c.hi
        /\ y.st = "decrypted"
    BY <1>1, <1>7 DEF IsCall
  <2>3. ReadsWell(y, were)
    BY <1>8, <2>1, <2>2 DEF ReadsWell
  <2>. QED
    BY <2>2, <2>3 DEF Proceeds, Readers
<1>. QED
  BY <1>3, <1>5, <1>6, <1>8

(* Key material of whoever is not the recipient has the hash of nothing.   *)
LEMMA HashTells ==
    ASSUME NEW who, NEW e, NEW were, WrittenBy(e, were), e # Unreadable,
           NEW km \in Unwrap(who, e), NEW s, PlainHash(s) = km.hash
    PROVE  who = e.to /\ s = were[e.km.key].plain
<1>1. PlainHash(s).known = TRUE /\ PlainHash(s).of = s
  BY DEF PlainHash
<1>2. CASE who = e.to
  <2>1. km = e.km /\ e.km.hash = PlainHash(were[e.km.key].plain)
    BY <1>2 DEF Unwrap, WrittenBy, KeyMaterial
  <2>2. PlainHash(were[e.km.key].plain).of = were[e.km.key].plain
    BY DEF PlainHash
  <2>. QED
    BY <1>1, <1>2, <2>1, <2>2
<1>3. CASE who # e.to
  <2>1. PICK n : km = [key |-> Noise, hash |-> [known |-> FALSE, of |-> <<>>], size |-> n]
    BY <1>3 DEF Unwrap
  <2>2. km.hash.known = FALSE
    BY <2>1
  <2>. QED
    BY <1>1, <2>2
<1>. QED
  BY <1>2, <1>3

LEMMA ReadingWell ==
    ASSUME EncryptionIInv, NEW p \in Commands, cmd[p].st \in Readers
    PROVE  /\ IsCall(cmd[p]) /\ WrittenBy(cmd[p].enc, cmd) /\ cmd[p].st \notin Writers
           /\ cmd[p].st # "failed" => cmd[p].enc # Unreadable
           /\ cmd[p].kind \in {"stream", "range", "whole"} /\ cmd[p].lo \in Nat /\ cmd[p].hi \in Nat
           /\ cmd[p].st = "read_obao" => cmd[p].out = <<>>
           /\ cmd[p].st = "decode" =>
                /\ cmd[p].kind # "whole" /\ cmd[p].km \in Unwrap(cmd[p].who, cmd[p].enc)
                /\ Ours(cmd[p]) => Follows(cmd[p], cmd[p].enc.km.key, cmd[cmd[p].enc.km.key].plain)
<1>1. ReadsWell(cmd[p], cmd)
  BY ShapeOf
<1>. QED
  BY <1>1 DEF ReadsWell, IsCall, Readers, Writers

LEMMA ReadEncStep ==
    ASSUME EncryptionIInv, NEW p \in Commands, NEW kind \in {"stream", "range", "whole"},
           NEW who, NEW range \in Nat \X Nat,
           ReadEnc(p, kind, who, range)
    PROVE  EncryptionIInv'
<1>1. PICK e : e = enc
  OBVIOUS
<1>2. PICK c : c = [st |-> "read_obao", kind |-> kind, who |-> who, lo |-> range[1],
                    hi |-> range[2], enc |-> e, km |-> <<>>, obao |-> <<>>, pending |-> <<>>,
                    out |-> <<>>]
  OBVIOUS
<1>3. /\ Becomes(p, IF e.readable THEN c ELSE Fails(c)) /\ enc' = enc
      /\ cmd[p].st \notin Writers
  BY <1>1, <1>2, ShapeOf DEF ReadEnc, Call
<1>4. /\ IsCall(c) /\ c.enc = e /\ c.st = "read_obao" /\ c.kind = kind /\ c.out = <<>>
      /\ c.lo \in Nat /\ c.hi \in Nat
  BY <1>2 DEF IsCall
<1>5. WrittenBy(c.enc, cmd)
  BY <1>1, <1>4 DEF EncryptionIInv
<1>6. e.readable => c.enc # Unreadable
  BY <1>4 DEF Unreadable
<1>7. e.readable => Proceeds(c, cmd)
  BY <1>4, <1>5, <1>6 DEF Proceeds, ReadsWell, Readers, IsCall
<1>8. PICK d : d = IF e.readable THEN c ELSE Fails(c)
  OBVIOUS
<1>9. Proceeds(d, cmd)
  BY <1>4, <1>5, <1>7, <1>8, CallEnds
<1>. QED
  BY <1>3, <1>8, <1>9, ReaderStep

LEMMA DecryptWholeStep ==
    ASSUME EncryptionIInv, NEW p \in Commands, DecryptWhole(p)
    PROVE  EncryptionIInv'
<1>1. PICK c : c = cmd[p]
  OBVIOUS
<1>2. /\ c.st = "read_obao" /\ c.kind = "whole" /\ enc' = enc
      /\ \/ \E s : \E km \in Unwrap(c.who, c.enc) :
               Becomes(p, IF Len(s) = km.size /\ PlainHash(s) = km.hash
                          THEN Yields(c, s) ELSE Fails(c))
         \/ Becomes(p, Fails(c))
  BY <1>1 DEF DecryptWhole
<1>3. /\ IsCall(c) /\ WrittenBy(c.enc, cmd) /\ cmd[p].st \notin Writers /\ c.enc # Unreadable
      /\ c.kind \in {"stream", "range", "whole"} /\ c.lo \in Nat /\ c.hi \in Nat
  BY <1>1, <1>2, ReadingWell DEF Readers
<1>4. CASE Becomes(p, Fails(c))
  <2>1. PICK d : d = Fails(c)
    OBVIOUS
  <2>. QED
    BY <1>2, <1>3, <1>4, <2>1, CallEnds, ReaderStep
<1>5. ASSUME NEW km \in Unwrap(c.who, c.enc), NEW s,
             Becomes(p, IF Len(s) = km.size /\ PlainHash(s) = km.hash
                        THEN Yields(c, s) ELSE Fails(c))
      PROVE  EncryptionIInv'
  <2>1. CASE PlainHash(s) = km.hash
    <3>1. Ours(c) /\ s = cmd[c.enc.km.key].plain
      BY <1>3, <2>1, HashTells DEF Ours
    <3>2. Proceeds(Yields(c, s), cmd) /\ Proceeds(Fails(c), cmd)
      BY <1>2, <1>3, <3>1, CallEnds
    <3>3. PICK d : d = IF Len(s) = km.size /\ PlainHash(s) = km.hash
                       THEN Yields(c, s) ELSE Fails(c)
      OBVIOUS
    <3>4. Becomes(p, d) /\ Proceeds(d, cmd)
      BY <1>5, <3>2, <3>3
    <3>. QED
      BY <1>2, <1>3, <3>4, ReaderStep
  <2>2. CASE PlainHash(s) # km.hash
    <3>1. PICK d : d = Fails(c)
      OBVIOUS
    <3>. QED
      BY <1>2, <1>3, <1>5, <2>2, <3>1, CallEnds, ReaderStep
  <2>. QED
    BY <2>1, <2>2
<1>. QED
  BY <1>2, <1>4, <1>5

(* Of a copy of F.enc that its recipient works on.                         *)
LEMMA RecipientsCopy ==
    ASSUME NEW c, NEW were, WrittenBy(c.enc, were), c.enc # Unreadable, Ours(c),
           NEW km \in Unwrap(c.who, c.enc)
    PROVE  LET k == c.enc.km.key
               s == were[k].plain
           IN  /\ k \in Commands /\ s \in Seq(Bytes) /\ km = c.enc.km
               /\ km.key = k /\ km.size = Len(s) /\ Len(c.enc.ct) = Len(s)
               /\ Keystream(k, s) \in Seq(CipherBytes) /\ Len(Keystream(k, s)) = Len(s)
               /\ c.enc.bao = Hashes(Keystream(k, s))[Root(Len(s))]
<1>1. km = c.enc.km
  BY DEF Unwrap, Ours
<1>. QED
  BY <1>1, KeystreamType DEF WrittenBy, KeyMaterial, RootHash

(* Before the first item of a response nothing has been written.           *)
LEMMA FollowsFirst ==
    ASSUME NEW c, NEW k \in Commands, NEW s \in Seq(Bytes), c.kind = "range" => c.hi <= Len(s),
           c.pending = Response(Len(s), Hashes(Keystream(k, s))[Root(Len(s))]),
           c.out = <<>>, c.kind \in {"stream", "range"}, c.lo \in Nat, c.hi \in Nat
    PROVE  Follows(c, k, s)
<1>0. PICK n \in Nat : n = Len(s)
  OBVIOUS
<1>1. PICK h : n = Len(s) /\ h = Hashes(Keystream(k, s))
  BY <1>0
<1>2. /\ c.pending \in Seq(Items(n, h)) /\ InOrder(n, c.pending)
      /\ Behind(n, c.pending) = 0
  BY <1>1, FirstItem
<1>3. Upto(n, 0) = 0
  BY <1>1, AllGroups
<1>4. SubSeq(s, From(c) + 1, Least(To(c, n), 0)) = <<>>
  <2>1. From(c) + 1 \in Int /\ Least(To(c, n), 0) \in Int /\ Least(To(c, n), 0) < From(c) + 1
    BY <1>1 DEF From, To, Least
  <2>. QED
    BY <2>1, SubSeqEmpty
<1>. QED
  BY <1>1, <1>2, <1>3, <1>4 DEF Follows

(* A group that hashes to what its parent said of it is the one that was   *)
(* written, and what it adds are the bytes asked for that come next.       *)
LEMMA FollowsLeaf ==
    ASSUME NEW c, NEW k \in Commands, NEW s \in Seq(Bytes), Follows(c, k, s),
           c.kind \in {"stream", "range"}, c.lo \in Nat, c.hi \in Nat, c.km.key = k,
           c.pending # <<>>, IsLeaf(Head(c.pending).node), Verifies(c, Head(c.pending)),
           NEW d, d.kind = c.kind, d.lo = c.lo, d.hi = c.hi, d.pending = Tail(c.pending),
           d.out = c.out \o Written(c, Head(c.pending).node[1])
    PROVE  Follows(d, k, s)
<1>0. PICK n \in Nat : n = Len(s)
  OBVIOUS
<1>1. PICK h, ct : n = Len(s) /\ ct = Keystream(k, s) /\ h = Hashes(ct) /\ Len(ct) = n
  BY <1>0, KeystreamType
<1>2. PICK q \in Seq(Items(n, h)) : q = c.pending /\ InOrder(n, q) /\ q # <<>>
  BY <1>1 DEF Follows
<1>3. PICK it \in Items(n, h) : it = Head(c.pending)
  BY <1>2, HeadTailProperties
<1>4. PICK r \in Ranges(n), g \in 1..GroupCount(n) : r = it.node /\ g = r[1] /\ it.hash = h[r] /\ IsLeaf(r)
  BY <1>3, ItemType
<1>5. PICK data : data = Group(ct, g)
  OBVIOUS
<1>6. Group(c.enc.ct, g) = data
  <2>1. h[r] = LeafHash(g, Group(c.enc.ct, g))
    BY <1>3, <1>4 DEF Verifies
  <2>2. h[r] = LeafHash(g, data)
    BY <1>1, <1>4, <1>5, HashOfLeaf
  <2>. QED
    BY <2>1, <2>2 DEF LeafHash
<1>7. /\ Tail(q) \in Seq(Items(n, h)) /\ InOrder(n, Tail(q))
      /\ Behind(n, Tail(q)) = g /\ Behind(n, q) = g - 1
  <2>1. IsLeaf(Head(q).node) /\ Head(q).node[1] = g
    BY <1>2, <1>3, <1>4
  <2>. QED
    BY <1>2, <2>1, AfterLeaf
<1>8. PICK a \in Nat, e \in 0..Len(s) :
        a = (g - 1) * GroupSize /\ a = Upto(n, g - 1) /\ e = Upto(n, g) /\ a \in 0..e
  BY <1>1, Edges
<1>9. Decipher(k, a + 1, data) = SubSeq(s, a + 1, e)
  BY <1>1, <1>5, <1>8, DecipherGroup
<1>10. c.out = SubSeq(s, From(c) + 1, Least(To(c, n), a))
  BY <1>1, <1>2, <1>7, <1>8 DEF Follows
<1>11. c.out \o Written(c, g) = SubSeq(s, From(c) + 1, Least(To(c, n), e))
  <2>1. CASE c.kind = "stream"
    <3>1. Least(To(c, n), a) = a /\ Least(To(c, n), e) = e /\ From(c) = 0
      BY <1>1, <1>8, <2>1 DEF From, To, Least
    <3>2. c.out = SubSeq(s, 1, a) /\ Len(c.out) = a
      <4>1. \A i \in 1..a : s[i] \in Bytes
        BY <1>8, ElementOfSeq
      <4>2. Len(SubSeq(s, 1, a)) = a
        BY <1>8, <4>1, SubSeqProperties
      <4>. QED
        BY <1>10, <3>1, <4>2
    <3>3. Written(c, g) = SubSeq(s, a + 1, e)
      BY <1>6, <1>9, <2>1, <3>2 DEF Written
    <3>4. SubSeq(s, 1, a) \o SubSeq(s, a + 1, e) = SubSeq(s, 1, e)
      <4>1. 1 \in 1..(Len(s) + 1) /\ a \in (1 - 1)..Len(s) /\ e \in a..Len(s)
        BY <1>8
      <4>. QED
        BY <4>1, ConcatAdjacentSubSeq
    <3>. QED
      BY <3>1, <3>2, <3>3, <3>4
  <2>2. CASE c.kind = "range"
    <3>1. From(c) = c.lo /\ To(c, n) = c.hi /\ c.hi \in 0..Len(s)
      BY <1>1, <2>2 DEF From, To, Follows
    <3>2. Written(c, g) = Overlap(SubSeq(s, a + 1, e), a, c.lo, c.hi)
      BY <1>6, <1>8, <1>9, <2>2 DEF Written
    <3>3. PICK lo \in Nat, hi \in 0..Len(s) : lo = c.lo /\ hi = c.hi
      BY <3>1
    <3>4. SubSeq(s, lo + 1, Least(hi, a)) \o Overlap(SubSeq(s, a + 1, e), a, lo, hi)
            = SubSeq(s, lo + 1, Least(hi, e))
      <4>1. s \in Seq(Bytes) /\ e \in 0..Len(s) /\ a \in 0..e
        BY <1>8
      <4>2. lo \in Nat /\ hi \in 0..Len(s)
        BY <3>3
      <4>. QED
        BY <4>1, <4>2, OverlapContinues
    <3>. QED
      BY <1>10, <3>1, <3>2, <3>3, <3>4
  <2>. QED
    BY <2>1, <2>2
<1>12. From(d) = From(c) /\ To(d, n) = To(c, n)
  BY DEF From, To
<1>. QED
  BY <1>1, <1>2, <1>3, <1>4, <1>7, <1>8, <1>11, <1>12 DEF Follows

(* A pair that hashes to what was said of its parent has the hashes of the *)
(* two below.                                                              *)
LEMMA FollowsParent ==
    ASSUME NEW c, NEW k \in Commands, NEW s \in Seq(Bytes), Follows(c, k, s),
           c.pending # <<>>, ~ IsLeaf(Head(c.pending).node), Verifies(c, Head(c.pending)),
           NEW d, d.kind = c.kind, d.lo = c.lo, d.hi = c.hi, d.out = c.out,
           d.pending = Children(Head(c.pending).node, PairOf(c, Head(c.pending).node))
                         \o Tail(c.pending)
    PROVE  Follows(d, k, s)
<1>0. PICK n \in Nat : n = Len(s)
  OBVIOUS
<1>1. PICK h, ct : n = Len(s) /\ ct = Keystream(k, s) /\ h = Hashes(ct) /\ Len(ct) = n
  BY <1>0, KeystreamType
<1>2. PICK q \in Seq(Items(n, h)) : q = c.pending /\ InOrder(n, q) /\ q # <<>>
  BY <1>1 DEF Follows
<1>3. PICK it \in Items(n, h) : it = Head(c.pending)
  BY <1>2, HeadTailProperties
<1>4. PICK r \in Ranges(n) : r = it.node /\ it.hash = h[r] /\ ~ IsLeaf(r)
  BY <1>3, ItemType
<1>5. PICK pair : pair = PairOf(c, r)
  OBVIOUS
<1>6. pair[1] = h[Left(r)] /\ pair[2] = h[Right(r)]
  <2>1. h[r] = ParentHash(pair)
    BY <1>3, <1>4, <1>5 DEF Verifies
  <2>2. h[r] = ParentHash(<<h[Left(r)], h[Right(r)]>>)
    BY <1>1, <1>4, HashOfParent
  <2>. QED
    BY <2>1, <2>2 DEF ParentHash
<1>7. Children(r, pair) = Children(r, <<h[Left(r)], h[Right(r)]>>)
  BY <1>6 DEF Children
<1>8. PICK rest : rest = Children(r, pair) \o Tail(q)
  OBVIOUS
<1>9. rest \in Seq(Items(n, h)) /\ InOrder(n, rest) /\ Behind(n, rest) = Behind(n, q)
  <2>1. ~ IsLeaf(Head(q).node) /\ Head(q).node = r
    BY <1>2, <1>3, <1>4
  <2>2. rest = Children(r, <<h[Left(r)], h[Right(r)]>>) \o Tail(q)
    BY <1>7, <1>8
  <2>. QED
    BY <1>0, <1>2, <2>1, <2>2, AfterParent
<1>10. From(d) = From(c) /\ To(d, n) = To(c, n) /\ d.pending = rest
  BY <1>2, <1>3, <1>4, <1>5, <1>8 DEF From, To
<1>. QED
  BY <1>1, <1>2, <1>9, <1>10 DEF Follows

LEMMA ReadObaoStep ==
    ASSUME EncryptionIInv, NEW p \in Commands, ReadObao(p)
    PROVE  EncryptionIInv'
<1>1. PICK c : c = cmd[p]
  OBVIOUS
<1>2. PICK ob, pend : ob = obao /\ pend = Response(Len(c.enc.ct), c.enc.bao)
  OBVIOUS
<1>3. /\ c.st = "read_obao" /\ c.kind # "whole" /\ enc' = enc
      /\ \/ \E km \in Unwrap(c.who, c.enc) :
               /\ c.kind = "range" => c.hi <= km.size
               /\ Becomes(p, [c EXCEPT !.st = "decode", !.km = km, !.obao = ob, !.pending = pend])
         \/ Becomes(p, Fails(c))
  BY <1>1, <1>2 DEF ReadObao
<1>4. /\ IsCall(c) /\ WrittenBy(c.enc, cmd) /\ cmd[p].st \notin Writers /\ c.enc # Unreadable
      /\ c.kind \in {"stream", "range", "whole"} /\ c.lo \in Nat /\ c.hi \in Nat
      /\ c.out = <<>>
  BY <1>1, <1>3, ReadingWell DEF Readers
<1>5. CASE Becomes(p, Fails(c))
  <2>1. PICK d : d = Fails(c)
    OBVIOUS
  <2>. QED
    BY <1>3, <1>4, <1>5, <2>1, CallEnds, ReaderStep
<1>6. ASSUME NEW km \in Unwrap(c.who, c.enc), c.kind = "range" => c.hi <= km.size,
             Becomes(p, [c EXCEPT !.st = "decode", !.km = km, !.obao = ob, !.pending = pend])
      PROVE  EncryptionIInv'
  <2>1. PICK d : d = [c EXCEPT !.st = "decode", !.km = km, !.obao = ob, !.pending = pend]
    OBVIOUS
  <2>2. /\ IsCall(d) /\ d.st = "decode" /\ d.enc = c.enc /\ d.who = c.who /\ d.km = km
        /\ d.kind = c.kind /\ d.lo = c.lo /\ d.hi = c.hi /\ d.pending = pend /\ d.out = c.out
    BY ONLY <1>4, <2>1 DEF IsCall
  <2>3. ASSUME Ours(c) PROVE Follows(d, d.enc.km.key, cmd[d.enc.km.key].plain)
    <3>1. PICK k, s : k = c.enc.km.key /\ s = cmd[k].plain
      OBVIOUS
    <3>2. /\ k \in Commands /\ s \in Seq(Bytes) /\ km.size = Len(s) /\ Len(c.enc.ct) = Len(s)
          /\ c.enc.bao = Hashes(Keystream(k, s))[Root(Len(s))]
      BY <1>4, <2>3, <3>1, RecipientsCopy
    <3>3. d.pending = Response(Len(s), Hashes(Keystream(k, s))[Root(Len(s))])
      BY <1>2, <2>2, <3>2
    <3>4. /\ d.kind \in {"stream", "range"} /\ d.lo \in Nat /\ d.hi \in Nat /\ d.out = <<>>
          /\ d.kind = "range" => d.hi <= Len(s)
      BY <1>3, <1>4, <1>6, <2>2, <3>2
    <3>5. Follows(d, k, s)
      BY <3>2, <3>3, <3>4, FollowsFirst
    <3>. QED
      BY <2>2, <3>1, <3>5
  <2>4. ReadsWell(d, cmd)
    BY <1>3, <1>4, <2>2, <2>3 DEF ReadsWell, Ours
  <2>5. Proceeds(d, cmd)
    BY <2>2, <2>4 DEF Proceeds, Readers
  <2>. QED
    BY <1>3, <1>4, <1>6, <2>1, <2>5, ReaderStep
<1>. QED
  BY <1>3, <1>5, <1>6

LEMMA DecodeNextStep ==
    ASSUME EncryptionIInv, NEW p \in Commands, DecodeNext(p)
    PROVE  EncryptionIInv'
<1>1. PICK c : c = cmd[p]
  OBVIOUS
<1>2. PICK it, r : it = Head(c.pending) /\ r = it.node
  OBVIOUS
<1>3. PICK leafed : leafed = [c EXCEPT !.pending = Tail(@), !.out = @ \o Written(c, r[1])]
  OBVIOUS
<1>4. PICK opened : opened = [c EXCEPT !.pending = Children(r, PairOf(c, r)) \o Tail(@)]
  OBVIOUS
<1>5. /\ c.st = "decode" /\ c.pending # <<>> /\ enc' = enc
      /\ Becomes(p, IF ~ Verifies(c, it) THEN Fails(c) ELSE IF IsLeaf(r) THEN leafed ELSE opened)
  BY <1>1, <1>2, <1>3, <1>4 DEF DecodeNext
<1>6. /\ IsCall(c) /\ WrittenBy(c.enc, cmd) /\ cmd[p].st \notin Writers /\ c.enc # Unreadable
      /\ c.kind \in {"stream", "range"} /\ c.lo \in Nat /\ c.hi \in Nat
      /\ c.km \in Unwrap(c.who, c.enc)
      /\ Ours(c) => Follows(c, c.enc.km.key, cmd[c.enc.km.key].plain)
  BY <1>1, <1>5, ReadingWell DEF Readers
<1>7. PICK k, s : k = c.enc.km.key /\ s = cmd[k].plain
  OBVIOUS
<1>8. Ours(c) => /\ k \in Commands /\ s \in Seq(Bytes) /\ c.km.key = k
                 /\ Follows(c, k, s)
  BY <1>6, <1>7, RecipientsCopy
<1>9. ASSUME NEW d, IsCall(d), d.st = "decode", d.enc = c.enc, d.who = c.who, d.km = c.km,
             d.kind = c.kind, d.lo = c.lo, d.hi = c.hi, Becomes(p, d),
             Ours(c) => Follows(d, k, s)
      PROVE  EncryptionIInv'
  <2>1. ReadsWell(d, cmd)
    BY <1>6, <1>7, <1>9 DEF ReadsWell, Ours
  <2>2. Proceeds(d, cmd)
    BY <1>9, <2>1 DEF Proceeds, Readers
  <2>. QED
    BY <1>5, <1>6, <1>9, <2>2, ReaderStep
<1>10. CASE ~ Verifies(c, it)
  <2>1. PICK d : d = Fails(c)
    OBVIOUS
  <2>. QED
    BY <1>5, <1>6, <1>10, <2>1, CallEnds, ReaderStep
<1>11. CASE Verifies(c, it) /\ IsLeaf(r)
  <2>1. /\ IsCall(leafed) /\ leafed.st = c.st /\ leafed.enc = c.enc /\ leafed.who = c.who
        /\ leafed.km = c.km /\ leafed.kind = c.kind /\ leafed.lo = c.lo /\ leafed.hi = c.hi
        /\ leafed.pending = Tail(c.pending) /\ leafed.out = c.out \o Written(c, r[1])
    BY ONLY <1>3, <1>6 DEF IsCall
  <2>2. Ours(c) => Follows(leafed, k, s)
    BY <1>2, <1>5, <1>6, <1>8, <1>11, <2>1, FollowsLeaf
  <2>. QED
    BY <1>5, <1>9, <1>11, <2>1, <2>2
<1>12. CASE Verifies(c, it) /\ ~ IsLeaf(r)
  <2>1. /\ IsCall(opened) /\ opened.st = c.st /\ opened.enc = c.enc /\ opened.who = c.who
        /\ opened.km = c.km /\ opened.kind = c.kind /\ opened.lo = c.lo /\ opened.hi = c.hi
        /\ opened.pending = Children(r, PairOf(c, r)) \o Tail(c.pending) /\ opened.out = c.out
    BY ONLY <1>4, <1>6 DEF IsCall
  <2>2. Ours(c) => Follows(opened, k, s)
    BY <1>2, <1>5, <1>6, <1>8, <1>12, <2>1, FollowsParent
  <2>. QED
    BY <1>5, <1>9, <1>12, <2>1, <2>2
<1>. QED
  BY <1>10, <1>11, <1>12

(* Behind the last item are all the bytes that were asked for.             *)
LEMMA FollowsLast ==
    ASSUME NEW c, NEW k \in Commands, NEW s \in Seq(Bytes), Follows(c, k, s), c.pending = <<>>,
           c.kind \in {"stream", "range"}, c.lo \in Nat, c.hi \in Nat
    PROVE  c.out = IF c.kind = "range" THEN SubSeq(s, c.lo + 1, c.hi) ELSE s
<1>1. Len(s) \in Nat /\ Upto(Len(s), Behind(Len(s), c.pending)) = Len(s)
  BY AllGroups DEF Behind
<1>2. c.out = SubSeq(s, From(c) + 1, Least(To(c, Len(s)), Len(s)))
  BY <1>1 DEF Follows
<1>3. CASE c.kind = "range"
  <2>1. From(c) = c.lo /\ Least(To(c, Len(s)), Len(s)) = c.hi
    BY <1>1, <1>3 DEF Follows, From, To, Least
  <2>. QED
    BY <1>2, <1>3, <2>1
<1>4. CASE c.kind = "stream"
  <2>1. From(c) = 0 /\ Least(To(c, Len(s)), Len(s)) = Len(s)
    BY <1>1, <1>4 DEF From, To, Least
  <2>. QED
    BY <1>2, <1>4, <2>1, SubSeqFull
<1>. QED
  BY <1>3, <1>4

LEMMA FinishStep ==
    ASSUME EncryptionIInv, NEW p \in Commands, Finish(p)
    PROVE  EncryptionIInv'
<1>1. PICK c : c = cmd[p]
  OBVIOUS
<1>2. /\ c.st = "decode" /\ c.pending = <<>> /\ enc' = enc
      /\ Becomes(p, IF c.kind = "stream" => PlainHash(c.out) = c.km.hash
                    THEN Yields(c, c.out) ELSE Fails(c))
  BY <1>1 DEF Finish
<1>3. /\ IsCall(c) /\ WrittenBy(c.enc, cmd) /\ cmd[p].st \notin Writers /\ c.enc # Unreadable
      /\ c.kind \in {"stream", "range"} /\ c.lo \in Nat /\ c.hi \in Nat
      /\ c.km \in Unwrap(c.who, c.enc)
      /\ Ours(c) => Follows(c, c.enc.km.key, cmd[c.enc.km.key].plain)
  BY <1>1, <1>2, ReadingWell DEF Readers
<1>4. PICK out : out = c.out
  OBVIOUS
<1>5. PICK d : d = IF c.kind = "stream" => PlainHash(out) = c.km.hash
                   THEN Yields(c, out) ELSE Fails(c)
  OBVIOUS
<1>6. Becomes(p, d)
  BY <1>2, <1>4, <1>5
<1>7. Proceeds(Fails(c), cmd)
  BY <1>3, CallEnds
<1>8. CASE c.kind = "range"
  <2>1. Ours(c) => out = SubSeq(cmd[c.enc.km.key].plain, c.lo + 1, c.hi)
    <3>1. PICK k, s : k = c.enc.km.key /\ s = cmd[k].plain
      OBVIOUS
    <3>2. Ours(c) => k \in Commands /\ s \in Seq(Bytes)
      BY <1>3, <3>1, RecipientsCopy
    <3>. QED
      BY <1>2, <1>3, <1>4, <1>8, <3>1, <3>2, FollowsLast
  <2>2. Proceeds(Yields(c, out), cmd)
    BY <1>3, <1>8, <2>1, CallEnds
  <2>. QED
    BY <1>2, <1>3, <1>5, <1>6, <1>7, <2>2, ReaderStep
<1>9. CASE c.kind = "stream"
  <2>1. CASE PlainHash(out) = c.km.hash
    <3>1. Ours(c) /\ out = cmd[c.enc.km.key].plain
      BY <1>3, <2>1, HashTells DEF Ours
    <3>2. c.kind # "range"
      BY <1>9
    <3>3. Proceeds(Yields(c, out), cmd)
      BY <1>3, <3>1, <3>2, CallEnds
    <3>. QED
      BY <1>2, <1>3, <1>5, <1>6, <1>7, <3>3, ReaderStep
  <2>2. CASE PlainHash(out) # c.km.hash
    <3>1. d = Fails(c)
      BY <1>5, <1>9, <2>2
    <3>. QED
      BY <1>2, <1>3, <1>6, <1>7, <3>1, ReaderStep
  <2>. QED
    BY <2>1, <2>2
<1>. QED
  BY <1>3, <1>8, <1>9

LEMMA EncryptionInductive == FileSpec => []EncryptionIInv
<1>1. FileInit => EncryptionIInv
  BY DEF FileInit, EncryptionIInv, WrittenBy, Proceeds, Idle, Writers, Readers
<1>2. EncryptionIInv /\ [FileNext]_fileVars => EncryptionIInv'
  <2>. SUFFICES ASSUME EncryptionIInv, [FileNext]_fileVars PROVE EncryptionIInv'
    OBVIOUS
  <2>1. CASE \E p \in Commands, who \in Identities, s \in Plaintexts : StartEncrypt(p, who, s)
    BY <2>1, EncryptStep
  <2>2. ASSUME NEW p \in Commands,
               OpenEnc(p) \/ WriteEnc(p) \/ OpenObao(p) \/ WriteObao(p) \/ Stop(p)
        PROVE  EncryptionIInv'
    BY <2>2, WriteStep
  <2>3. CASE \E p \in Commands, who \in Identities, kind \in {"stream", "whole"} :
                ReadEnc(p, kind, who, <<0, 0>>)
    <3>1. <<0, 0>> \in Nat \X Nat
      OBVIOUS
    <3>. QED
      BY <2>3, <3>1, ReadEncStep
  <2>4. CASE \E p \in Commands, who \in Identities, range \in RangesAsked :
                ReadEnc(p, "range", who, range)
    BY <2>4, ReadEncStep, EncryptedFilesAssumption
  <2>5. CASE \E p \in Commands : DecryptWhole(p) \/ ReadObao(p) \/ DecodeNext(p) \/ Finish(p)
    BY <2>5, DecryptWholeStep, ReadObaoStep, DecodeNextStep, FinishStep
  <2>6. CASE Damage
    BY <2>6, DamageStep
  <2>7. CASE UNCHANGED fileVars
    BY <2>7 DEF fileVars, EncryptionIInv
  <2>. QED
    BY <2>1, <2>2, <2>3, <2>4, <2>5, <2>6, <2>7 DEF FileNext
<1>. QED
  BY <1>1, <1>2, PTL DEF FileSpec

(* What decrypt and decrypt_streaming return is the plaintext of the one   *)
(* encryption whose F.enc was read, whatever was damaged, mixed up or      *)
(* written in between, and only its recipient is told it.                  *)
THEOREM DecryptsWhatWasEncrypted == FileSpec => []DecryptedAsEncrypted
<1>1. EncryptionIInv => DecryptedAsEncrypted
  <2>. SUFFICES ASSUME EncryptionIInv, NEW p \in Commands, cmd[p].st = "decrypted",
                       cmd[p].kind # "range"
                PROVE  Ours(cmd[p]) /\ cmd[p].out = cmd[cmd[p].enc.km.key].plain
    BY DEF DecryptedAsEncrypted, Original
  <2>1. ReadsWell(cmd[p], cmd)
    BY ShapeOf DEF Readers
  <2>. QED
    BY <2>1 DEF ReadsWell
<1>. QED
  BY <1>1, EncryptionInductive, PTL

(* What decrypt_streaming has written so far begins the plaintext: no      *)
(* chunk is written that fails verification.                               *)
THEOREM WritesAPrefix == FileSpec => []VerifiedPrefix
<1>1. EncryptionIInv => VerifiedPrefix
  <2>. SUFFICES ASSUME EncryptionIInv, NEW p \in Commands, cmd[p].st = "decode",
                       cmd[p].kind = "stream", Ours(cmd[p])
                PROVE  /\ Len(cmd[p].out) <= Len(Original(cmd[p]))
                       /\ cmd[p].out = SubSeq(Original(cmd[p]), 1, Len(cmd[p].out))
    BY DEF VerifiedPrefix
  <2>1. PICK c, k, s : c = cmd[p] /\ k = c.enc.km.key /\ s = cmd[k].plain
    OBVIOUS
  <2>0. c = cmd[p] /\ s = Original(cmd[p])
    BY <2>1 DEF Original
  <2>2. /\ WrittenBy(c.enc, cmd) /\ c.enc # Unreadable /\ c.km \in Unwrap(c.who, c.enc)
        /\ Follows(c, k, s)
    BY <2>1, ReadingWell DEF Readers
  <2>3. k \in Commands /\ s \in Seq(Bytes) /\ Len(Keystream(k, s)) = Len(s)
    BY <2>1, <2>2, RecipientsCopy
  <2>a. PICK n \in Nat : n = Len(s)
    BY <2>3
  <2>4. PICK g : n = Len(s) /\ g = Behind(n, c.pending)
    BY <2>a
  <2>5. Upto(n, g) \in 0..n
    <3>1. g \in 0..GroupCount(n) /\ GroupCount(n) \in Nat
      <4>1. GroupCount(n) \in Nat
        BY GroupsCover
      <4>2. CASE c.pending = <<>>
        BY <2>4, <4>1, <4>2 DEF Behind
      <4>3. CASE c.pending # <<>>
        <5>1. c.pending[1] \in Items(n, Hashes(Keystream(k, s)))
          BY <2>2, <2>4, <4>3 DEF Follows
        <5>. QED
          BY <2>4, <4>1, <4>3, <5>1, ItemType DEF Behind
      <4>. QED
        BY <4>2, <4>3
    <3>2. CASE g = 0
      BY <2>4, <3>2, AllGroups
    <3>3. CASE g # 0
      BY <3>1, <3>3, Edges
    <3>. QED
      BY <3>2, <3>3
  <2>6. PICK e \in 0..n : e = Least(n, Upto(n, g)) /\ c.out = SubSeq(s, 1, e)
    <3>1. Least(n, Upto(n, g)) \in 0..n
      BY <2>5 DEF Least
    <3>2. From(c) = 0 /\ To(c, n) = n
      BY <2>1 DEF From, To
    <3>. QED
      BY <2>2, <2>4, <3>1, <3>2 DEF Follows
  <2>7. Len(c.out) = e
    <3>1. \A i \in 1..e : s[i] \in Bytes
      BY <2>3, <2>4, ElementOfSeq
    <3>2. Len(SubSeq(s, 1, e)) = e
      BY <3>1, SubSeqProperties
    <3>. QED
      BY <2>6, <3>2
  <2>8. c.out = SubSeq(s, 1, Len(c.out)) /\ Len(c.out) <= Len(s)
    BY <2>4, <2>6, <2>7
  <2>. QED
    BY <2>0, <2>8
<1>. QED
  BY <1>1, EncryptionInductive, PTL

(* decrypt_range gives its recipient the bytes asked for, across chunk     *)
(* groups and within one.                                                  *)
THEOREM RangesAreExact == FileSpec => []RangeExact
<1>1. EncryptionIInv => RangeExact
  <2>. SUFFICES ASSUME EncryptionIInv, NEW p \in Commands, cmd[p].st = "decrypted",
                       cmd[p].kind = "range", Ours(cmd[p])
                PROVE  cmd[p].out = SubSeq(Original(cmd[p]), cmd[p].lo + 1, cmd[p].hi)
    BY DEF RangeExact
  <2>1. ReadsWell(cmd[p], cmd)
    BY ShapeOf DEF Readers
  <2>. QED
    BY <2>1 DEF ReadsWell, Original
<1>. QED
  BY <1>1, EncryptionInductive, PTL

(***************************************************************************)
(* SettledDecrypts needs more: what a command that runs alone leaves is    *)
(* whole, and so is what a reader that runs alone works on.                *)
(***************************************************************************)
Whole(e, were) == e.readable /\ e.ct = Keystream(e.km.key, were[e.km.key].plain)
Covers(ob, ct) == Len(ct) > GroupSize => ob = outboard_post_order(ct)
Listed(ob) == ob \in Seq({ob[i] : i \in DOMAIN ob})

WritesAlone(p) ==
    p \in Encrypting =>
      /\ Encrypting = {p}
      /\ cmd[p].st = "write" => enc = Unreadable
      /\ cmd[p].st \in {"open_obao", "write_obao"} => Whole(enc, cmd) /\ enc.km.key = p
      /\ cmd[p].st = "write_obao" => obao = <<>>

(* What the recipient reads alone fails for a range only that ends behind  *)
(* the file.                                                               *)
ReadsAlone(c, were) ==
    /\ c.st = "decode" /\ Ours(c) =>
         /\ Whole(c.enc, were) /\ Covers(c.obao, c.enc.ct)
         /\ \A i \in 1..Len(c.pending) : Holds(Len(c.enc.ct), c.pending[i].node)
    /\ c.st = "failed" =>
         /\ c.enc.readable
         /\ Ours(c) => c.kind = "range" /\ c.hi > Len(were[c.enc.km.key].plain)

Alone(p) ==
    /\ cmd[p].st # "idle"
    /\ cmd[p].st = "read_obao" => settled /\ cmd[p].enc = enc
    /\ WritesAlone(p) /\ ReadsAlone(cmd[p], cmd)

SettledIInv ==
    /\ Listed(obao)
    /\ quiet \subseteq Commands
    /\ settled => Encrypting = {} /\ Whole(enc, cmd) /\ Covers(obao, enc.ct)
    /\ \A p \in quiet : Alone(p)

-----------------------------------------------------------------------------
LEMMA ListedOf == ASSUME NEW T, NEW ob \in Seq(T) PROVE Listed(ob)
<1>1. ob = [i \in 1..Len(ob) |-> ob[i]] /\ Len(ob) \in Nat /\ DOMAIN ob = 1..Len(ob)
  OBVIOUS
<1>2. PICK R : R = {ob[i] : i \in DOMAIN ob}
  OBVIOUS
<1>3. \A i \in 1..Len(ob) : ob[i] \in R
  BY <1>1, <1>2
<1>4. ob \in Seq(R)
  BY <1>1, <1>3
<1>. QED
  BY <1>2, <1>4 DEF Listed

(* A file of one chunk group has no parents, any other has some.           *)
LEMMA ParentsOfFile ==
    ASSUME NEW n \in Nat
    PROVE  /\ PostOrder(n) \in Seq(Ranges(n))
           /\ n <= GroupSize => PostOrder(n) = <<>> /\ \A r \in Ranges(n) : IsLeaf(r)
           /\ n > GroupSize => PostOrder(n) # <<>>
           /\ Holds(n, Root(n))
<1>. USE GroupSizeAssumption
<1>1. PICK N \in Nat : N = GroupCount(n) /\ N >= 1 /\ (n <= GroupSize <=> N = 1)
  BY GroupsCover
<1>2. Root(n) \in Ranges(n) /\ Root(n) = <<1, N>>
  BY <1>1, RootInRanges DEF Root
<1>3. PostOrder(n) = ParentsOf(PostOrders(n), Root(n))
  BY <1>2, PostOrdersDefined DEF PostOrder
<1>4. PostOrder(n) \in Seq(Ranges(n))
  BY <1>2, PostOrdersType DEF PostOrder
<1>5. CASE n <= GroupSize
  <2>1. \A r \in Ranges(n) : r[1] = r[2]
    BY <1>1, <1>5 DEF Ranges
  <2>2. PostOrder(n) = <<>>
    BY <1>2, <1>3, <2>1 DEF ParentsOf, IsLeaf
  <2>. QED
    BY <1>4, <1>5, <2>1, <2>2 DEF IsLeaf, Holds, PostOrder
<1>6. CASE n > GroupSize
  <2>1. ~ IsLeaf(Root(n))
    BY <1>1, <1>2, <1>6 DEF IsLeaf
  <2>2. Left(Root(n)) \in Ranges(n) /\ Right(Root(n)) \in Ranges(n)
    BY <1>1, <1>2, <2>1, NodesBelow
  <2>3. PICK a \in Seq(Ranges(n)), b \in Seq(Ranges(n)), c \in Seq(Ranges(n)) :
           a = PostOrders(n)[Left(Root(n))] /\ b = PostOrders(n)[Right(Root(n))] /\ c = <<Root(n)>>
    <3>1. <<Root(n)>> \in Seq(Ranges(n))
      BY <1>2
    <3>. QED
      BY <2>2, <3>1, PostOrdersType
  <2>4. PostOrder(n) = (a \o b) \o c
    BY <1>3, <2>1, <2>3 DEF ParentsOf
  <2>5. Len((a \o b) \o c) = Len(a) + Len(b) + 1
    BY <2>3
  <2>6. PostOrder(n) # <<>>
    BY <2>4, <2>5
  <2>. QED
    BY <1>4, <1>6, <2>6 DEF Holds, PostOrder
<1>7. n <= GroupSize \/ n > GroupSize
  OBVIOUS
<1>. QED
  BY <1>5, <1>6, <1>7

LEMMA OutboardOf ==
    ASSUME NEW ct, Len(ct) \in Nat
    PROVE  /\ Listed(Outboard(ct)) /\ Covers(Outboard(ct), ct)
           /\ Len(ct) > GroupSize => Len(Outboard(ct)) = Len(PostOrder(Len(ct)))
           /\ Outboard(ct) = <<>> => Len(ct) <= GroupSize
<1>. USE GroupSizeAssumption
<1>0. PICK n \in Nat : n = Len(ct)
  OBVIOUS
<1>1. PICK o : n = Len(ct) /\ o = outboard_post_order(ct)
  BY <1>0
<1>2. PICK p \in Seq(Ranges(n)) : p = PostOrder(n)
  BY ParentsOfFile
<1>3. PICK pairs : pairs = {<<Hashes(ct)[Left(r)], Hashes(ct)[Right(r)]>> : r \in Ranges(n)}
  OBVIOUS
<1>4. o = [i \in 1..Len(p) |-> <<Hashes(ct)[Left(p[i])], Hashes(ct)[Right(p[i])]>>]
  BY <1>1, <1>2 DEF outboard_post_order
<1>5. \A i \in 1..Len(p) : <<Hashes(ct)[Left(p[i])], Hashes(ct)[Right(p[i])]>> \in pairs
  BY <1>2, <1>3, ElementOfSeq
<1>6. o \in Seq(pairs) /\ Len(o) = Len(p)
  BY <1>4, <1>5
<1>7. Listed(o)
  BY <1>6, ListedOf
<1>8. CASE n <= GroupSize
  <2>1. Outboard(ct) = <<>>
    BY <1>1, <1>8 DEF Outboard
  <2>2. Listed(<<>>)
    <3>1. <<>> \in Seq(pairs)
      OBVIOUS
    <3>. QED
      BY <3>1, ListedOf
  <2>. QED
    BY <1>1, <1>8, <2>1, <2>2 DEF Covers
<1>9. CASE n > GroupSize
  <2>1. Outboard(ct) = o
    BY <1>1, <1>9 DEF Outboard
  <2>2. p # <<>>
    BY <1>2, <1>9, ParentsOfFile
  <2>3. o # <<>>
    BY <1>2, <1>6, <2>2
  <2>. QED
    BY <1>1, <1>2, <1>6, <1>7, <1>9, <2>1, <2>3 DEF Covers
<1>10. n <= GroupSize \/ n > GroupSize
  OBVIOUS
<1>. QED
  BY <1>8, <1>9, <1>10

(* What a node says of what is whole is what its parent says of it.        *)
LEMMA WholeVerifies ==
    ASSUME NEW ct, NEW c, Len(ct) \in Nat, c.enc.ct = ct, Covers(c.obao, ct),
           NEW it, it \in Items(Len(ct), Hashes(ct)), Holds(Len(ct), it.node)
    PROVE  Verifies(c, it)
<1>1. PICK n, h, r :
        /\ n \in Nat /\ n = Len(ct) /\ h = Hashes(ct) /\ r = it.node /\ it.hash = h[r]
        /\ r \in Ranges(n)
  BY ItemType
<1>2. CASE IsLeaf(r)
  <2>1. h[r] = LeafHash(r[1], Group(ct, r[1]))
    BY <1>1, <1>2, HashOfLeaf
  <2>. QED
    BY <1>1, <1>2, <2>1 DEF Verifies
<1>3. CASE ~ IsLeaf(r)
  <2>1. ~ (n <= GroupSize)
    BY <1>1, <1>3, ParentsOfFile
  <2>2. c.obao = outboard_post_order(ct)
    BY <1>1, <2>1, GroupSizeAssumption DEF Covers
  <2>3. ParentHash(Pair(c.obao, n, r)) = h[r]
    BY <1>1, <1>3, <2>2, PairsOfOutboard
  <2>4. PairOf(c, r) = Pair(c.obao, n, r)
    BY <1>1 DEF PairOf
  <2>. QED
    BY <1>1, <1>3, <2>3, <2>4 DEF Verifies
<1>. QED
  BY <1>2, <1>3

-----------------------------------------------------------------------------
LEMMA StillAlone ==
    ASSUME NEW c, NEW were, NEW later, Remembers(were, later), ReadsAlone(c, were),
           c.st \in Readers => WrittenBy(c.enc, were)
    PROVE  ReadsAlone(c, later)
<1>1. c.st \in Readers /\ c.enc.readable =>
         later[c.enc.km.key].plain = were[c.enc.km.key].plain
  BY DEF WrittenBy, Remembers, Unreadable
<1>. QED
  BY <1>1 DEF ReadsAlone, Whole, Readers

LEMMA StillWhole ==
    ASSUME NEW e, NEW were, NEW later, Remembers(were, later), WrittenBy(e, were), Whole(e, were)
    PROVE  Whole(e, later)
  BY DEF Whole, WrittenBy, Remembers, Unreadable

LEMMA ReadFrom ==
    ASSUME EncryptionIInv, NEW q \in Commands
    PROVE  cmd[q].st \in Readers => WrittenBy(cmd[q].enc, cmd)
  BY ReadingWell

(* What a command in quiet is, by the others going on.                     *)
LEMMA OthersAlone ==
    ASSUME EncryptionIInv, NEW q \in Commands, Remembers(cmd, cmd'), cmd'[q] = cmd[q],
           ReadsAlone(cmd[q], cmd)
    PROVE  ReadsAlone(cmd'[q], cmd')
<1>1. PICK c, were, later : c = cmd[q] /\ were = cmd /\ later = cmd'
  OBVIOUS
<1>2. c.st \in Readers => WrittenBy(c.enc, were)
  BY <1>1, ReadFrom
<1>3. ReadsAlone(c, later)
  BY <1>1, <1>2, StillAlone
<1>. QED
  BY <1>1, <1>3

(* A command that is not encrypting goes on.                               *)
LEMMA ReaderAlone ==
    ASSUME EncryptionIInv, SettledIInv, NEW p \in Commands, NEW c, Becomes(p, c),
           cmd[p].st \notin Writers, c.st \notin Writers, c.st # "idle",
           enc' = enc, obao' = obao, settled' = settled,
           quiet' = quiet \/ quiet' = quiet \union {p},
           c.st \in Readers => WrittenBy(c.enc, cmd),
           p \in quiet' => /\ ReadsAlone(c, cmd)
                           /\ c.st = "read_obao" => settled /\ c.enc = enc
    PROVE  SettledIInv'
<1>1. cmd' = [cmd EXCEPT ![p] = c] /\ cmd = [q \in Commands |-> cmd[q]]
  BY DEF Becomes, EncryptionIInv
<1>2. cmd'[p] = c /\ \A q \in Commands : q # p => cmd'[q] = cmd[q]
  BY <1>1
<1>3. Remembers(cmd, cmd')
  BY <1>2 DEF Remembers
<1>4. Encrypting' = Encrypting /\ p \notin Encrypting
  BY <1>2 DEF Encrypting, Writers
<1>5. settled' => Encrypting' = {} /\ Whole(enc', cmd') /\ Covers(obao', enc'.ct)
  <2>1. PICK e, were, later : e = enc /\ were = cmd /\ later = cmd'
    OBVIOUS
  <2>2. settled => Encrypting = {} /\ Whole(e, were) /\ Covers(obao, e.ct) /\ WrittenBy(e, were)
    BY <2>1 DEF SettledIInv, EncryptionIInv
  <2>3. settled => Whole(e, later)
    BY <1>3, <2>1, <2>2, StillWhole
  <2>. QED
    BY <1>4, <2>1, <2>2, <2>3
<1>6. ASSUME NEW q \in quiet' PROVE Alone(q)'
  <2>1. CASE q = p
    <3>1. PICK were, later : were = cmd /\ later = cmd'
      OBVIOUS
    <3>2. ReadsAlone(c, later)
      BY <1>3, <2>1, <3>1, StillAlone
    <3>. QED
      BY <1>2, <1>4, <2>1, <3>1, <3>2 DEF Alone, WritesAlone
  <2>2. CASE q # p
    <3>1. q \in quiet /\ q \in Commands
      BY <2>2 DEF SettledIInv
    <3>2. cmd'[q] = cmd[q] /\ Alone(q)
      BY <1>2, <2>2, <3>1 DEF SettledIInv
    <3>3. ReadsAlone(cmd'[q], cmd')
      BY <1>3, <3>1, <3>2, OthersAlone DEF Alone
    <3>4. WritesAlone(q)'
      <4>. SUFFICES ASSUME q \in Encrypting
                    PROVE  WritesAlone(q)'
        BY <1>4 DEF WritesAlone
      <4>1. PICK e, were, later : e = enc /\ were = cmd /\ later = cmd'
        OBVIOUS
      <4>2. WrittenBy(e, were) /\ (Whole(e, were) => Whole(e, later))
        BY <1>3, <4>1, StillWhole DEF EncryptionIInv
      <4>. QED
        BY <1>4, <3>2, <4>1, <4>2 DEF WritesAlone, Alone
    <3>. QED
      BY <3>2, <3>3, <3>4 DEF Alone
  <2>. QED
    BY <2>1, <2>2
<1>. QED
  BY <1>5, <1>6 DEF SettledIInv

(* A command that is encrypting goes on: no other is, in quiet.            *)
LEMMA WriterAlone ==
    ASSUME EncryptionIInv, SettledIInv, NEW p \in Encrypting, NEW s \in Writers, Goes(p, s)
    PROVE  /\ ~ settled /\ p \in Commands /\ Remembers(cmd, cmd')
           /\ cmd'[p].st = s /\ cmd'[p].plain = cmd[p].plain
           /\ \A q \in Commands : q # p => cmd'[q] = cmd[q]
           /\ \A q \in quiet : q # p => Alone(q)'
           /\ ReadsAlone(cmd'[p], cmd')
           /\ p \in quiet => Alone(p) /\ Encrypting = {p}
                             /\ Encrypting' = IF s \in {"encrypted", "stopped"} THEN {} ELSE {p}
<1>1. p \in Commands /\ cmd[p].st \in Writers /\ ~ settled
  BY DEF Encrypting, Writers, SettledIInv
<1>2. Remembers(cmd, cmd') /\ cmd'[p].st = s /\ cmd'[p].plain = cmd[p].plain
  BY <1>1, WriterStep
<1>3. \A q \in Commands : q # p => cmd'[q] = cmd[q]
  BY <1>1 DEF Goes, EncryptionIInv
<1>4. ASSUME NEW q \in quiet, q # p PROVE Alone(q)'
  <2>1. q \in Commands /\ Alone(q) /\ cmd'[q] = cmd[q]
    BY <1>3, <1>4 DEF SettledIInv
  <2>2. q \notin Encrypting /\ cmd[q].st # "read_obao"
    BY <1>1, <1>4, <2>1 DEF Alone, WritesAlone
  <2>3. ReadsAlone(cmd'[q], cmd')
    BY <1>2, <2>1, OthersAlone DEF Alone
  <2>4. (q \notin Encrypting)'
    BY <2>1, <2>2 DEF Encrypting
  <2>. QED
    BY <2>1, <2>2, <2>3, <2>4 DEF Alone, WritesAlone
<1>5. ReadsAlone(cmd'[p], cmd')
  BY <1>2 DEF ReadsAlone, Writers
<1>6. ASSUME p \in quiet
      PROVE  /\ Alone(p) /\ Encrypting = {p}
             /\ Encrypting' = IF s \in {"encrypted", "stopped"} THEN {} ELSE {p}
  <2>1. Alone(p) /\ Encrypting = {p}
    BY <1>6 DEF SettledIInv, Alone, WritesAlone
  <2>2. \A q \in Commands : q # p => q \notin Encrypting /\ (q \notin Encrypting)'
    BY <1>3, <2>1 DEF Encrypting
  <2>3. (p \in Encrypting)' <=> s \notin {"encrypted", "stopped"}
    BY <1>1, <1>2 DEF Encrypting, Writers
  <2>4. Encrypting' \subseteq Commands
    BY DEF Encrypting
  <2>. QED
    BY <1>1, <2>1, <2>2, <2>3, <2>4
<1>. QED
  BY <1>1, <1>2, <1>3, <1>4, <1>5, <1>6

LEMMA OpenEncAlone ==
    ASSUME EncryptionIInv, SettledIInv, NEW p \in Commands, OpenEnc(p)
    PROVE  SettledIInv'
<1>1. p \in Encrypting /\ "write" \in Writers /\ Goes(p, "write") /\ enc' = Unreadable
      /\ obao' = obao /\ settled' = settled /\ quiet' = quiet
  BY DEF OpenEnc, Encrypting, Writers
<1>2. /\ ~ settled /\ cmd'[p].st = "write"
      /\ \A q \in quiet : q # p => Alone(q)'
      /\ ReadsAlone(cmd'[p], cmd')
      /\ p \in quiet => Encrypting' = {p}
  BY <1>1, WriterAlone
<1>3. p \in quiet => Alone(p)'
  BY <1>1, <1>2 DEF Alone, WritesAlone
<1>. QED
  BY <1>1, <1>2, <1>3 DEF SettledIInv

LEMMA WriteEncAlone ==
    ASSUME EncryptionIInv, SettledIInv, NEW p \in Commands, WriteEnc(p)
    PROVE  SettledIInv'
<1>1. PICK e, s, last : /\ s = cmd[p].plain /\ e = Envelope(p, cmd[p].to, cmd[p].plain)
                        /\ last = (Outboard(e.ct) = <<>>)
  OBVIOUS
<1>2. PICK then : then = IF last THEN "encrypted" ELSE "open_obao"
  OBVIOUS
<1>3. /\ p \in Encrypting /\ then \in Writers /\ Goes(p, then)
      /\ enc' \in {e} \union (IF enc.readable THEN {Unreadable} ELSE {})
      /\ obao' = obao /\ settled' = (last /\ p \in quiet) /\ quiet' = quiet
      /\ cmd[p].st = "write"
  BY <1>1, <1>2 DEF WriteEnc, Encrypting, Writers
<1>4. /\ cmd'[p].st = then /\ cmd'[p].plain = s
      /\ \A q \in quiet : q # p => Alone(q)'
      /\ ReadsAlone(cmd'[p], cmd')
      /\ p \in quiet => Alone(p) /\ Encrypting' = IF last THEN {} ELSE {p}
  BY <1>1, <1>2, <1>3, WriterAlone
<1>5. /\ e.readable = TRUE /\ e.km.key = p /\ e.ct = Keystream(p, s)
  BY <1>1 DEF Envelope, KeyMaterial
<1>6. p \in quiet => enc' = e
  BY <1>3, <1>4 DEF Alone, WritesAlone, Unreadable
<1>7. Whole(e, cmd')
  <2>1. PICK later : later = cmd'
    OBVIOUS
  <2>2. Whole(e, later)
    BY <1>4, <1>5, <2>1 DEF Whole
  <2>. QED
    BY <2>1, <2>2
<1>8. last => Covers(obao, e.ct)
  <2>1. s \in Seq(Bytes)
    BY <1>1, <1>3, ShapeOf DEF Writers
  <2>2. Len(e.ct) \in Nat
    BY <1>5, <2>1, KeystreamType
  <2>3. last => Len(e.ct) <= GroupSize
    BY <1>1, <2>2, OutboardOf
  <2>. QED
    BY <2>2, <2>3, GroupSizeAssumption DEF Covers
<1>9. p \in quiet => Alone(p)'
  <2>. SUFFICES ASSUME p \in quiet PROVE Alone(p)'
    OBVIOUS
  <2>1. WritesAlone(p)'
    <3>1. CASE last
      BY <1>3, <1>4, <3>1 DEF WritesAlone
    <3>2. CASE ~ last
      BY <1>2, <1>3, <1>4, <1>5, <1>6, <1>7, <3>2 DEF WritesAlone
    <3>. QED
      BY <3>1, <3>2
  <2>. QED
    BY <1>2, <1>3, <1>4, <2>1 DEF Alone
<1>10. settled' => Encrypting' = {} /\ Whole(enc', cmd') /\ Covers(obao', enc'.ct)
  BY <1>3, <1>4, <1>6, <1>7, <1>8
<1>. QED
  BY <1>3, <1>4, <1>9, <1>10 DEF SettledIInv

LEMMA WriteObaoAlone ==
    ASSUME EncryptionIInv, SettledIInv, NEW p \in Commands, OpenObao(p) \/ WriteObao(p)
    PROVE  SettledIInv'
<1>1. PICK s, ob : s = cmd[p].plain /\ ob = Outboard(Keystream(p, s))
  OBVIOUS
<1>2. PICK then : then = IF cmd[p].st = "open_obao" THEN "write_obao" ELSE "encrypted"
  OBVIOUS
<1>3. /\ p \in Encrypting /\ then \in Writers /\ Goes(p, then) /\ enc' = enc /\ quiet' = quiet
      /\ cmd[p].st \in {"open_obao", "write_obao"}
      /\ then = "write_obao" => obao' = <<>> /\ settled' = settled
      /\ then = "encrypted" => /\ obao' = ob \o SubSeq(obao, Len(ob) + 1, Len(obao))
                               /\ settled' = (p \in quiet)
  BY <1>1, <1>2 DEF OpenObao, WriteObao, Encrypting, Writers
<1>4. /\ ~ settled /\ cmd'[p].st = then /\ Remembers(cmd, cmd') /\ cmd'[p].plain = s
      /\ \A q \in quiet : q # p => Alone(q)'
      /\ ReadsAlone(cmd'[p], cmd')
      /\ p \in quiet => Alone(p) /\ Encrypting = {p}
                        /\ Encrypting' = IF then = "encrypted" THEN {} ELSE {p}
  BY <1>1, <1>2, <1>3, WriterAlone
<1>5. s \in Seq(Bytes) /\ Len(Keystream(p, s)) \in Nat
  <2>1. s \in Seq(Bytes)
    BY <1>1, <1>3, ShapeOf DEF Writers
  <2>. QED
    BY <2>1, KeystreamType
<1>6. Listed(ob) /\ Covers(ob, Keystream(p, s))
  BY <1>1, <1>5, OutboardOf
<1>7. Listed(obao')
  <2>1. CASE then = "write_obao"
    <3>1. <<>> \in Seq({})
      OBVIOUS
    <3>2. Listed(<<>>)
      BY <3>1, ListedOf
    <3>. QED
      BY <1>3, <2>1, <3>2
  <2>2. CASE then = "encrypted"
    <3>1. PICK old : old = obao
      OBVIOUS
    <3>2. PICK T : T = {old[i] : i \in DOMAIN old} \union {ob[i] : i \in DOMAIN ob}
      OBVIOUS
    <3>3. old \in Seq(T) /\ ob \in Seq(T)
      <4>1. PICK A, B : A = {old[i] : i \in DOMAIN old} /\ B = {ob[i] : i \in DOMAIN ob}
        OBVIOUS
      <4>2. old \in Seq(A) /\ ob \in Seq(B) /\ A \subseteq T /\ B \subseteq T
        BY <1>6, <3>1, <3>2, <4>1 DEF SettledIInv, Listed
      <4>. QED
        BY <4>2
    <3>4. SubSeq(old, Len(ob) + 1, Len(old)) \in Seq(T)
      <4>1. Len(ob) \in Nat /\ Len(old) \in Nat
        BY <3>3
      <4>2. \A i \in (Len(ob) + 1)..Len(old) : old[i] \in T
        BY <3>3, <4>1, ElementOfSeq
      <4>. QED
        BY <4>1, <4>2, SubSeqProperties
    <3>5. PICK new : new = ob \o SubSeq(old, Len(ob) + 1, Len(old))
      OBVIOUS
    <3>6. new \in Seq(T)
      BY <3>3, <3>4, <3>5
    <3>7. Listed(new)
      BY <3>6, ListedOf
    <3>. QED
      BY <1>3, <2>2, <3>1, <3>5, <3>7
  <2>. QED
    BY <1>2, <2>1, <2>2
<1>8. p \in quiet => Whole(enc, cmd) /\ enc.km.key = p /\ enc.ct = Keystream(p, s)
                     /\ (cmd[p].st = "write_obao" => obao = <<>>)
  BY <1>1, <1>3, <1>4 DEF Alone, WritesAlone, Whole
<1>9. p \in quiet => Whole(enc, cmd')
  <2>1. PICK e, were, later : e = enc /\ were = cmd /\ later = cmd'
    OBVIOUS
  <2>2. p \in quiet => Whole(e, later)
    BY <1>4, <1>8, <2>1, StillWhole DEF EncryptionIInv
  <2>. QED
    BY <2>1, <2>2
<1>10. p \in quiet => Alone(p)'
  BY <1>2, <1>3, <1>4, <1>8, <1>9 DEF Alone, WritesAlone
<1>11. settled' => Encrypting' = {} /\ Whole(enc', cmd') /\ Covers(obao', enc'.ct)
  <2>. SUFFICES ASSUME settled' PROVE Encrypting' = {} /\ Whole(enc', cmd') /\ Covers(obao', enc'.ct)
    OBVIOUS
  <2>1. then = "encrypted" /\ p \in quiet /\ cmd[p].st = "write_obao" /\ obao = <<>>
    BY <1>2, <1>3, <1>4, <1>8
  <2>2. ob \o SubSeq(<<>>, Len(ob) + 1, Len(<<>>)) = ob
    <3>1. PICK B : ob \in Seq(B)
      BY <1>6 DEF Listed
    <3>2. Len(ob) \in Nat /\ Len(<<>>) = 0
      BY <3>1
    <3>3. SubSeq(<<>>, Len(ob) + 1, 0) = <<>>
      <4>1. 0 < Len(ob) + 1 /\ Len(ob) + 1 \in Int /\ 0 \in Int
        BY <3>2
      <4>. QED
        BY <4>1, SubSeqEmpty
    <3>4. ob \o <<>> = ob
      BY <3>1
    <3>. QED
      BY <3>2, <3>3, <3>4
  <2>3. obao' = ob
    BY <1>3, <2>1, <2>2
  <2>. QED
    BY <1>3, <1>4, <1>6, <1>8, <1>9, <2>1, <2>3
<1>. QED
  BY <1>3, <1>4, <1>7, <1>10, <1>11 DEF SettledIInv

LEMMA StopAlone ==
    ASSUME EncryptionIInv, SettledIInv, NEW p \in Commands, Stop(p)
    PROVE  SettledIInv'
<1>1. p \in Encrypting /\ "stopped" \in Writers /\ Goes(p, "stopped") /\ enc' = enc
      /\ obao' = obao /\ settled' = settled /\ quiet' = quiet
  BY DEF Stop, Writers
<1>2. /\ ~ settled /\ cmd'[p].st = "stopped"
      /\ \A q \in quiet : q # p => Alone(q)'
      /\ ReadsAlone(cmd'[p], cmd')
  BY <1>1, WriterAlone
<1>3. (p \notin Encrypting)'
  BY <1>2 DEF Encrypting
<1>4. p \in quiet => Alone(p)'
  BY <1>2, <1>3 DEF Alone, WritesAlone
<1>. QED
  BY <1>1, <1>2, <1>4 DEF SettledIInv

LEMMA StartAlone ==
    ASSUME EncryptionIInv, SettledIInv, NEW p \in Commands, NEW who, NEW s \in Plaintexts,
           StartEncrypt(p, who, s)
    PROVE  SettledIInv'
<1>1. cmd[p] = Idle /\ cmd[p].st = "idle" /\ enc' = enc /\ obao' = obao /\ p \notin quiet
  BY DEF StartEncrypt, Idle, SettledIInv, Alone
<1>2. PICK c : c = IF Len(s) > MaxFileSize THEN [st |-> "too_large"]
                   ELSE [st |-> "open", to |-> who, plain |-> s]
  OBVIOUS
<1>3. Becomes(p, c)
  BY <1>2 DEF StartEncrypt
<1>4. CASE Len(s) > MaxFileSize
  <2>1. c.st = "too_large" /\ settled' = settled /\ quiet' = quiet
    BY <1>2, <1>4 DEF StartEncrypt
  <2>2. c.st \notin Writers /\ c.st \notin Readers /\ c.st # "idle" /\ cmd[p].st \notin Writers
    BY <1>1, <2>1 DEF Writers, Readers
  <2>. QED
    BY <1>1, <1>3, <2>1, <2>2, ReaderAlone
<1>5. CASE ~ (Len(s) > MaxFileSize)
  <2>1. /\ c.st = "open" /\ settled' = FALSE
        /\ quiet' = (quiet \ InFlight) \union (IF Encrypting = {} THEN {p} ELSE {})
    BY <1>2, <1>5 DEF StartEncrypt
  <2>2. cmd'[p] = c /\ \A q \in Commands : q # p => cmd'[q] = cmd[q]
    BY <1>3 DEF Becomes, EncryptionIInv
  <2>3. Remembers(cmd, cmd')
    BY <1>1, <2>2 DEF Remembers, Writers
  <2>4. ASSUME NEW q \in quiet \ InFlight PROVE Alone(q)'
    <3>1. q \in Commands /\ Alone(q) /\ q # p
      BY <1>1 DEF SettledIInv
    <3>2. cmd'[q] = cmd[q] /\ q \notin Encrypting /\ cmd[q].st # "read_obao"
      BY <2>2, <3>1 DEF InFlight
    <3>3. ReadsAlone(cmd'[q], cmd')
      BY <2>3, <3>1, <3>2, OthersAlone DEF Alone
    <3>4. (q \notin Encrypting)'
      BY <3>1, <3>2 DEF Encrypting
    <3>. QED
      BY <3>1, <3>2, <3>3, <3>4 DEF Alone, WritesAlone
  <2>5. ASSUME Encrypting = {} PROVE Alone(p)'
    <3>1. Encrypting' = {p}
      BY <2>1, <2>2, <2>5 DEF Encrypting
    <3>. QED
      BY <2>1, <2>2, <3>1 DEF Alone, WritesAlone, ReadsAlone
  <2>. QED
    BY <1>1, <2>1, <2>4, <2>5 DEF SettledIInv
<1>. QED
  BY <1>4, <1>5

LEMMA DamageAlone ==
    ASSUME EncryptionIInv, SettledIInv, Damage
    PROVE  SettledIInv'
<1>1. cmd' = cmd /\ settled' = FALSE /\ quiet' = quiet \ InFlight
  BY DEF Damage
<1>2. Listed(obao')
  <2>1. CASE obao' = obao
    BY <2>1 DEF SettledIInv
  <2>2. CASE obao' # obao
    <3>1. PICK old, i : old = obao /\ i \in DOMAIN old /\ obao' = [old EXCEPT ![i] = Damaged]
      BY <2>2 DEF Damage
    <3>2. PICK T : T = {old[j] : j \in DOMAIN old}
      OBVIOUS
    <3>3. old \in Seq(T)
      BY <3>1, <3>2 DEF SettledIInv, Listed
    <3>4. PICK new : new = [old EXCEPT ![i] = Damaged]
      OBVIOUS
    <3>5. new \in Seq(T \union {Damaged})
      BY <3>1, <3>3, <3>4
    <3>6. Listed(new)
      BY <3>5, ListedOf
    <3>. QED
      BY <3>1, <3>4, <3>6
  <2>. QED
    BY <2>1, <2>2
<1>3. ASSUME NEW q \in quiet' PROVE Alone(q)'
  <2>1. q \in quiet /\ q \in Commands /\ Alone(q) /\ q \notin Encrypting /\ cmd[q].st # "read_obao"
    BY <1>1, <1>3 DEF SettledIInv, InFlight
  <2>2. Encrypting' = Encrypting
    BY <1>1 DEF Encrypting
  <2>. QED
    BY <1>1, <2>1, <2>2 DEF Alone, WritesAlone
<1>. QED
  BY <1>1, <1>2, <1>3 DEF SettledIInv

LEMMA ReadEncAlone ==
    ASSUME EncryptionIInv, SettledIInv, NEW p \in Commands, NEW kind, NEW who, NEW range,
           ReadEnc(p, kind, who, range)
    PROVE  SettledIInv'
<1>1. cmd[p].st = "idle" /\ enc' = enc /\ obao' = obao /\ settled' = settled /\ p \notin quiet
      /\ quiet' = IF settled THEN quiet \union {p} ELSE quiet
  BY DEF ReadEnc, Idle, SettledIInv, Alone
<1>2. PICK e, c : e = enc /\ c = Call(kind, who, range[1], range[2])
  OBVIOUS
<1>3. PICK d : d = IF e.readable THEN c ELSE Fails(c)
  OBVIOUS
<1>4. Becomes(p, d)
  BY <1>2, <1>3 DEF ReadEnc
<1>5. d.enc = e /\ d.st = IF e.readable THEN "read_obao" ELSE "failed"
  BY <1>2, <1>3 DEF Call, Fails
<1>6. WrittenBy(d.enc, cmd)
  BY <1>2, <1>5 DEF EncryptionIInv
<1>7. settled => e.readable
  BY <1>2 DEF SettledIInv, Whole
<1>8. p \in quiet' => settled
  BY <1>1
<1>9. p \in quiet' => ReadsAlone(d, cmd) /\ (d.st = "read_obao" => settled /\ d.enc = enc)
  BY <1>2, <1>5, <1>7, <1>8 DEF ReadsAlone
<1>10. cmd[p].st \notin Writers /\ d.st \notin Writers /\ d.st # "idle"
  BY <1>1, <1>5 DEF Writers
<1>11. quiet' = quiet \/ quiet' = quiet \union {p}
  BY <1>1
<1>. QED
  BY <1>1, <1>4, <1>6, <1>9, <1>10, <1>11, ReaderAlone

LEMMA EndsOf ==
    ASSUME NEW c, IsCall(c), NEW out
    PROVE  /\ Fails(c).st = "failed" /\ Fails(c).enc = c.enc /\ Fails(c).who = c.who
           /\ Fails(c).kind = c.kind /\ Fails(c).hi = c.hi
           /\ Yields(c, out).st = "decrypted" /\ Yields(c, out).enc = c.enc
  BY DEF IsCall, Fails, Yields

(* A call of a command in quiet ends: it fails for what it could not read  *)
(* only.                                                                   *)
LEMMA EndAlone ==
    ASSUME EncryptionIInv, SettledIInv, NEW p \in Commands, cmd[p].st \in {"read_obao", "decode"},
           NEW d, NEW out, Becomes(p, d),
           enc' = enc, obao' = obao, settled' = settled, quiet' = quiet,
           \/ d = Yields(cmd[p], out)
           \/ d = Fails(cmd[p]) /\ (Ours(cmd[p]) /\ p \in quiet =>
                 cmd[p].kind = "range" /\ cmd[p].hi > Len(cmd[cmd[p].enc.km.key].plain))
    PROVE  SettledIInv'
<1>1. PICK c : c = cmd[p]
  OBVIOUS
<1>2. IsCall(c) /\ WrittenBy(c.enc, cmd) /\ c.enc.readable /\ cmd[p].st \notin Writers
  <2>1. IsCall(c) /\ WrittenBy(c.enc, cmd) /\ c.enc # Unreadable /\ cmd[p].st \notin Writers
    BY <1>1, ReadingWell DEF Readers
  <2>2. c.enc.readable = TRUE
    BY <2>1 DEF WrittenBy
  <2>. QED
    BY <2>1, <2>2
<1>3. /\ Fails(c).st = "failed" /\ Fails(c).enc = c.enc /\ Fails(c).who = c.who
      /\ Fails(c).kind = c.kind /\ Fails(c).hi = c.hi
      /\ Yields(c, out).st = "decrypted" /\ Yields(c, out).enc = c.enc
  BY <1>2, EndsOf
<1>4. d.enc = c.enc /\ d.st \in {"failed", "decrypted"}
  BY <1>1, <1>3
<1>5. p \in quiet => ReadsAlone(d, cmd)
  BY <1>1, <1>2, <1>3 DEF ReadsAlone, Ours
<1>6. WrittenBy(d.enc, cmd) /\ d.st \notin Writers /\ d.st # "idle" /\ d.st # "read_obao"
  BY <1>2, <1>4 DEF Writers
<1>. QED
  BY <1>2, <1>5, <1>6, ReaderAlone

LEMMA DecryptWholeAlone ==
    ASSUME EncryptionIInv, SettledIInv, NEW p \in Commands, DecryptWhole(p)
    PROVE  SettledIInv'
<1>1. PICK c : c = cmd[p]
  OBVIOUS
<1>2. /\ c.st = "read_obao" /\ c.kind = "whole"
      /\ enc' = enc /\ obao' = obao /\ settled' = settled /\ quiet' = quiet
  BY <1>1 DEF DecryptWhole
<1>3. /\ IsCall(c) /\ WrittenBy(c.enc, cmd) /\ c.enc # Unreadable
  BY <1>1, <1>2, ReadingWell DEF Readers
<1>4. PICK k, s : k = c.enc.km.key /\ s = cmd[k].plain
  OBVIOUS
<1>5. p \in quiet => c.enc.ct = Keystream(k, s)
  BY <1>1, <1>2, <1>4 DEF SettledIInv, Alone, Whole
<1>6. CASE /\ RootHash(c.enc.ct) # c.enc.bao \/ c.enc.to # c.who
           /\ Becomes(p, Fails(c))
  <2>1. ~ (Ours(c) /\ p \in quiet)
    BY <1>3, <1>4, <1>5, <1>6 DEF WrittenBy, Ours
  <2>2. PICK d : d = Fails(c)
    OBVIOUS
  <2>. QED
    BY <1>1, <1>2, <1>6, <2>1, <2>2, EndAlone
<1>7. ASSUME NEW km \in Unwrap(c.who, c.enc), NEW out, out = Decipher(km.key, 1, c.enc.ct),
             Becomes(p, IF Len(out) = km.size /\ PlainHash(out) = km.hash
                        THEN Yields(c, out) ELSE Fails(c))
      PROVE  SettledIInv'
  <2>1. Ours(c) /\ p \in quiet => Len(out) = km.size /\ PlainHash(out) = km.hash
    <3>. SUFFICES ASSUME Ours(c), p \in quiet
                  PROVE  Len(out) = km.size /\ PlainHash(out) = km.hash
      OBVIOUS
    <3>1. km = c.enc.km /\ km = KeyMaterial(k, s) /\ s \in Seq(Bytes)
      BY <1>3, <1>4 DEF Unwrap, Ours, WrittenBy
    <3>2. km.key = k /\ km.size = Len(s) /\ km.hash = PlainHash(s)
      BY <3>1 DEF KeyMaterial
    <3>3. out = s
      BY <1>5, <1>7, <3>1, <3>2, DecipherAll
    <3>. QED
      BY <3>2, <3>3
  <2>2. PICK d : d = IF Len(out) = km.size /\ PlainHash(out) = km.hash
                     THEN Yields(c, out) ELSE Fails(c)
    OBVIOUS
  <2>3. Becomes(p, d)
    BY <1>7, <2>2
  <2>4. d = Yields(c, out) \/ (d = Fails(c) /\ ~ (Ours(c) /\ p \in quiet))
    BY <2>1, <2>2 DEF Ours
  <2>. QED
    BY <1>1, <1>2, <2>3, <2>4, EndAlone
<1>8. \/ /\ RootHash(c.enc.ct) # c.enc.bao \/ c.enc.to # c.who
         /\ Becomes(p, Fails(c))
      \/ \E km \in Unwrap(c.who, c.enc) : \E out :
           /\ out = Decipher(km.key, 1, c.enc.ct)
           /\ Becomes(p, IF Len(out) = km.size /\ PlainHash(out) = km.hash
                         THEN Yields(c, out) ELSE Fails(c))
  BY <1>1 DEF DecryptWhole
<1>. QED
  BY <1>6, <1>7, <1>8

(* The decoder of a call goes on.                                          *)
LEMMA DecodeAlone ==
    ASSUME EncryptionIInv, SettledIInv, NEW p \in Commands, cmd[p].st \in {"read_obao", "decode"},
           NEW d, Becomes(p, d), d.st = "decode", d.enc = cmd[p].enc,
           enc' = enc, obao' = obao, settled' = settled, quiet' = quiet,
           p \in quiet => ReadsAlone(d, cmd)
    PROVE  SettledIInv'
<1>1. WrittenBy(cmd[p].enc, cmd) /\ cmd[p].st \notin Writers
  BY ReadingWell DEF Readers
<1>2. d.st \notin Writers /\ d.st # "idle" /\ d.st # "read_obao"
  BY DEF Writers
<1>. QED
  BY <1>1, <1>2, ReaderAlone

LEMMA ReadObaoAlone ==
    ASSUME EncryptionIInv, SettledIInv, NEW p \in Commands, ReadObao(p)
    PROVE  SettledIInv'
<1>1. PICK c, ob, n : c = cmd[p] /\ ob = obao /\ n = Len(c.enc.ct)
  OBVIOUS
<1>2. /\ c.st = "read_obao" /\ c.kind # "whole"
      /\ enc' = enc /\ obao' = obao /\ settled' = settled /\ quiet' = quiet
  BY <1>1 DEF ReadObao
<1>3. /\ IsCall(c) /\ WrittenBy(c.enc, cmd) /\ c.enc # Unreadable
      /\ c.kind \in {"stream", "range", "whole"}
  BY <1>1, <1>2, ReadingWell DEF Readers
<1>4. PICK k, s : k = c.enc.km.key /\ s = cmd[k].plain
  OBVIOUS
<1>5. p \in quiet => Whole(c.enc, cmd) /\ Covers(ob, c.enc.ct) /\ Listed(ob)
  BY <1>1, <1>2 DEF SettledIInv, Alone
<1>6. n \in Nat
  <2>1. s \in Seq(Bytes) /\ Len(c.enc.ct) = Len(s)
    BY <1>3, <1>4 DEF WrittenBy
  <2>. QED
    BY <1>1, <2>1
<1>7. p \in quiet => Len(ob) >= Len(PostOrder(n))
  <2>. SUFFICES ASSUME p \in quiet PROVE Len(ob) >= Len(PostOrder(n))
    OBVIOUS
  <2>1. PostOrder(n) \in Seq(Ranges(n))
    BY <1>6, ParentsOfFile
  <2>2. Len(ob) \in Nat
    <3>1. PICK R : ob \in Seq(R)
      BY <1>5 DEF Listed
    <3>. QED
      BY <3>1
  <2>3. CASE n > GroupSize
    <3>1. ob = outboard_post_order(c.enc.ct)
      BY <1>1, <1>5, <2>3 DEF Covers
    <3>2. Len(ob) = Len(PostOrder(n))
      <4>1. Outboard(c.enc.ct) = ob
        BY <1>1, <1>6, <2>3, <3>1, GroupSizeAssumption DEF Outboard
      <4>. QED
        BY <1>1, <1>6, <2>3, <4>1, OutboardOf
    <3>. QED
      BY <2>2, <3>2
  <2>4. CASE n <= GroupSize
    <3>1. PostOrder(n) = <<>>
      BY <1>6, <2>4, ParentsOfFile
    <3>. QED
      BY <2>2, <3>1
  <2>. QED
    BY <1>6, <2>3, <2>4, GroupSizeAssumption
<1>8. CASE c.enc.to # c.who /\ Becomes(p, Fails(c))
  <2>1. PICK d : d = Fails(c)
    OBVIOUS
  <2>. QED
    BY <1>1, <1>2, <1>8, <2>1, EndAlone DEF Ours
<1>9. ASSUME NEW km \in Unwrap(c.who, c.enc),
             Becomes(p, IF /\ c.kind = "range" => c.hi <= km.size
                           /\ Len(ob) >= Len(PostOrder(n))
                        THEN [c EXCEPT !.st = "decode", !.km = km, !.obao = ob,
                                       !.pending = Response(n, c.enc.bao)]
                        ELSE Fails(c))
      PROVE  SettledIInv'
  <2>1. CASE (c.kind = "range" => c.hi <= km.size) /\ Len(ob) >= Len(PostOrder(n))
    <3>1. PICK pend, d : /\ pend = Response(n, c.enc.bao)
                         /\ d = [c EXCEPT !.st = "decode", !.km = km, !.obao = ob, !.pending = pend]
      OBVIOUS
    <3>2. Becomes(p, d)
      BY <1>9, <2>1, <3>1
    <3>3. d.st = "decode" /\ d.enc = c.enc /\ d.who = c.who /\ d.obao = ob /\ d.pending = pend
      BY ONLY <1>3, <3>1 DEF IsCall
    <3>4. \A i \in 1..Len(pend) : Holds(n, pend[i].node)
      BY <1>6, <3>1, ParentsOfFile DEF Response, Awaited
    <3>5. p \in quiet => ReadsAlone(d, cmd)
      BY <1>1, <1>5, <3>3, <3>4 DEF ReadsAlone
    <3>. QED
      BY <1>1, <1>2, <3>2, <3>3, <3>5, DecodeAlone
  <2>2. CASE ~ ((c.kind = "range" => c.hi <= km.size) /\ Len(ob) >= Len(PostOrder(n)))
    <3>1. PICK d : d = Fails(c)
      OBVIOUS
    <3>2. Becomes(p, d)
      BY <1>9, <2>2, <3>1
    <3>3. Ours(c) /\ p \in quiet => c.kind = "range" /\ c.hi > Len(s)
      <4>. SUFFICES ASSUME Ours(c), p \in quiet PROVE c.kind = "range" /\ c.hi > Len(s)
        OBVIOUS
      <4>1. km.size = Len(s) /\ s \in Seq(Bytes)
        BY <1>3, <1>4, RecipientsCopy
      <4>2. c.hi \in Nat
        BY <1>1, <1>2, ReadingWell DEF Readers
      <4>. QED
        BY <1>7, <2>2, <4>1, <4>2
    <3>. QED
      BY <1>1, <1>2, <1>4, <3>1, <3>2, <3>3, EndAlone
  <2>. QED
    BY <2>1, <2>2
<1>10. \/ c.enc.to # c.who /\ Becomes(p, Fails(c))
       \/ \E km \in Unwrap(c.who, c.enc) :
            Becomes(p, IF /\ c.kind = "range" => c.hi <= km.size
                          /\ Len(ob) >= Len(PostOrder(n))
                       THEN [c EXCEPT !.st = "decode", !.km = km, !.obao = ob,
                                      !.pending = Response(n, c.enc.bao)]
                       ELSE Fails(c))
  BY <1>1 DEF ReadObao
<1>. QED
  BY <1>8, <1>9, <1>10

LEMMA DecodeNextAlone ==
    ASSUME EncryptionIInv, SettledIInv, NEW p \in Commands, DecodeNext(p)
    PROVE  SettledIInv'
<1>1. PICK c : c = cmd[p]
  OBVIOUS
<1>2. PICK it, r : it = Head(c.pending) /\ r = it.node
  OBVIOUS
<1>3. PICK leafed : leafed = [c EXCEPT !.pending = Tail(@), !.out = @ \o Written(c, r[1])]
  OBVIOUS
<1>4. PICK opened : opened = [c EXCEPT !.pending = Children(r, PairOf(c, r)) \o Tail(@)]
  OBVIOUS
<1>5. /\ c.st = "decode" /\ c.pending # <<>>
      /\ enc' = enc /\ obao' = obao /\ settled' = settled /\ quiet' = quiet
      /\ Becomes(p, IF ~ Verifies(c, it) THEN Fails(c) ELSE IF IsLeaf(r) THEN leafed ELSE opened)
  BY <1>1, <1>2, <1>3, <1>4 DEF DecodeNext
<1>6. /\ IsCall(c) /\ WrittenBy(c.enc, cmd) /\ c.enc # Unreadable
      /\ c.km \in Unwrap(c.who, c.enc)
      /\ Ours(c) => Follows(c, c.enc.km.key, cmd[c.enc.km.key].plain)
  BY <1>1, <1>5, ReadingWell DEF Readers
<1>7. PICK k, s, ct : k = c.enc.km.key /\ s = cmd[k].plain /\ ct = Keystream(k, s)
  OBVIOUS
<1>8. PICK n, h : n = Len(s) /\ h = Hashes(ct)
  OBVIOUS
<1>9. ASSUME Ours(c), p \in quiet
      PROVE  /\ n \in Nat /\ Len(ct) = n /\ c.enc.ct = ct /\ Covers(c.obao, ct)
             /\ c.pending \in Seq(Items(n, h)) /\ it \in Items(n, h)
             /\ \A i \in 1..Len(c.pending) : Holds(n, c.pending[i].node)
             /\ Holds(n, it.node) /\ r \in Ranges(n)
  <2>1. k \in Commands /\ s \in Seq(Bytes) /\ Len(ct) = Len(s) /\ Follows(c, k, s)
    BY <1>6, <1>7, <1>9, RecipientsCopy
  <2>2. /\ Whole(c.enc, cmd) /\ Covers(c.obao, c.enc.ct)
        /\ \A i \in 1..Len(c.pending) : Holds(Len(c.enc.ct), c.pending[i].node)
    BY <1>1, <1>5, <1>9 DEF SettledIInv, Alone, ReadsAlone
  <2>3. c.enc.ct = ct
    BY <1>7, <2>2 DEF Whole
  <2>4. n \in Nat /\ c.pending \in Seq(Items(n, h))
    <3>1. Len(s) \in Nat
      BY <2>1
    <3>2. c.pending \in Seq(Items(Len(s), Hashes(Keystream(k, s))))
      BY <2>1 DEF Follows
    <3>. QED
      BY <1>7, <1>8, <3>1, <3>2
  <2>5. PICK q \in Seq(Items(n, h)) : q = c.pending
    BY <2>4
  <2>6. it = q[1] /\ 1 \in 1..Len(q) /\ it \in Items(n, h)
    BY <1>2, <1>5, <2>5, HeadTailProperties
  <2>7. Holds(n, it.node)
    BY <1>8, <2>1, <2>2, <2>3, <2>5, <2>6
  <2>8. r \in Ranges(n)
    BY <1>2, <2>4, <2>6, ItemType
  <2>. QED
    BY <1>8, <2>1, <2>2, <2>3, <2>4, <2>6, <2>7, <2>8
<1>10. Ours(c) /\ p \in quiet => Verifies(c, it)
  BY <1>8, <1>9, WholeVerifies
<1>11. CASE ~ Verifies(c, it)
  <2>1. PICK d : d = Fails(c)
    OBVIOUS
  <2>. QED
    BY <1>1, <1>5, <1>10, <1>11, <2>1, EndAlone
<1>12. ASSUME NEW d, d.st = "decode", d.enc = c.enc, d.who = c.who, d.obao = c.obao, Becomes(p, d),
              Ours(c) /\ p \in quiet => \A i \in 1..Len(d.pending) : Holds(n, d.pending[i].node)
       PROVE  SettledIInv'
  <2>1. p \in quiet => ReadsAlone(d, cmd)
    <3>. SUFFICES ASSUME p \in quiet, Ours(d)
                  PROVE  /\ Whole(d.enc, cmd) /\ Covers(d.obao, d.enc.ct)
                         /\ \A i \in 1..Len(d.pending) : Holds(Len(d.enc.ct), d.pending[i].node)
      BY <1>12 DEF ReadsAlone
    <3>1. Ours(c)
      BY <1>12 DEF Ours
    <3>2. Whole(c.enc, cmd)
      BY <1>1, <1>5, <3>1 DEF SettledIInv, Alone, ReadsAlone
    <3>. QED
      BY <1>9, <1>12, <3>1, <3>2
  <2>. QED
    BY <1>1, <1>5, <1>12, <2>1, DecodeAlone
<1>13. CASE Verifies(c, it) /\ IsLeaf(r)
  <2>1. /\ leafed.st = c.st /\ leafed.enc = c.enc /\ leafed.who = c.who /\ leafed.obao = c.obao
        /\ leafed.pending = Tail(c.pending)
    BY ONLY <1>3, <1>6 DEF IsCall
  <2>2. ASSUME Ours(c), p \in quiet
        PROVE  \A i \in 1..Len(leafed.pending) : Holds(n, leafed.pending[i].node)
    <3>1. PICK q \in Seq(Items(n, h)) : q = c.pending
      BY <1>9, <2>2
    <3>2. Len(Tail(q)) = Len(q) - 1 /\ Len(q) \in Nat
          /\ \A i \in 1..Len(Tail(q)) : Tail(q)[i] = q[i + 1]
      BY <1>5, <3>1, HeadTailProperties
    <3>3. \A i \in 1..Len(Tail(q)) : i + 1 \in 1..Len(q)
      BY <3>2
    <3>. QED
      BY <1>9, <2>1, <2>2, <3>1, <3>2, <3>3
  <2>. QED
    BY <1>5, <1>12, <1>13, <2>1, <2>2
<1>14. CASE Verifies(c, it) /\ ~ IsLeaf(r)
  <2>1. /\ opened.st = c.st /\ opened.enc = c.enc /\ opened.who = c.who /\ opened.obao = c.obao
        /\ opened.pending = Children(r, PairOf(c, r)) \o Tail(c.pending)
    BY ONLY <1>4, <1>6 DEF IsCall
  <2>2. ASSUME Ours(c), p \in quiet
        PROVE  \A i \in 1..Len(opened.pending) : Holds(n, opened.pending[i].node)
    <3>1. PICK q \in Seq(Items(n, h)) : q = c.pending
      BY <1>9, <2>2
    <3>2. Len(Tail(q)) = Len(q) - 1 /\ Len(q) \in Nat /\ Tail(q) \in Seq(Items(n, h))
          /\ \A i \in 1..Len(Tail(q)) : Tail(q)[i] = q[i + 1]
      BY <1>5, <3>1, HeadTailProperties
    <3>3. Holds(n, Left(r)) /\ Holds(n, Right(r))
      BY <1>2, <1>9, <1>14, <2>2, HoldsBelow
    <3>4. PICK T, two :
             /\ two \in Seq(T) /\ Tail(q) \in Seq(T) /\ two = Children(r, PairOf(c, r)) /\ Len(two) = 2
             /\ two[1].node = Left(r) /\ two[2].node = Right(r)
      <4>1. PICK a, b : a = Awaited(Left(r), PairOf(c, r)[1]) /\ b = Awaited(Right(r), PairOf(c, r)[2])
        OBVIOUS
      <4>2. PICK T : T = Items(n, h) \union {a, b}
        OBVIOUS
      <4>3. <<a, b>> \in Seq(T) /\ Len(<<a, b>>) = 2 /\ <<a, b>>[1] = a /\ <<a, b>>[2] = b
        BY <4>2
      <4>4. Children(r, PairOf(c, r)) = <<a, b>> /\ a.node = Left(r) /\ b.node = Right(r)
        BY <4>1 DEF Children, Awaited
      <4>5. Tail(q) \in Seq(T)
        BY <3>2, <4>2
      <4>. QED
        BY <4>3, <4>4, <4>5
    <3>5. /\ Len(two \o Tail(q)) = 2 + Len(Tail(q))
          /\ \A i \in 1..Len(two \o Tail(q)) :
                (two \o Tail(q))[i] = IF i <= 2 THEN two[i] ELSE Tail(q)[i - 2]
      <4>1. two \in Seq(T) /\ Tail(q) \in Seq(T) /\ Len(two) = 2
        BY <3>4
      <4>2. PICK left, right, both :
               left \in Seq(T) /\ right \in Seq(T) /\ left = two /\ right = Tail(q) /\ both = two \o Tail(q)
        BY <4>1
      <4>3. /\ both = left \o right /\ Len(left) = 2 /\ Len(right) \in Nat
            /\ Len(both) = Len(left) + Len(right)
            /\ \A i \in 1..(Len(left) + Len(right)) :
                  both[i] = IF i <= Len(left) THEN left[i] ELSE right[i - Len(left)]
        BY <4>1, <4>2, ConcatProperties
      <4>. QED
        BY <4>2, <4>3
    <3>6. ASSUME NEW i \in 1..Len(two \o Tail(q)) PROVE Holds(n, (two \o Tail(q))[i].node)
      <4>1. CASE i <= 2
        <5>1. i = 1 \/ i = 2
          BY <3>2, <3>5, <4>1
        <5>. QED
          BY <3>3, <3>4, <3>5, <4>1, <5>1
      <4>2. CASE ~ (i <= 2)
        <5>1. i - 2 \in 1..Len(Tail(q)) /\ (i - 2) + 1 \in 1..Len(q)
          BY <3>2, <3>5, <4>2
        <5>2. (two \o Tail(q))[i] = q[(i - 2) + 1]
          BY <3>2, <3>5, <4>2, <5>1
        <5>. QED
          BY <1>9, <2>2, <3>1, <5>1, <5>2
      <4>. QED
        BY <4>1, <4>2
    <3>. QED
      BY <2>1, <3>1, <3>4, <3>6
  <2>. QED
    BY <1>5, <1>12, <1>14, <2>1, <2>2
<1>. QED
  BY <1>11, <1>13, <1>14

LEMMA FinishAlone ==
    ASSUME EncryptionIInv, SettledIInv, NEW p \in Commands, Finish(p)
    PROVE  SettledIInv'
<1>1. PICK c, out : c = cmd[p] /\ out = c.out
  OBVIOUS
<1>2. /\ c.st = "decode" /\ c.pending = <<>>
      /\ enc' = enc /\ obao' = obao /\ settled' = settled /\ quiet' = quiet
      /\ Becomes(p, IF c.kind = "stream" => PlainHash(out) = c.km.hash
                    THEN Yields(c, out) ELSE Fails(c))
  BY <1>1 DEF Finish
<1>3. /\ IsCall(c) /\ WrittenBy(c.enc, cmd) /\ c.enc # Unreadable
      /\ c.kind \in {"stream", "range"} /\ c.lo \in Nat /\ c.hi \in Nat
      /\ c.km \in Unwrap(c.who, c.enc)
      /\ Ours(c) => Follows(c, c.enc.km.key, cmd[c.enc.km.key].plain)
  BY <1>1, <1>2, ReadingWell DEF Readers
<1>4. ASSUME Ours(c), c.kind = "stream" PROVE PlainHash(out) = c.km.hash
  <2>1. PICK k, s : k = c.enc.km.key /\ s = cmd[k].plain
    OBVIOUS
  <2>2. k \in Commands /\ s \in Seq(Bytes) /\ c.km = c.enc.km /\ Follows(c, k, s)
    BY <1>3, <1>4, <2>1, RecipientsCopy
  <2>3. c.out = s
    BY <1>2, <1>3, <1>4, <2>2, FollowsLast
  <2>4. c.enc.km = KeyMaterial(k, s)
    BY <1>3, <2>1 DEF WrittenBy
  <2>. QED
    BY <1>1, <2>2, <2>3, <2>4 DEF KeyMaterial
<1>5. PICK d : d = IF c.kind = "stream" => PlainHash(out) = c.km.hash
                   THEN Yields(c, out) ELSE Fails(c)
  OBVIOUS
<1>6. Becomes(p, d)
  BY <1>2, <1>5
<1>7. d = Yields(c, out) \/ (d = Fails(c) /\ ~ Ours(c))
  BY <1>4, <1>5 DEF Ours
<1>. QED
  BY <1>1, <1>2, <1>6, <1>7, EndAlone

LEMMA SettledInductive == FileSpec => []SettledIInv
<1>1. FileInit => SettledIInv
  <2>1. <<>> \in Seq({})
    OBVIOUS
  <2>2. Listed(<<>>)
    BY <2>1, ListedOf
  <2>. QED
    BY <2>2 DEF FileInit, SettledIInv
<1>2. EncryptionIInv /\ SettledIInv /\ [FileNext]_fileVars => SettledIInv'
  <2>. SUFFICES ASSUME EncryptionIInv, SettledIInv, [FileNext]_fileVars PROVE SettledIInv'
    OBVIOUS
  <2>1. CASE \E p \in Commands, who \in Identities, s \in Plaintexts : StartEncrypt(p, who, s)
    BY <2>1, StartAlone
  <2>2. ASSUME NEW p \in Commands,
               OpenEnc(p) \/ WriteEnc(p) \/ OpenObao(p) \/ WriteObao(p) \/ Stop(p)
        PROVE  SettledIInv'
    BY <2>2, OpenEncAlone, WriteEncAlone, WriteObaoAlone, StopAlone
  <2>3. CASE \E p \in Commands, who \in Identities, kind \in {"stream", "whole"} :
                ReadEnc(p, kind, who, <<0, 0>>)
    BY <2>3, ReadEncAlone
  <2>4. CASE \E p \in Commands, who \in Identities, range \in RangesAsked :
                ReadEnc(p, "range", who, range)
    BY <2>4, ReadEncAlone
  <2>5. CASE \E p \in Commands : DecryptWhole(p) \/ ReadObao(p) \/ DecodeNext(p) \/ Finish(p)
    BY <2>5, DecryptWholeAlone, ReadObaoAlone, DecodeNextAlone, FinishAlone
  <2>6. CASE Damage
    BY <2>6, DamageAlone
  <2>7. CASE UNCHANGED fileVars
    BY <2>7 DEF fileVars, SettledIInv, Alone, WritesAlone, Encrypting
  <2>. QED
    BY <2>1, <2>2, <2>3, <2>4, <2>5, <2>6, <2>7 DEF FileNext
<1>. QED
  BY <1>1, <1>2, EncryptionInductive, PTL DEF FileSpec

(* A file that was encrypted alone, over whatever was there before, and    *)
(* not touched since, can be decrypted by its recipient.                   *)
THEOREM SettledFilesDecrypt == FileSpec => []SettledDecrypts
<1>1. SettledIInv => SettledDecrypts
  BY DEF SettledIInv, SettledDecrypts, Alone, ReadsAlone, Original
<1>. QED
  BY <1>1, SettledInductive, PTL
=============================================================================
