---------------------------- MODULE CapabilityChain ----------------------------
(***************************************************************************)
(* verify_chain of recrypt-storage-auth: the walk from a capability to the *)
(* root of its delegation, one ancestor per turn of a loop.                *)
(*                                                                         *)
(* An envelope is the capability it holds with the digest of its wrapped   *)
(* subject, or Unverified when it does not parse, its issuer is unknown or *)
(* its signature fails.  Parents come from a ParentResolver the caller     *)
(* supplies, which may answer a digest with any envelope at all (so does a *)
(* BundledResolver filled by insert_with_digest); the wall clock moves on  *)
(* during the walk.                                                        *)
(***************************************************************************)
EXTENDS Integers, Sequences

CONSTANTS
    Fps,            \* fingerprints of issuers and holders
    Subjects,       \* subject together with subject_kind
    Permission,
    Digests,        \* digests of wrapped envelopes
    Capabilities,   \* the capabilities that exist, each with its digest
    Never,          \* expires_at: None
    NoParent,       \* parent: None
    Unverified,
    max_depth,      \* ChainPolicy::max_depth
    Moments         \* seconds the clock may show

ASSUME CapabilityAssumption ==
    /\ Digests \subseteq Nat /\ Moments \subseteq Nat
    /\ Never \notin Nat /\ NoParent \notin Nat
    /\ "delegate" \in Permission
    /\ Capabilities \subseteq
         [issuer : Fps, granted_to : Fps, subject : Subjects,
          permissions : SUBSET Permission, expires_at : Nat \union {Never},
          parent : Digests \union {NoParent}, digest : Digests]
    /\ Unverified \notin Capabilities
    /\ max_depth \in Nat

VARIABLES
    clock,     \* the wall clock, in seconds
    begun,     \* what it showed when the walk began
    current,   \* the envelope in current_bytes
    chain,     \* the capabilities accepted so far, leaf first
    st         \* "walking", "accepted" or "refused"

walkVars == <<clock, begun, current, chain, st>>

(* What a resolver may answer.  The walk goes on with the bytes it gets;   *)
(* their digest is compared with nothing.                                  *)
Resolvable == Capabilities \union {Unverified}

WalkInit ==
    /\ clock \in Moments
    /\ begun = clock
    /\ current \in Resolvable
    /\ chain = <<>>
    /\ st = "walking"

is_expired(c) == c.expires_at # Never /\ clock > c.expires_at

(* Mutant: a child without expiry passes under a parent with one.          *)
WithinOrNever(e, f) == f # Never /\ e # Never => e <= f

(* The expiry e of a child is within that of its parent, f.                *)
Within(e, f) == f # Never => e # Never /\ e <= f

(* What the walk asks of a child and the capability it names as parent.    *)
Delegates(parent, child) ==
    /\ parent.granted_to = child.issuer
    /\ "delegate" \in parent.permissions
    /\ child.permissions \subseteq parent.permissions
    /\ parent.subject = child.subject
    /\ ~ is_expired(parent)
    /\ Within(child.expires_at, parent.expires_at)

(* Mutant: only the leaf's own expiry counts.                              *)
SoundWhenLeafLives ==
    /\ current # Unverified
    /\ chain # <<>> => LET child == chain[Len(chain)] IN
         /\ current.granted_to = child.issuer
         /\ "delegate" \in current.permissions
         /\ child.permissions \subseteq current.permissions
         /\ current.subject = child.subject
         /\ ~ is_expired(chain[1])

(* The envelope in hand verifies and, but for the leaf, delegated to the   *)
(* capability before it.                                                   *)
Sound ==
    /\ current # Unverified
    /\ chain # <<>> => Delegates(current, chain[Len(chain)])

DepthLeft == Len(chain) < max_depth

Refuse ==
    /\ st = "walking"
    /\ ~ (DepthLeft /\ Sound)
    /\ st' = "refused"
    /\ UNCHANGED <<clock, begun, current, chain>>

(* parent: None ends the walk. *)
Accept ==
    /\ st = "walking"
    /\ DepthLeft /\ Sound
    /\ current.parent = NoParent
    /\ chain' = Append(chain, current)
    /\ st' = "accepted"
    /\ UNCHANGED <<clock, begun, current>>

(* Mutant: an ancestor that is walked over does not count. *)
ResolveUncounted ==
    /\ st = "walking"
    /\ DepthLeft /\ Sound
    /\ current.parent # NoParent
    /\ \/ \E c \in Resolvable : current' = c /\ UNCHANGED st
       \/ st' = "refused" /\ UNCHANGED current
    /\ UNCHANGED <<clock, begun, chain>>

Resolve ==
    /\ st = "walking"
    /\ DepthLeft /\ Sound
    /\ current.parent # NoParent
    /\ chain' = Append(chain, current)
    /\ \/ \E c \in Resolvable : current' = c /\ UNCHANGED st
       \/ st' = "refused" /\ UNCHANGED current
    /\ UNCHANGED <<clock, begun>>

TimePasses ==
    /\ \E t \in Moments : t > clock /\ clock' = t
    /\ UNCHANGED <<begun, current, chain, st>>

Turn == Refuse \/ Accept \/ Resolve

WalkNext == Turn \/ TimePasses

(* The walk is a loop in a function that waits for nothing. *)
WalkSpec == WalkInit /\ [][WalkNext]_walkVars /\ WF_walkVars(Turn)
-----------------------------------------------------------------------------
WalkTypeOK ==
    /\ clock \in Nat /\ begun \in Nat /\ begun <= clock
    /\ current \in Resolvable
    /\ chain \in Seq(Capabilities)
    /\ Len(chain) <= max_depth
    /\ st \in {"walking", "accepted", "refused"}

(* Each rule compares neighbours; of a chain it follows that every         *)
(* capability, however far from the root, is about the root's resource,    *)
(* permits no more and lasts no longer than any of its ancestors, and that *)
(* every ancestor may delegate.                                            *)
Attenuated ==
    \A i, j \in 1..Len(chain) : i < j =>
        /\ chain[i].subject = chain[j].subject
        /\ chain[i].permissions \subseteq chain[j].permissions
        /\ Within(chain[i].expires_at, chain[j].expires_at)
        /\ "delegate" \in chain[j].permissions

(* An accepted chain hands the authority on from its root: it ends in the  *)
(* one capability without parent, each holder issued the next capability,  *)
(* and no ancestor had expired when the walk began.                        *)
Rooted ==
    st = "accepted" =>
        /\ chain # <<>>
        /\ \A i \in 1..Len(chain) : chain[i].parent = NoParent <=> i = Len(chain)
        /\ \A i \in 2..Len(chain) :
             /\ chain[i].granted_to = chain[i - 1].issuer
             /\ chain[i].expires_at = Never \/ begun <= chain[i].expires_at

(* In an accepted chain every parent is the envelope its child committed   *)
(* to ("Used by chain verification to confirm a resolved parent's envelope *)
(* bytes hash to the digest the child committed to", on                    *)
(* wrapped_subject_digest).  The walk confirms nothing of the kind, and    *)
(* this does not hold.                                                     *)
ParentIsCommitted ==
    st = "accepted" =>
        \A i \in 2..Len(chain) : chain[i].digest = chain[i - 1].parent

(* The walk ends. *)
Terminates == <>(st # "walking")
=============================================================================
