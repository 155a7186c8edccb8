---------------------------- MODULE EncryptedFiles ----------------------------
(***************************************************************************)
(* `recrypt encrypt` and `recrypt decrypt` on one path, run by any number  *)
(* of processes, and HybridEncryptor under them.  An encrypted file is two *)
(* files: F.enc with the wrapped key, the bao root hash and the            *)
(* ciphertext, and F.enc.obao with the parent hashes of the bao tree,      *)
(* which a ciphertext of one chunk group does not have.  They are written  *)
(* one after the other, each truncated first, and read one after the other *)
(* so that a reader may see halves of two encryptions.                     *)
(*                                                                         *)
(* A byte of ciphertext is the plaintext byte with its key and keystream   *)
(* position.                                                               *)
(***************************************************************************)
EXTENDS BaoTree

CONSTANTS
    Commands,       \* processes, each runs one command; also the fresh keys
    Identities,     \* identities in the wallet
    Bytes,          \* values of a plaintext byte
    Plaintexts,     \* the files that are encrypted
    MaxFileSize,    \* MAX_ENCRYPT_FILE_SIZE
    RangesAsked,    \* byte ranges [lo, hi) given to decrypt_range
    MaxFaults,      \* bound on damage to the stored files
    Noise           \* bytes and hashes nobody wrote, keys nobody chose

ASSUME EncryptedFilesAssumption ==
    /\ Noise \notin Bytes \union Commands
    /\ Plaintexts \subseteq Seq(Bytes)
    /\ RangesAsked \subseteq Nat \X Nat
    /\ MaxFileSize \in Nat /\ MaxFaults \in Nat

VARIABLES
    enc,       \* F.enc: an envelope, or that it does not parse as one
    obao,      \* F.enc.obao: hash pairs in post-order; <<>> when there is none
    cmd,       \* the commands
    faults,
    settled,   \* history: the last encryption ran alone, no fault since
    quiet      \* history: commands during which nothing else happened

fileVars == <<enc, obao, cmd, faults, settled, quiet>>

Unreadable == [readable |-> FALSE]
-----------------------------------------------------------------------------
Keystream(k, s) == [i \in DOMAIN s |-> [key |-> k, at |-> i, byte |-> s[i]]]

(* The keystream of k from position `from` on, applied to ciphertext. *)
Decipher(k, from, ct) ==
    [i \in DOMAIN ct |->
        IF ct[i].key = k /\ ct[i].at = from + i - 1 THEN ct[i].byte ELSE Noise]

(* KeyMaterial: the hash of a plaintext is known by the plaintext.         *)
PlainHash(s) == [known |-> TRUE, of |-> s]
KeyMaterial(k, s) == [key |-> k, hash |-> PlainHash(s), size |-> Len(s)]

(* What a PRE backend makes of a wrapped key: the key material for its     *)
(* recipient; otherwise an error, or bytes of no meaning, of which a few   *)
(* pass for key material, with a hash that no plaintext is known to have.  *)
Unwrap(who, w) ==
    IF w.to = who THEN {w.km}
    ELSE {[key |-> Noise, hash |-> [known |-> FALSE, of |-> <<>>], size |-> n] :
            n \in {0, MaxFileSize}}

Envelope(p, who, s) ==
    LET ct == Keystream(p, s) IN
      [readable |-> TRUE, to |-> who, km |-> KeyMaterial(p, s),
       bao |-> RootHash(ct), ct |-> ct]

(* Mutant: an outboard is written from three groups on. *)
OutboardLarge(ct) ==
    IF Len(ct) <= 2 * GroupSize THEN <<>> ELSE outboard_post_order(ct)

(* The outboard of a single chunk group is cleared. *)
Outboard(ct) ==
    IF Len(ct) <= GroupSize THEN <<>> ELSE outboard_post_order(ct)

(* A pair of hashes nobody computed. *)
Damaged == <<Noise, Noise>>

Idle == [st |-> "idle"]
Encrypting == {p \in Commands : cmd[p].st \in {"open", "write", "open_obao", "write_obao"}}
InFlight == Encrypting \union {p \in Commands : cmd[p].st \in {"read_obao", "decode"}}

FileInit ==
    /\ enc = Unreadable
    /\ obao = <<>>
    /\ cmd = [p \in Commands |-> Idle]
    /\ faults = 0
    /\ settled = FALSE
    /\ quiet = {}

Becomes(p, c) == cmd' = [cmd EXCEPT ![p] = c]
Goes(p, s) == cmd' = [cmd EXCEPT ![p].st = s]
-----------------------------------------------------------------------------
(* encrypt: read and encrypt plaintext s for an identity of the wallet.    *)
StartEncrypt(p, who, s) ==
    /\ cmd[p] = Idle
    /\ IF Len(s) > MaxFileSize
       THEN /\ Becomes(p, [st |-> "too_large"])
            /\ UNCHANGED <<settled, quiet>>
       ELSE /\ Becomes(p, [st |-> "open", to |-> who, plain |-> s])
            /\ settled' = FALSE
            /\ quiet' = (quiet \ InFlight) \union (IF Encrypting = {} THEN {p} ELSE {})
    /\ UNCHANGED <<enc, obao, faults>>

(* fs::write of F.enc: the file is truncated, then filled. *)
OpenEnc(p) ==
    /\ cmd[p].st = "open"
    /\ Goes(p, "write")
    /\ enc' = Unreadable
    /\ UNCHANGED <<obao, faults, settled, quiet>>

(* Over what another process wrote since, the tail of a longer file stays. *)
(* The envelope's salts vary its length.                                   *)
WriteEnc(p) ==
    /\ cmd[p].st = "write"
    /\ LET e == Envelope(p, cmd[p].to, cmd[p].plain)
           last == Outboard(e.ct) = <<>>
       IN  /\ enc' \in {e} \union (IF enc.readable THEN {Unreadable} ELSE {})
           /\ Goes(p, IF last THEN "encrypted" ELSE "open_obao")
           /\ settled' = (last /\ p \in quiet)
    /\ UNCHANGED <<obao, faults, quiet>>

(* fs::write of the outboard, if there is one.  Otherwise the outboard of  *)
(* an earlier encryption stays where it is.                                *)
OpenObao(p) ==
    /\ cmd[p].st = "open_obao"
    /\ Goes(p, "write_obao")
    /\ obao' = <<>>
    /\ UNCHANGED <<enc, faults, settled, quiet>>

(* Of what another process wrote since, the tail stays. *)
WriteObao(p) ==
    /\ cmd[p].st = "write_obao"
    /\ LET ob == Outboard(Keystream(p, cmd[p].plain))
       IN  obao' = ob \o SubSeq(obao, Len(ob) + 1, Len(obao))
    /\ Goes(p, "encrypted")
    /\ settled' = (p \in quiet)
    /\ UNCHANGED <<enc, faults, quiet>>

(* The process is killed, or a write fails. *)
Stop(p) ==
    /\ p \in Encrypting
    /\ Goes(p, "stopped")
    /\ UNCHANGED <<enc, obao, faults, settled, quiet>>

(* A stored byte or hash pair is damaged. *)
Damage ==
    /\ faults < MaxFaults
    /\ \/ /\ enc.readable
          /\ \E i \in DOMAIN enc.ct :
               enc' = [enc EXCEPT !.ct[i] = [key |-> Noise, at |-> i, byte |-> Noise]]
          /\ UNCHANGED obao
       \/ /\ \E i \in DOMAIN obao : obao' = [obao EXCEPT ![i] = Damaged]
          /\ UNCHANGED enc
    /\ faults' = faults + 1
    /\ settled' = FALSE
    /\ quiet' = quiet \ InFlight
    /\ UNCHANGED cmd
-----------------------------------------------------------------------------
(* decrypt of all of the file goes by decrypt_streaming; the library has   *)
(* decrypt_range for a part of it and decrypt, without an outboard.        *)
Call(kind, who, lo, hi) ==
    [st |-> "read_obao", kind |-> kind, who |-> who, lo |-> lo, hi |-> hi,
     enc |-> enc, km |-> <<>>, obao |-> <<>>, pending |-> <<>>, out |-> <<>>]
Fails(c) == [c EXCEPT !.st = "failed", !.obao = <<>>, !.pending = <<>>, !.out = <<>>]
Yields(c, out) == [c EXCEPT !.st = "decrypted", !.obao = <<>>, !.pending = <<>>, !.out = out]

(* F.enc is read and parsed. *)
ReadEnc(p, kind, who, range) ==
    /\ cmd[p] = Idle
    /\ LET c == Call(kind, who, range[1], range[2]) IN
         Becomes(p, IF enc.readable THEN c ELSE Fails(c))
    /\ quiet' = IF settled THEN quiet \union {p} ELSE quiet
    /\ UNCHANGED <<enc, obao, faults, settled>>

(* HybridEncryptor::decrypt: the root hash of the ciphertext, the wrapped  *)
(* key, then size and hash of the plaintext.                               *)
DecryptWhole(p) ==
    /\ cmd[p].st = "read_obao" /\ cmd[p].kind = "whole"
    /\ LET c == cmd[p]
           e == c.enc
       IN  \/ /\ RootHash(e.ct) = e.bao
              /\ \E km \in Unwrap(c.who, e) :
                   LET s == Decipher(km.key, 1, e.ct) IN
                     Becomes(p, IF Len(s) = km.size /\ PlainHash(s) = km.hash
                                THEN Yields(c, s) ELSE Fails(c))
           \/ /\ RootHash(e.ct) # e.bao \/ e.to # c.who
              /\ Becomes(p, Fails(c))
    /\ UNCHANGED <<enc, obao, faults, settled, quiet>>

(* F.enc.obao is read, or taken for empty if there is none; the key is     *)
(* unwrapped, and the response encoded, for which the outboard has to hold *)
(* a pair for each parent.                                                 *)
ReadObao(p) ==
    /\ cmd[p].st = "read_obao" /\ cmd[p].kind # "whole"
    /\ LET c == cmd[p]
           n == Len(c.enc.ct)
       IN  \/ \E km \in Unwrap(c.who, c.enc) :
                Becomes(p, IF /\ c.kind = "range" => c.hi <= km.size
                              /\ Len(obao) >= Len(PostOrder(n))
                           THEN [c EXCEPT !.st = "decode", !.km = km, !.obao = obao,
                                          !.pending = Response(n, c.enc.bao)]
                           ELSE Fails(c))
           \/ c.enc.to # c.who /\ Becomes(p, Fails(c))
    /\ UNCHANGED <<enc, obao, faults, settled, quiet>>

(* The bytes s of a file from position `from` on that lie in [lo, hi). *)
Overlap(s, from, lo, hi) ==
    LET first == IF lo > from THEN lo ELSE from
        last == IF hi < from + Len(s) THEN hi ELSE from + Len(s)
    IN  IF first < last THEN SubSeq(s, first - from + 1, last - from) ELSE <<>>

(* Mutant: decrypt_range does not seek, it lets the keystream run on. *)
WrittenUnmoved(c, g) ==
    LET from == (g - 1) * GroupSize
        s == Decipher(c.km.key, Len(c.out) + 1, Group(c.enc.ct, g))
    IN  IF c.kind = "stream" THEN s ELSE Overlap(s, from, c.lo, c.hi)

(* What is written of chunk group g.  decrypt_streaming lets the keystream *)
(* run on and writes all of it; decrypt_range moves the keystream to the   *)
(* group and writes what lies in the range.                                *)
Written(c, g) ==
    LET from == (g - 1) * GroupSize
        data == Group(c.enc.ct, g)
    IN  IF c.kind = "stream" THEN Decipher(c.km.key, Len(c.out) + 1, data)
        ELSE Overlap(Decipher(c.km.key, from + 1, data), from, c.lo, c.hi)

(* What a response says of parent r. *)
PairOf(c, r) == Pair(c.obao, Len(c.enc.ct), r)

(* Mutant: of the leaves nothing is verified. *)
VerifiesParents(c, item) ==
    ~ IsLeaf(item.node) => item.hash = ParentHash(PairOf(c, item.node))

(* Does a node of the response hash to what its parent said of it? *)
Verifies(c, item) ==
    LET r == item.node IN
    item.hash = IF IsLeaf(r) THEN LeafHash(r[1], Group(c.enc.ct, r[1]))
                ELSE ParentHash(PairOf(c, r))

(* The next item of the response: a pair of hashes or a chunk group. *)
DecodeNext(p) ==
    /\ cmd[p].st = "decode" /\ cmd[p].pending # <<>>
    /\ LET c == cmd[p]
           item == Head(c.pending)
           r == item.node
       IN  Becomes(p, IF ~ Verifies(c, item) THEN Fails(c)
                      ELSE IF IsLeaf(r)
                      THEN [c EXCEPT !.pending = Tail(@), !.out = @ \o Written(c, r[1])]
                      ELSE [c EXCEPT !.pending = Children(r, PairOf(c, r)) \o Tail(@)])
    /\ UNCHANGED <<enc, obao, faults, settled, quiet>>

(* Mutant: the hash of the plaintext is not compared. *)
FinishUnchecked(p) ==
    /\ cmd[p].st = "decode" /\ cmd[p].pending = <<>>
    /\ Becomes(p, Yields(cmd[p], cmd[p].out))
    /\ UNCHANGED <<enc, obao, faults, settled, quiet>>

(* Only decrypt_streaming compares the hash of the plaintext. *)
Finish(p) ==
    /\ cmd[p].st = "decode" /\ cmd[p].pending = <<>>
    /\ LET c == cmd[p] IN
         Becomes(p, IF c.kind = "stream" => PlainHash(c.out) = c.km.hash
                    THEN Yields(c, c.out) ELSE Fails(c))
    /\ UNCHANGED <<enc, obao, faults, settled, quiet>>

FileNext ==
    \/ \E p \in Commands :
         \/ \E who \in Identities, s \in Plaintexts : StartEncrypt(p, who, s)
         \/ OpenEnc(p) \/ WriteEnc(p) \/ OpenObao(p) \/ WriteObao(p) \/ Stop(p)
         \/ \E who \in Identities :
              \/ \E kind \in {"stream", "whole"} : ReadEnc(p, kind, who, <<0, 0>>)
              \/ \E range \in RangesAsked : ReadEnc(p, "range", who, range)
         \/ DecryptWhole(p) \/ ReadObao(p) \/ DecodeNext(p) \/ Finish(p)
    \/ Damage

FileSpec == FileInit /\ [][FileNext]_fileVars
-----------------------------------------------------------------------------
Ours(c) == c.who = c.enc.to

(* The plaintext of the encryption whose F.enc the command has read. *)
Original(c) == cmd[c.enc.km.key].plain

(* What decrypt and decrypt_streaming return is the plaintext of the one   *)
(* encryption whose F.enc was read, and they return it to its recipient    *)
(* only: not after damage, nor when F.enc and the outboard come from two   *)
(* encryptions.                                                            *)
DecryptedAsEncrypted ==
    \A p \in Commands : LET c == cmd[p] IN
        c.st = "decrypted" /\ c.kind # "range" => Ours(c) /\ c.out = Original(c)

(* "no plaintext is written for any chunk that fails verification": while  *)
(* it runs, the recipient's decrypt_streaming has written a prefix of the  *)
(* plaintext, whatever ciphertext and outboard it was given.               *)
VerifiedPrefix ==
    \A p \in Commands : LET c == cmd[p] IN
        c.st = "decode" /\ c.kind = "stream" /\ Ours(c) =>
            /\ Len(c.out) <= Len(Original(c))
            /\ c.out = SubSeq(Original(c), 1, Len(c.out))

(* decrypt_range returns to the recipient the bytes [lo, hi) of the        *)
(* plaintext, across chunk groups and within one.                          *)
RangeExact ==
    \A p \in Commands : LET c == cmd[p] IN
        c.st = "decrypted" /\ c.kind = "range" /\ Ours(c) =>
            c.out = SubSeq(Original(c), c.lo + 1, c.hi)

(* After an encryption that ran alone to its end, over whatever earlier,   *)
(* interrupted or concurrent ones left behind (a stale or truncated        *)
(* outboard, a file of another length), and until the next encryption or   *)
(* damage, the recipient can decrypt: all of the file and what lies in it. *)
SettledDecrypts ==
    \A p \in quiet : LET c == cmd[p] IN
        c.st = "failed" =>
            /\ c.enc.readable
            /\ Ours(c) => c.kind = "range" /\ c.hi > Len(Original(c))
=============================================================================
