-------------------------------- MODULE BaoTree --------------------------------
(***************************************************************************)
(* The bao-tree library as recrypt-core uses it: the hash tree over the    *)
(* chunk groups of a byte sequence, its outboard in post-order and the     *)
(* order in which a response carries its nodes.  A hash is the term it     *)
(* hashes: there are no collisions.                                        *)
(***************************************************************************)
EXTENDS Integers, Sequences

CONSTANT GroupSize     \* bytes of a chunk group

ASSUME GroupSizeAssumption == GroupSize \in Nat \ {0}

(* The nodes of a tree are ranges <<a, b>> of chunk groups; the left child *)
(* takes the largest power of two of them that leaves some to the right.   *)

PowerOfTwo(p) == \A d, k \in 1..p : d * k = p => d = 1 \/ d % 2 = 0
GroupCount(n) == IF n = 0 THEN 1 ELSE (n + GroupSize - 1) \div GroupSize
Group(s, g) ==
    SubSeq(s, (g - 1) * GroupSize + 1,
           IF g * GroupSize < Len(s) THEN g * GroupSize ELSE Len(s))

IsLeaf(r) == r[1] = r[2]
Mid(r) ==
    LET n == r[2] - r[1] + 1
        p == CHOOSE p \in 1..n : PowerOfTwo(p) /\ p < n /\ n <= 2 * p
    IN  r[1] + p - 1
Left(r) == <<r[1], Mid(r)>>
Right(r) == <<Mid(r) + 1, r[2]>>
Root(n) == <<1, GroupCount(n)>>
Ranges(n) == {r \in (1..GroupCount(n)) \X (1..GroupCount(n)) : r[1] <= r[2]}

LeafHash(g, data) == [leaf |-> g, data |-> data]
ParentHash(pair) == [left |-> pair[1], right |-> pair[2]]

(* The hashes of all ranges of ciphertext ct. *)
Hashes(ct) ==
    LET h[r \in Ranges(Len(ct))] ==
          IF IsLeaf(r) THEN LeafHash(r[1], Group(ct, r[1]))
          ELSE ParentHash(<<h[Left(r)], h[Right(r)]>>)
    IN  h
RootHash(ct) == Hashes(ct)[Root(Len(ct))]

(* The parents below each node, in the order the outboard stores them.     *)
PostOrders(n) ==
    LET o[r \in Ranges(n)] ==
          IF IsLeaf(r) THEN <<>> ELSE o[Left(r)] \o o[Right(r)] \o <<r>>
    IN  o
PostOrder(n) == PostOrders(n)[Root(n)]

outboard_post_order(ct) ==
    LET p == PostOrder(Len(ct))
        h == Hashes(ct)
    IN  [i \in DOMAIN p |-> <<h[Left(p[i])], h[Right(p[i])]>>]

(* The pair an outboard holds for node r of a tree over n bytes.           *)
Pair(ob, n, r) == ob[CHOOSE i \in DOMAIN PostOrder(n) : PostOrder(n)[i] = r]

(* A response carries a node before its children, and its decoder keeps    *)
(* the nodes to come with the hashes they must have: first the root of a   *)
(* tree over n bytes, then for each parent what its pair says of the two   *)
(* below it.                                                               *)
Awaited(node, hash) == [node |-> node, hash |-> hash]
Response(n, root) == <<Awaited(Root(n), root)>>
Children(r, pair) == <<Awaited(Left(r), pair[1]), Awaited(Right(r), pair[2])>>
=============================================================================
