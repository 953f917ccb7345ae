-------------------------------- MODULE Merkle --------------------------------
(****************************************************************************)
(* The Merkle trees of aion-trust-core/src/merkle.rs, in the shape of       *)
(* RFC 6962.  A hash is the term that was hashed: a leaf hash is a          *)
(* one-tuple of its preimage, a node hash the pair of its children, so      *)
(* different preimages never meet and the two domains never mix.            *)
(****************************************************************************)
EXTENDS Integers, Sequences, FiniteSetsExt

(* The Err of root_from_path; no hash. *)
Malformed == <<>>

FieldLeafHash(index, key, salt, value) ==
    <<[index |-> index, key |-> key, salt |-> salt, value |-> value]>>

RelianceLeafHash(index, salt, from_claim_id, kind_commit) ==
    <<[index |-> index, salt |-> salt, from_claim_id |-> from_claim_id,
       kind_commit |-> kind_commit]>>

NodeHash(left, right) == <<left, right>>

(* Mutant of SplitPoint: the tree is split in the middle. *)
SplitInHalf(n) == (n + 1) \div 2

Power[j \in Nat] == IF j = 0 THEN 1 ELSE 2 * Power[j - 1]

(* The largest power of two below n, for n >= 2. *)
SplitPoint(n) == Max({Power[j] : j \in 0..n} \cap 1..n - 1)

(* For every number n of leaves the root over the n that begin after the     *)
(* first `lo`.                                                               *)
Mth(leaves) ==
    LET mth[n \in Nat \ {0}] ==
            LET k == SplitPoint(n)
            IN  [lo \in Nat |-> IF n = 1 THEN leaves[lo + 1]
                               ELSE NodeHash(mth[k][lo], mth[n - k][lo + k])]
    IN  mth

MerkleRoot(leaves) == Mth(leaves)[Len(leaves)][0]

(* The siblings from leaf `index` (from 0) up to the root, innermost first;  *)
(* of a subtree: up to its root.                                             *)
Path(leaves, index) ==
    LET mth == Mth(leaves)
        path[n \in Nat \ {0}] ==
            LET k == SplitPoint(n)
            IN  [lo \in Nat |->
                    IF n = 1 THEN <<>>
                    ELSE IF index - lo < k THEN Append(path[k][lo], mth[n - k][lo + k])
                    ELSE Append(path[n - k][lo + k], mth[k][lo])]
    IN  path

AuditPath(leaves, index) == Path(leaves, index)[Len(leaves)][0]

(* The walk from a leaf up along the first `d` siblings of a path, to the    *)
(* root of the subtree of n leaves that begins after the first `lo`.         *)
Walk(leaf, index, path) ==
    LET walk[n \in Nat \ {0}] ==
            LET k == SplitPoint(n)
            IN  [lo \in Nat |-> [d \in Nat |->
                    IF n = 1 THEN (IF d = 0 THEN leaf ELSE Malformed)
                    ELSE IF d = 0 THEN Malformed
                    ELSE IF index - lo < k
                    THEN LET left == walk[k][lo][d - 1]
                         IN  IF left = Malformed THEN Malformed ELSE NodeHash(left, path[d])
                    ELSE LET right == walk[n - k][lo + k][d - 1]
                         IN  IF right = Malformed THEN Malformed ELSE NodeHash(path[d], right)]]
    IN  walk

RootFromPath(leaf, index, count, path) ==
    IF index >= count THEN Malformed ELSE Walk(leaf, index, path)[count][0][Len(path)]
===============================================================================
