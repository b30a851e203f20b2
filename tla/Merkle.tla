-------------------------------- MODULE Merkle --------------------------------
(***************************************************************************)
(* The Merkle trees behind every root of the system, node by node          *)
(* (transparency.rs; capability_tree.rs has a copy of its own of the same  *)
(* loops).  A node's hash is a free constructor applied to its children.   *)
(* Positions are 0-based, as in the code.                                  *)
(***************************************************************************)
EXTENDS Integers, Sequences

EmptyRoot == <<>>                   \* [0u8; 32]
LONE_NODE_SENTINEL == <<"0xff">>    \* [0xff; 32], the missing right child
hash_transparency_node(left, right) == <<"node", left, right>>

(* Mutant of NextLevel: pairs only, the lone node of an odd level is dropped. *)
NextLevelOfPairs(level) ==
    [k \in 1 .. Len(level) \div 2 |->
        hash_transparency_node(level[2 * k - 1], level[2 * k])]

NextLevel(level) ==
    [k \in 1 .. (Len(level) + 1) \div 2 |->
        hash_transparency_node(
            level[2 * k - 1],
            IF 2 * k <= Len(level) THEN level[2 * k] ELSE LONE_NODE_SENTINEL)]

(***************************************************************************)
(* Level d of the tree over leaves, and the level the root is on: the      *)
(* while loops stop at the first level of one node.                        *)
(***************************************************************************)
Level(leaves, depth) ==
    LET level[d \in Nat] == IF d = 0 THEN leaves ELSE NextLevel(level[d - 1])
    IN  level[depth]

Depth(leaves) ==
    CHOOSE d \in 0 .. Len(leaves) :
        /\ Len(Level(leaves, d)) <= 1
        /\ \A e \in 0 .. d - 1 : Len(Level(leaves, e)) > 1

merkle_root(leaves) ==
    IF leaves = <<>> THEN EmptyRoot ELSE Level(leaves, Depth(leaves))[1]

merkle_sibling_is_right(index) == index % 2 = 0
next_merkle_index(index) == index \div 2

IndexAt(index, depth) ==
    LET idx[d \in Nat] == IF d = 0 THEN index ELSE next_merkle_index(idx[d - 1])
    IN  idx[depth]

(* Mutant of Sibling: a lone node is paired with itself. *)
SiblingOrSelf(level, idx) ==
    IF merkle_sibling_is_right(idx)
    THEN IF idx + 1 < Len(level) THEN level[idx + 2] ELSE level[idx + 1]
    ELSE level[idx]

Sibling(level, idx) ==
    IF merkle_sibling_is_right(idx)
    THEN IF idx + 1 < Len(level) THEN level[idx + 2] ELSE LONE_NODE_SENTINEL
    ELSE level[idx]

merkle_proof_for_index(leaves, index) ==
    IF leaves = <<>> \/ index >= Len(leaves)
    THEN <<>>
    ELSE [d \in 1 .. Depth(leaves) |-> Sibling(Level(leaves, d - 1), IndexAt(index, d - 1))]

merkle_root_from_proof(leaf, sibling_hashes, leaf_index) ==
    LET acc[d \in Nat] ==
            IF d = 0
            THEN leaf
            ELSE IF merkle_sibling_is_right(IndexAt(leaf_index, d - 1))
                 THEN hash_transparency_node(acc[d - 1], sibling_hashes[d])
                 ELSE hash_transparency_node(sibling_hashes[d], acc[d - 1])
    IN  acc[Len(sibling_hashes)]

verify_merkle_path(leaf, sibling_hashes, leaf_index, root) ==
    merkle_root_from_proof(leaf, sibling_hashes, leaf_index) = root
===============================================================================
