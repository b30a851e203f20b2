---------------------------- MODULE CapabilityTree ----------------------------
(***************************************************************************)
(* AuthorityCapabilityTree (capability_tree.rs): the list L_e of issued    *)
(* capabilities, the sorted list V_e of revoked stamps, the proofs drawn   *)
(* from them and the checks a verifier runs on those proofs.               *)
(*                                                                         *)
(* A capability and a stamp are numbers, the order of stamps standing for  *)
(* the byte order of their hashes.  pastLeaves and pastRevoked record the  *)
(* lists the tree had before, so that proofs drawn from an older tree can  *)
(* be held against the roots of this one.                                  *)
(***************************************************************************)
EXTENDS Merkle, FiniteSets

CONSTANTS
    Capability,     \* the capabilities that may be issued
    Revocable,      \* the stamps that may be revoked
    Stamp           \* all stamps a witness may be asked for

ASSUME OrderAssumption ==
    Capability \subseteq Nat /\ Stamp \subseteq Nat /\ Revocable \subseteq Stamp

VARIABLES leaf_hashes, revoked_stamps, pastLeaves, pastRevoked

vars == <<leaf_hashes, revoked_stamps, pastLeaves, pastRevoked>>

capability_leaf_hash(cap) == <<"leaf", cap>>
StampHash(stamp) == <<"stamp", stamp>>
Hashes(list) == [i \in DOMAIN list |-> StampHash(list[i])]

Contains(list, x) == \E i \in DOMAIN list : list[i] = x

(***************************************************************************)
(* slice::partition_point on a list sorted by <: how many elements are     *)
(* smaller.  It is also the 0-based position where stamp belongs.          *)
(***************************************************************************)
partition_point(list, stamp) == Cardinality({i \in DOMAIN list : list[i] < stamp})

(* Mutant of InsertedAt: at the end, whatever the position. *)
PushedBack(list, pos, x) == Append(list, x)

InsertedAt(list, pos, x) ==
    [i \in 1 .. Len(list) + 1 |->
        CASE i <= pos     -> list[i]
          [] i = pos + 1  -> x
          [] i > pos + 1  -> list[i - 1]]

Init ==
    /\ leaf_hashes = <<>>
    /\ revoked_stamps = <<>>
    /\ pastLeaves = {<<>>}
    /\ pastRevoked = {<<>>}

add_capability(cap) ==
    /\ leaf_hashes' = IF Contains(leaf_hashes, capability_leaf_hash(cap))
                      THEN leaf_hashes
                      ELSE Append(leaf_hashes, capability_leaf_hash(cap))
    /\ pastLeaves' = pastLeaves \cup {leaf_hashes'}
    /\ UNCHANGED <<revoked_stamps, pastRevoked>>

revoke_stamp(stamp) ==
    /\ LET pos == partition_point(revoked_stamps, stamp)
       IN  revoked_stamps' =
              IF pos < Len(revoked_stamps) /\ revoked_stamps[pos + 1] = stamp
              THEN revoked_stamps
              ELSE InsertedAt(revoked_stamps, pos, stamp)
    /\ pastRevoked' = pastRevoked \cup {revoked_stamps'}
    /\ UNCHANGED <<leaf_hashes, pastLeaves>>

Next ==
    \/ \E cap \in Capability : add_capability(cap)
    \/ \E stamp \in Revocable : revoke_stamp(stamp)

Spec == Init /\ [][Next]_vars

------------------------------------------------------------------------------
(***************************************************************************)
(* Roots and proofs.  An Option is the set of what it holds.               *)
(***************************************************************************)
authority_root(leaves) == merkle_root(leaves)
revocation_root(list) == merkle_root(Hashes(list))
revocation_count(list) == Len(list)

inclusion_proof(leaves, cap) ==
    {[leaf_hash      |-> leaves[i],
      sibling_hashes |-> merkle_proof_for_index(leaves, i - 1),
      leaf_index     |-> i - 1] :
        i \in {j \in DOMAIN leaves : leaves[j] = capability_leaf_hash(cap)}}

(* Mutant of Bound: a 1-based index in the proof. *)
BoundFromOne(list, index) ==
    [stamp |-> list[index + 1],
     proof |-> [leaf_hash      |-> StampHash(list[index + 1]),
                sibling_hashes |-> merkle_proof_for_index(Hashes(list), index),
                leaf_index     |-> index + 1]]

Bound(list, index) ==
    [stamp |-> list[index + 1],
     proof |-> [leaf_hash      |-> StampHash(list[index + 1]),
                sibling_hashes |-> merkle_proof_for_index(Hashes(list), index),
                leaf_index     |-> index]]

non_revocation_witness(list, stamp) ==
    LET pos == partition_point(list, stamp)
    IN  IF pos < Len(list) /\ list[pos + 1] = stamp
        THEN {}
        ELSE {[stamp         |-> stamp,
               total_revoked |-> Len(list),
               left          |-> IF pos > 0 THEN {Bound(list, pos - 1)} ELSE {},
               right         |-> IF pos < Len(list) THEN {Bound(list, pos)} ELSE {}]}

verify_capability_inclusion(cap, proof, root) ==
    /\ proof.leaf_hash = capability_leaf_hash(cap)
    /\ verify_merkle_path(proof.leaf_hash, proof.sibling_hashes, proof.leaf_index, root)

BoundVerifies(bound, root) ==
    /\ bound.proof.leaf_hash = StampHash(bound.stamp)
    /\ verify_merkle_path(StampHash(bound.stamp), bound.proof.sibling_hashes,
                          bound.proof.leaf_index, root)

verify_non_revocation(witness, root, expected_count) ==
    /\ witness.total_revoked = expected_count
    /\ \/ /\ witness.total_revoked = 0
          /\ root = EmptyRoot
          /\ witness.left = {} /\ witness.right = {}
       \/ /\ witness.total_revoked # 0
          /\ \A l \in witness.left : BoundVerifies(l, root) /\ l.stamp < witness.stamp
          /\ \A r \in witness.right : BoundVerifies(r, root) /\ witness.stamp < r.stamp
          /\ witness.left # {} \/ witness.right # {}
          /\ witness.right = {} =>
                \A l \in witness.left : l.proof.leaf_index = expected_count - 1
          /\ witness.left = {} =>
                \A r \in witness.right : r.proof.leaf_index = 0
          /\ \A l \in witness.left, r \in witness.right :
                l.proof.leaf_index + 1 = r.proof.leaf_index

------------------------------------------------------------------------------
(***************************************************************************)
(* V_e stays strictly ascending whatever order stamps are revoked in, and  *)
(* L_e free of duplicates: the adjacency argument of a witness, and        *)
(* revocation_count, rest on it.                                           *)
(***************************************************************************)
ListsCanonical ==
    /\ \A i, j \in DOMAIN revoked_stamps : i < j => revoked_stamps[i] < revoked_stamps[j]
    /\ \A i, j \in DOMAIN leaf_hashes : leaf_hashes[i] = leaf_hashes[j] => i = j

(***************************************************************************)
(* A witness drawn from any tree the authority ever had verifies against   *)
(* the present revocation root and count exactly if nothing was revoked    *)
(* since.  In particular no witness verifies for a stamp now revoked, and  *)
(* every stamp not revoked has a fresh witness that verifies.  A stamp     *)
(* once revoked gets no witness again, whatever is inserted around it.     *)
(***************************************************************************)
WitnessExact ==
    \A old \in pastRevoked, stamp \in Stamp :
        /\ \A w \in non_revocation_witness(old, stamp) :
              verify_non_revocation(w, revocation_root(revoked_stamps),
                                    revocation_count(revoked_stamps))
                  <=> old = revoked_stamps
        /\ Contains(old, stamp) => non_revocation_witness(revoked_stamps, stamp) = {}

(***************************************************************************)
(* An inclusion proof drawn from any earlier tree verifies exactly if the  *)
(* tree still has the same leaves: one more capability invalidates every   *)
(* proof already handed out, lone nodes on any level included.             *)
(***************************************************************************)
InclusionExact ==
    \A old \in pastLeaves, cap \in Capability :
        \A p \in inclusion_proof(old, cap) :
            verify_capability_inclusion(cap, p, authority_root(leaf_hashes))
                <=> old = leaf_hashes

(***************************************************************************)
(* Roots bind: two trees the authority ever had have the same root only if *)
(* they have the same leaves in the same order (LONE_NODE_SENTINEL).       *)
(***************************************************************************)
RootsBind ==
    /\ \A old \in pastLeaves :
          authority_root(old) = authority_root(leaf_hashes) => old = leaf_hashes
    /\ \A old \in pastRevoked :
          revocation_root(old) = revocation_root(revoked_stamps) => old = revoked_stamps
===============================================================================
