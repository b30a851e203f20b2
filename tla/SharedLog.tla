------------------------------ MODULE SharedLog ------------------------------
(***************************************************************************)
(* Several authorities, each with several callers, commit to one           *)
(* transparency log.  A caller commits any state it likes, commits a state *)
(* it was given before (seal_and_commit and its siblings commit whatever   *)
(* they are passed), or stores a chain hash.                               *)
(***************************************************************************)
EXTENDS TransparencyLog

CONSTANTS
    AuthorityId,    \* the authorities that share the log
    Root,           \* the Merkle roots a state may carry
    MaxEpoch,       \* epochs are 0 .. MaxEpoch
    ChainHash       \* the chain hashes callers may store

ASSUME MaxEpochAssumption == MaxEpoch \in Nat

Epoch == 0 .. MaxEpoch

(***************************************************************************)
(* The states callers bring: only what the leaf binds matters to the log.  *)
(***************************************************************************)
State ==
    [authority_id      : AuthorityId,
     epoch             : Epoch,
     authority_root    : Root,
     revocation_root   : {Zero},
     revocation_count  : {0},
     transparency_root : {Zero},
     prev_epoch_hash   : {Zero}]

Leaf == {transparency_leaf_hash(s) : s \in State}

CommittedState ==
    [authority_id      : AuthorityId,
     epoch             : Epoch,
     authority_root    : Root,
     revocation_root   : {Zero},
     revocation_count  : {0},
     transparency_root : {Zero} \cup ({"node"} \X Seq(Leaf)),
     prev_epoch_hash   : {Zero}]

TypeOK ==
    /\ entries \in Seq([authority_id : AuthorityId, epoch : Epoch,
                        leaf_hash : Leaf, chain_hash : ChainHash \cup {Zero}])
    /\ \A c \in commits :
          /\ c.state \in CommittedState
          /\ c.proof \in [leaf_hash : Leaf, leaf_index : Nat, path : Seq(Leaf)]
          /\ c.chain_hash = Zero

CallerState == State \cup {c.state : c \in commits}

Next ==
    \/ \E s \in CallerState : commit_state(s)
    \/ \E a \in AuthorityId, e \in Epoch, h \in ChainHash : store_chain_hash(a, e, h)

Spec == LogInit /\ [][Next]_logVars
==============================================================================
