------------------------------ MODULE Authority ------------------------------
(***************************************************************************)
(* The authority's side of the system (engine.rs: issue, revoke, rotate,   *)
(* each with and without its "and_commit" form): a capability tree in the  *)
(* authority's memory, a transparency log, and the AuthorityState values   *)
(* that callers carry from one call to the next by hand.                   *)
(*                                                                         *)
(* No call reads the authority's latest state from anywhere: the caller    *)
(* passes base_state.  current is the state the caller last obtained; a    *)
(* caller that lost track, or a second caller, still holds the states of   *)
(* earlier commits.                                                        *)
(***************************************************************************)
EXTENDS TransparencyLog

CONSTANTS
    Capability,     \* records with at least epoch_start and epoch_end
    Aid,            \* the authority's authority_id
    MaxEpoch,       \* bound on epochs
    MaxKey          \* bound on epoch signing keys generated

ASSUME BoundsAssumption == MaxEpoch \in Nat /\ MaxKey \in Nat

ASSUME CapabilityAssumption ==
    \A cap \in Capability : cap.epoch_start \in Nat /\ cap.epoch_end \in Nat

Epoch == 0 .. MaxEpoch

VARIABLES
    leaf_hashes,        \* AuthorityCapabilityTree: L_e
    revoked_stamps,     \* AuthorityCapabilityTree: V_e, a sorted list: a set
    certs,              \* EpochKeyCerts issued by the offline root
    issued,             \* CapabilityIssuanceProofs given to callers
    current             \* the AuthorityState the caller last obtained

treeVars == <<leaf_hashes, revoked_stamps>>
vars == <<entries, commits, leaf_hashes, revoked_stamps, certs, issued, current>>

------------------------------------------------------------------------------
(***************************************************************************)
(* model.rs and capability_tree.rs, as ideal hashes.                       *)
(***************************************************************************)
capability_leaf_hash(cap) == <<"leaf", cap>>

capability_stamp(cap, state) == <<"stamp", cap, state.authority_id>>

authority_root(leaves) == merkle_root(leaves)

revocation_root(stamps) == IF stamps = {} THEN Zero ELSE <<"sorted", stamps>>

(* The set of stamps a revocation root commits to. *)
RevokedUnder(root) == IF root = Zero THEN {} ELSE root[2]

(* The list of leaves an authority root commits to. *)
LeavesUnder(root) == IF root = Zero THEN <<>> ELSE root[2]

Contains(list, x) == \E i \in DOMAIN list : list[i] = x

(* Mutant of Added: the new leaf goes first. *)
AddedInFront(leaves, cap) ==
    IF Contains(leaves, capability_leaf_hash(cap))
    THEN leaves
    ELSE <<capability_leaf_hash(cap)>> \o leaves

Added(leaves, cap) ==
    IF Contains(leaves, capability_leaf_hash(cap))
    THEN leaves
    ELSE Append(leaves, capability_leaf_hash(cap))

(***************************************************************************)
(* Epoch keys are freshly generated, so a key is a number not used before. *)
(* A chain hash Log_e covers the key and a signature by it: the epoch and  *)
(* the key determine everything else that was hashed.                      *)
(***************************************************************************)
FreshKey == Cardinality(certs) + 1

issue_epoch_cert(epoch_pk, epoch) == [epoch_pk |-> epoch_pk, epoch |-> epoch]

transparency_log_entry_hash(epoch, epoch_pk) == <<"log", epoch, epoch_pk>>

ChainHash == {Zero} \cup ({"log"} \X Nat \X Nat)

InWindow(epoch, cap) == cap.epoch_start <= epoch /\ epoch <= cap.epoch_end

TreeMatches(state) ==
    /\ authority_root(leaf_hashes) = state.authority_root
    /\ revocation_root(revoked_stamps) = state.revocation_root

------------------------------------------------------------------------------
(***************************************************************************)
(* The caller starts with an empty tree and log and a first state built by *)
(* hand from the tree's roots.                                             *)
(***************************************************************************)
StateFromTree(epoch) ==
    [authority_id      |-> Aid,
     epoch             |-> epoch,
     authority_root    |-> authority_root(leaf_hashes),
     revocation_root   |-> revocation_root(revoked_stamps),
     revocation_count  |-> Cardinality(revoked_stamps),
     transparency_root |-> Zero,
     prev_epoch_hash   |-> Zero]

Init ==
    /\ LogInit
    /\ leaf_hashes = <<>>
    /\ revoked_stamps = {}
    /\ certs = {}
    /\ issued = {}
    /\ current = StateFromTree(0)

(***************************************************************************)
(* The caller builds a state from the roots of its tree (as the tests and  *)
(* the usage guide do), has a certificate issued for a key it generated,   *)
(* or commits the state it holds (as seal_and_commit and its siblings do). *)
(***************************************************************************)
build_state(epoch) ==
    /\ current' = StateFromTree(epoch)
    /\ UNCHANGED <<entries, commits, leaf_hashes, revoked_stamps, certs, issued>>

certify_key(epoch) ==
    /\ FreshKey <= MaxKey
    /\ certs' = certs \cup {issue_epoch_cert(FreshKey, epoch)}
    /\ UNCHANGED <<entries, commits, leaf_hashes, revoked_stamps, issued, current>>

commit_held(state) ==
    /\ commit_state(state)
    /\ current' = CommitOf(entries', state).state
    /\ UNCHANGED <<leaf_hashes, revoked_stamps, certs, issued>>

(***************************************************************************)
(* issue_capability: the signature covers the root after the addition.     *)
(***************************************************************************)
IssuanceProof(cap, root, cert) ==
    [cap |-> cap, authority_root |-> root, epoch_cert |-> cert]

issue_capability(cap, cert) ==
    /\ InWindow(cert.epoch, cap)
    /\ leaf_hashes' = Added(leaf_hashes, cap)
    /\ issued' = issued \cup {IssuanceProof(cap, authority_root(leaf_hashes'), cert)}
    /\ UNCHANGED <<entries, commits, revoked_stamps, certs, current>>

(***************************************************************************)
(* issue_capability_and_commit keeps base_state's epoch.  When the log     *)
(* already has another state for that epoch the call fails after the tree  *)
(* has changed, and the caller gets neither proof nor state.               *)
(***************************************************************************)
IssuedState(base_state, leaves) ==
    [base_state EXCEPT !.authority_root = authority_root(leaves),
                       !.transparency_root = Zero]

issue_capability_and_commit(cap, cert, base_state) ==
    LET leaves == Added(leaf_hashes, cap)
        state  == IssuedState(base_state, leaves)
    IN  /\ TreeMatches(base_state)
        /\ InWindow(cert.epoch, cap)
        /\ leaf_hashes' = leaves
        /\ UNCHANGED <<revoked_stamps, certs>>
        /\ \/ /\ commit_state(state)
              /\ issued' = issued \cup {IssuanceProof(cap, authority_root(leaves), cert)}
              /\ current' = CommitOf(entries', state).state
           \/ /\ ~Accepts(entries, state)
              /\ UNCHANGED <<entries, commits, issued, current>>

(***************************************************************************)
(* revoke_capability checks the tree against base_state, then changes the  *)
(* tree and derives the next state from it.                                *)
(***************************************************************************)
(* Mutant of RevokedState: the count is carried over. *)
RevokedStateOldCount(base_state, revoke_epoch, leaves, stamps) ==
    [base_state EXCEPT !.epoch = revoke_epoch,
                       !.authority_root = authority_root(leaves),
                       !.revocation_root = revocation_root(stamps),
                       !.transparency_root = Zero]

RevokedState(base_state, revoke_epoch, leaves, stamps) ==
    [base_state EXCEPT !.epoch = revoke_epoch,
                       !.authority_root = authority_root(leaves),
                       !.revocation_root = revocation_root(stamps),
                       !.revocation_count = Cardinality(stamps),
                       !.transparency_root = Zero]

(* Mutant of TreeRevokes: any epoch will do. *)
TreeRevokesAnyEpoch(cap, base_state, revoke_epoch) ==
    /\ Contains(leaf_hashes, capability_leaf_hash(cap))
    /\ TreeMatches(base_state)
    /\ revoked_stamps' = revoked_stamps \cup {capability_stamp(cap, base_state)}
    /\ UNCHANGED <<leaf_hashes, certs, issued>>

TreeRevokes(cap, base_state, revoke_epoch) ==
    /\ Contains(leaf_hashes, capability_leaf_hash(cap))
    /\ TreeMatches(base_state)
    /\ revoke_epoch > base_state.epoch
    /\ revoked_stamps' = revoked_stamps \cup {capability_stamp(cap, base_state)}
    /\ UNCHANGED <<leaf_hashes, certs, issued>>

revoke_capability(cap, base_state, revoke_epoch) ==
    /\ TreeRevokes(cap, base_state, revoke_epoch)
    /\ current' = RevokedState(base_state, revoke_epoch, leaf_hashes, revoked_stamps')
    /\ UNCHANGED logVars

revoke_capability_and_commit(cap, base_state, revoke_epoch) ==
    LET state == RevokedState(base_state, revoke_epoch, leaf_hashes, revoked_stamps')
    IN  /\ TreeRevokes(cap, base_state, revoke_epoch)
        /\ \/ /\ commit_state(state)
              /\ current' = CommitOf(entries', state).state
           \/ /\ ~Accepts(entries, state)
              /\ UNCHANGED <<entries, commits, current>>

(***************************************************************************)
(* rotate_epoch copies everything but epoch and prev_epoch_hash from       *)
(* base_state; neither the tree nor the order of epochs is consulted.      *)
(***************************************************************************)
(* Mutant of rotated_authority_state: the revocations are reset. *)
RotatedUnrevoked(base_state, new_epoch, prev_epoch_hash) ==
    [base_state EXCEPT !.epoch = new_epoch,
                       !.revocation_root = Zero,
                       !.revocation_count = 0,
                       !.transparency_root = Zero,
                       !.prev_epoch_hash = prev_epoch_hash]

rotated_authority_state(base_state, new_epoch, prev_epoch_hash) ==
    [base_state EXCEPT !.epoch = new_epoch,
                       !.transparency_root = Zero,
                       !.prev_epoch_hash = prev_epoch_hash]

rotate_epoch(base_state, new_epoch, prev_epoch_hash) ==
    /\ FreshKey <= MaxKey
    /\ certs' = certs \cup {issue_epoch_cert(FreshKey, new_epoch)}
    /\ current' = rotated_authority_state(base_state, new_epoch, prev_epoch_hash)
    /\ UNCHANGED <<entries, commits, leaf_hashes, revoked_stamps, issued>>

(***************************************************************************)
(* rotate_epoch_and_commit and rotate_epoch_full commit the rotated state, *)
(* then compute the chain hash and store it over whatever the entry had.   *)
(***************************************************************************)
rotate_epoch_and_commit(base_state, new_epoch, prev_epoch_hash) ==
    LET state == rotated_authority_state(base_state, new_epoch, prev_epoch_hash)
        log   == Committed(entries, state)
        hash  == transparency_log_entry_hash(new_epoch, FreshKey)
        com   == [CommitOf(log, state) EXCEPT !.chain_hash = hash]
    IN  /\ FreshKey <= MaxKey
        /\ Accepts(entries, state)
        /\ entries' = ChainStored(log, Aid, new_epoch, hash)
        /\ commits' = commits \cup {com}
        /\ certs' = certs \cup {issue_epoch_cert(FreshKey, new_epoch)}
        /\ current' = com.state
        /\ UNCHANGED <<leaf_hashes, revoked_stamps, issued>>

------------------------------------------------------------------------------
(***************************************************************************)
(* A careful caller goes on from the state it last obtained, never moves   *)
(* to a lower epoch, certifies keys for the epoch it is in, and links a    *)
(* rotation to the chain hash that the log has for the epoch it leaves.    *)
(***************************************************************************)
PrevHash(base_state) == chain_hash_for(entries, Aid, base_state.epoch)

Later(base_state) == {e \in Epoch : e > base_state.epoch}

Issues(base_states) ==
    \E cap \in Capability, cert \in certs :
        \/ issue_capability(cap, cert)
        \/ \E base \in base_states : issue_capability_and_commit(cap, cert, base)

Revokes(base_states) ==
    \E cap \in Capability, base \in base_states, e \in Epoch :
        \/ revoke_capability(cap, base, e)
        \/ revoke_capability_and_commit(cap, base, e)

Next ==
    \/ certify_key(current.epoch)
    \/ Issues({current})
    \/ Revokes({current})
    \/ \E e \in Later(current) :
          \/ rotate_epoch(current, e, PrevHash(current))
          \/ rotate_epoch_and_commit(current, e, PrevHash(current))
    \/ \E e \in Later(current) \cup {current.epoch} : build_state(e)
    \/ commit_held(current)

Spec == Init /\ [][Next]_vars

(***************************************************************************)
(* Callers that do not agree on the latest state: each call may be given   *)
(* any state that some caller still holds, and any epoch.                  *)
(***************************************************************************)
Held == {current} \cup {c.state : c \in commits}

NextStale ==
    \/ \E e \in Epoch : certify_key(e)
    \/ Issues(Held)
    \/ Revokes(Held)
    \/ \E base \in Held, e \in Epoch :
          \/ rotate_epoch(base, e, PrevHash(base))
          \/ rotate_epoch_and_commit(base, e, PrevHash(base))
    \/ \E e \in Epoch : build_state(e)
    \/ \E base \in Held : commit_held(base)

SpecStale == Init /\ [][NextStale]_vars

------------------------------------------------------------------------------
Leaf == {"leaf"} \X Capability
Stamp == {"stamp"} \X Capability \X {Aid}
AuthorityRoot == {Zero} \cup ({"node"} \X Seq(Leaf))
RevocationRoot == {Zero} \cup ({"sorted"} \X SUBSET Stamp)
LogLeaf ==
    [authority_root : AuthorityRoot, revocation_root : RevocationRoot,
     epoch : Epoch, authority_id : {Aid}, revocation_count : Nat]
State ==
    [authority_root : AuthorityRoot, revocation_root : RevocationRoot,
     epoch : Epoch, authority_id : {Aid}, revocation_count : Nat,
     transparency_root : {Zero} \cup ({"node"} \X Seq(LogLeaf)),
     prev_epoch_hash : ChainHash]
Cert == [epoch_pk : Nat, epoch : Epoch]

(* Types: the tree, the log, the certificates and the states callers hold. *)
TypeOK ==
    /\ entries \in Seq([authority_id : {Aid}, epoch : Epoch,
                        leaf_hash : LogLeaf, chain_hash : ChainHash])
    /\ \A c \in commits : c.state \in State /\ c.chain_hash \in ChainHash
    /\ leaf_hashes \in Seq(Leaf)
    /\ revoked_stamps \in SUBSET Stamp
    /\ certs \in SUBSET Cert
    /\ \A p \in issued : /\ p.cap \in Capability
                         /\ p.authority_root \in AuthorityRoot
                         /\ p.epoch_cert \in certs
    /\ current \in State

(***************************************************************************)
(* A revocation published at some epoch is part of every state published   *)
(* for that or a later epoch, in whatever order the epochs were committed: *)
(* the guarantee capability_stamp's comment states, which no single call   *)
(* enforces.                                                               *)
(***************************************************************************)
RevocationPersists ==
    \A i, j \in DOMAIN entries :
        entries[i].epoch <= entries[j].epoch
        => RevokedUnder(entries[i].leaf_hash.revocation_root)
               \subseteq RevokedUnder(entries[j].leaf_hash.revocation_root)

(***************************************************************************)
(* Why: the log's epochs go up, and each entry's capabilities and          *)
(* revocations are contained in the next one's, in the caller's current    *)
(* state and in the tree.                                                  *)
(***************************************************************************)
Below(s, t) ==
    /\ s.epoch <= t.epoch
    /\ RevokedUnder(s.revocation_root) \subseteq RevokedUnder(t.revocation_root)
    /\ IsPrefixOf(LeavesUnder(s.authority_root), LeavesUnder(t.authority_root))

Ordered(log) ==
    \A i, j \in DOMAIN log :
        i < j => /\ log[i].epoch < log[j].epoch
                 /\ Below(log[i].leaf_hash, log[j].leaf_hash)

AllBelow(log, s) ==
    \A i \in DOMAIN log : /\ log[i].epoch = log[i].leaf_hash.epoch
                          /\ Below(log[i].leaf_hash, s)

CarefulInv == Ordered(entries) /\ AllBelow(entries, current)

(***************************************************************************)
(* A state that a caller holds or the log published describes one moment   *)
(* of the tree: its capabilities are a prefix of the tree's, its revoked   *)
(* stamps are still revoked there and belong to capabilities it lists, and *)
(* its count is the number of them (verify_non_revocation relies on it).   *)
(***************************************************************************)
FromTree(s, tree, revoked) ==
    LET leaves == LeavesUnder(s.authority_root)
        stamps == RevokedUnder(s.revocation_root)
    IN  /\ IsPrefixOf(leaves, tree)
        /\ stamps \subseteq revoked
        /\ \A stamp \in stamps : Contains(leaves, <<"leaf", stamp[2]>>)
        /\ s.revocation_count = Cardinality(stamps)

StatesFromTree ==
    /\ FromTree(current, leaf_hashes, revoked_stamps)
    /\ \A c \in commits : FromTree(c.state, leaf_hashes, revoked_stamps)
    /\ \A i \in DOMAIN entries :
          FromTree(entries[i].leaf_hash, leaf_hashes, revoked_stamps)

(***************************************************************************)
(* The hash chain can be walked back: a committed state's prev_epoch_hash, *)
(* unless zero, is the chain hash the log holds for an earlier epoch; and  *)
(* chain_hash_for goes on returning the hash a rotation's commit carries.  *)
(***************************************************************************)
ChainIntact ==
    \A c \in commits :
        /\ \/ c.state.prev_epoch_hash = Zero
           \/ \E i \in DOMAIN entries :
                 /\ entries[i].epoch < c.state.epoch
                 /\ entries[i].chain_hash = c.state.prev_epoch_hash
        /\ c.chain_hash = Zero \/ chain_hash_for(entries, Aid, c.state.epoch) = c.chain_hash

(***************************************************************************)
(* What recipients see of the authority is a ledger whose epochs, listed   *)
(* capabilities and revocations only grow.                                 *)
(***************************************************************************)
Published(leaf) ==
    LET leaves == LeavesUnder(leaf.authority_root)
    IN  [epoch   |-> leaf.epoch,
         active  |-> [i \in DOMAIN leaves |-> leaves[i][2]],
         revoked |-> {stamp[2] : stamp \in RevokedUnder(leaf.revocation_root)}]

PublishedLog(log) == [i \in DOMAIN log |-> Published(log[i].leaf_hash)]

Ledger == INSTANCE EpochLedger WITH ledger <- PublishedLog(entries)

RefinesLedger == Ledger!Spec
==============================================================================
