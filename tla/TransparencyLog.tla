--------------------------- MODULE TransparencyLog ---------------------------
(***************************************************************************)
(* The in-memory transparency log (src/src/kyriotes_csk2/transparency.rs): *)
(* an append-only list of authority states, one per authority and epoch,   *)
(* whose Merkle root T_e is handed back with every commit.                 *)
(*                                                                         *)
(* Hashes are ideal: a hash is a free constructor applied to what was      *)
(* hashed, so two hashes are equal exactly when their inputs are.  A Merkle *)
(* root is one such hash of the whole sequence of leaves and a Merkle path *)
(* names the sequence it was computed from and a position in it; module    *)
(* CapabilityTree builds the trees node by node and checks that its paths  *)
(* and roots decide the same questions.                                    *)
(***************************************************************************)
EXTENDS Integers, Sequences, FiniteSets

VARIABLES
    entries,    \* InMemoryTransparencyLog::entries
    commits     \* every TransparencyStateCommit a caller was given

logVars == <<entries, commits>>

Zero == <<>>    \* [0u8; 32]

(***************************************************************************)
(* model.rs: the leaf binds the two roots, the epoch, the authority and    *)
(* the revocation count, and neither T_e nor prev_epoch_hash.              *)
(***************************************************************************)
transparency_leaf_hash(state) ==
    [authority_root   |-> state.authority_root,
     revocation_root  |-> state.revocation_root,
     epoch            |-> state.epoch,
     authority_id     |-> state.authority_id,
     revocation_count |-> state.revocation_count]

leaf_hashes_of(log) == [i \in DOMAIN log |-> log[i].leaf_hash]

merkle_root(leaves) == IF leaves = <<>> THEN Zero ELSE <<"node", leaves>>

current_root(log) == merkle_root(leaf_hashes_of(log))

(***************************************************************************)
(* find_index returns the first match; UniqueEpochs makes it the only one. *)
(***************************************************************************)
Found(log, authority_id, epoch) ==
    {i \in DOMAIN log : /\ log[i].authority_id = authority_id
                        /\ log[i].epoch = epoch}

(* Mutant of find_index: the authority is not compared. *)
FindsEpochOnly(log, authority_id, epoch) ==
    CHOOSE i \in DOMAIN log : log[i].epoch = epoch

find_index(log, authority_id, epoch) ==
    CHOOSE i \in Found(log, authority_id, epoch) : TRUE

proof_for_index(log, i) ==
    [leaf_hash  |-> log[i].leaf_hash,
     leaf_index |-> i,
     path       |-> leaf_hashes_of(log)]

verify_transparency_proof(state, proof) ==
    /\ proof.leaf_hash = transparency_leaf_hash(state)
    /\ proof.leaf_index \in DOMAIN proof.path
    /\ proof.path[proof.leaf_index] = proof.leaf_hash
    /\ merkle_root(proof.path) = state.transparency_root

(***************************************************************************)
(* commit_state: an epoch already in the log must carry the same leaf,     *)
(* and is then left where it is; a new epoch is appended.  The state that  *)
(* comes back is bound to the root of the log as it is now.                *)
(***************************************************************************)
(* Mutant of Accepts: a rival state for the epoch is let through. *)
AcceptsRivals(log, state) == TRUE

Accepts(log, state) ==
    \A i \in Found(log, state.authority_id, state.epoch) :
        log[i].leaf_hash = transparency_leaf_hash(state)

Entry(state) ==
    [authority_id |-> state.authority_id,
     epoch        |-> state.epoch,
     leaf_hash    |-> transparency_leaf_hash(state),
     chain_hash   |-> Zero]

(* Mutant of Committed: the new entry goes first. *)
CommittedInFront(log, state) ==
    IF Found(log, state.authority_id, state.epoch) # {}
    THEN log
    ELSE <<Entry(state)>> \o log

Committed(log, state) ==
    IF Found(log, state.authority_id, state.epoch) # {}
    THEN log
    ELSE Append(log, Entry(state))

bind_transparency_root_to_state(state, root) ==
    [state EXCEPT !.transparency_root = root]

(* Mutant of CommitOf: the root is taken before the push. *)
CommitOfOldRoot(log, state) ==
    [state      |-> bind_transparency_root_to_state(state,
                        current_root(SubSeq(log, 1, Len(log) - 1))),
     proof      |-> proof_for_index(log, find_index(log, state.authority_id, state.epoch)),
     chain_hash |-> Zero]

CommitOf(log, state) ==
    [state      |-> bind_transparency_root_to_state(state, current_root(log)),
     proof      |-> proof_for_index(log, find_index(log, state.authority_id, state.epoch)),
     chain_hash |-> Zero]

commit_state(state) ==
    /\ Accepts(entries, state)
    /\ entries' = Committed(entries, state)
    /\ commits' = commits \cup {CommitOf(entries', state)}

(***************************************************************************)
(* store_chain_hash overwrites what the entry held; an epoch the log does  *)
(* not hold is ignored.                                                    *)
(***************************************************************************)
(* Mutant of ChainStored: every entry is overwritten. *)
ChainStoredEverywhere(log, authority_id, epoch, hash) ==
    [i \in DOMAIN log |-> [log[i] EXCEPT !.chain_hash = hash]]

ChainStored(log, authority_id, epoch, hash) ==
    [i \in DOMAIN log |->
        IF i \in Found(log, authority_id, epoch)
        THEN [log[i] EXCEPT !.chain_hash = hash]
        ELSE log[i]]

store_chain_hash(authority_id, epoch, hash) ==
    /\ entries' = ChainStored(entries, authority_id, epoch, hash)
    /\ UNCHANGED commits

chain_hash_for(log, authority_id, epoch) ==
    IF Found(log, authority_id, epoch) = {}
    THEN Zero
    ELSE log[find_index(log, authority_id, epoch)].chain_hash

(***************************************************************************)
(* proof_for_state proves membership in the log as it is now, whatever     *)
(* root the state itself is bound to.                                      *)
(***************************************************************************)
HasProofForState(log, state) ==
    /\ Found(log, state.authority_id, state.epoch) # {}
    /\ Accepts(log, state)

proof_for_state(log, state) ==
    proof_for_index(log, find_index(log, state.authority_id, state.epoch))

LogInit == entries = <<>> /\ commits = {}
------------------------------------------------------------------------------
(***************************************************************************)
(* What the log promises.                                                  *)
(***************************************************************************)
IsPrefixOf(s, t) == Len(s) <= Len(t) /\ \A i \in 1 .. Len(s) : s[i] = t[i]

(***************************************************************************)
(* An authority never has two entries for one epoch: commit_state looks    *)
(* the epoch up before it pushes, so find_index has one answer.            *)
(***************************************************************************)
UniqueEpochs ==
    \A i, j \in DOMAIN entries :
        /\ entries[i].authority_id = entries[j].authority_id
        /\ entries[i].epoch = entries[j].epoch
        => i = j

(***************************************************************************)
(* Every commit a caller was ever given still passes the verifier's        *)
(* verify_transparency_proof: commit_state binds the state to the root of  *)
(* the very log its proof is computed from, re-commits included.           *)
(***************************************************************************)
EveryCommitVerifies ==
    \A c \in commits : verify_transparency_proof(c.state, c.proof)

(***************************************************************************)
(* Two commits for one authority and epoch agree on the roots and on the   *)
(* revocation count, however many callers race for the epoch: a different  *)
(* state is refused, the same state is handed out again.                   *)
(***************************************************************************)
NoEquivocation ==
    \A c, d \in commits :
        /\ c.state.authority_id = d.state.authority_id
        /\ c.state.epoch = d.state.epoch
        => transparency_leaf_hash(c.state) = transparency_leaf_hash(d.state)

(***************************************************************************)
(* Any two roots handed out come from one history: the log behind one of   *)
(* them extends the log behind the other.                                  *)
(***************************************************************************)
OneHistory ==
    \A c, d \in commits :
        \/ IsPrefixOf(c.proof.path, d.proof.path)
        \/ IsPrefixOf(d.proof.path, c.proof.path)

(***************************************************************************)
(* proof_for_state answers for every committed state, and its answer       *)
(* verifies exactly for the states bound to the root the log has now: a    *)
(* state committed before the log grew needs the proof it came with.       *)
(***************************************************************************)
FreshProofs ==
    \A c \in commits :
        /\ HasProofForState(entries, c.state)
        /\ verify_transparency_proof(c.state, proof_for_state(entries, c.state))
              <=> c.state.transparency_root = current_root(entries)

(***************************************************************************)
(* No operation removes, reorders or rewrites a leaf: commit_state pushes  *)
(* and store_chain_hash touches chain hashes only.                         *)
(***************************************************************************)
AppendOnly ==
    [][IsPrefixOf(leaf_hashes_of(entries), leaf_hashes_of(entries'))]_logVars

(***************************************************************************)
(* The inductive form of the above: a commit's proof is a prefix of the    *)
(* log, holds the commit's leaf at its index and hashes to its root.       *)
(***************************************************************************)
CommitInLog(c) ==
    /\ IsPrefixOf(c.proof.path, leaf_hashes_of(entries))
    /\ c.proof.leaf_index \in DOMAIN c.proof.path
    /\ c.proof.leaf_hash = transparency_leaf_hash(c.state)
    /\ c.proof.path[c.proof.leaf_index] = c.proof.leaf_hash
    /\ c.state.transparency_root = merkle_root(c.proof.path)

LogInv ==
    /\ UniqueEpochs
    /\ \A i \in DOMAIN entries :
          /\ entries[i].authority_id = entries[i].leaf_hash.authority_id
          /\ entries[i].epoch = entries[i].leaf_hash.epoch
    /\ \A c \in commits : CommitInLog(c)
==============================================================================
