--------------------------- MODULE SharedLog_proofs ---------------------------
(***************************************************************************)
(* The log keeps its promises for any number of authorities, epochs, roots *)
(* and chain hashes.                                                       *)
(***************************************************************************)
EXTENDS SharedLog, TransparencyLog_proofs

Inv == TypeOK /\ LogInv

LEMMA CallerStateType ==
    ASSUME TypeOK, NEW s \in CallerState
    PROVE  /\ s \in CommittedState
           /\ transparency_leaf_hash(s) \in Leaf
           /\ Entry(s) \in AnyEntry(AuthorityId, Epoch, Leaf, ChainHash \cup {Zero})
<1>1. s \in CommittedState
  BY DEF CallerState, State, CommittedState, TypeOK
<1>2. transparency_leaf_hash(s) \in Leaf
  <2> DEFINE t == [authority_id |-> s.authority_id, epoch |-> s.epoch,
                   authority_root |-> s.authority_root, revocation_root |-> Zero,
                   revocation_count |-> 0, transparency_root |-> Zero,
                   prev_epoch_hash |-> Zero]
  <2>1. t \in State
    BY <1>1 DEF State, CommittedState
  <2>2. transparency_leaf_hash(s) = transparency_leaf_hash(t)
    BY <1>1 DEF CommittedState, transparency_leaf_hash
  <2> QED BY <2>1, <2>2 DEF Leaf
<1>3. Entry(s) \in AnyEntry(AuthorityId, Epoch, Leaf, ChainHash \cup {Zero})
  BY <1>1, <1>2 DEF Entry, AnyEntry, CommittedState
<1> QED BY <1>1, <1>2, <1>3

LEMMA InitInv == LogInit => Inv
<1> SUFFICES ASSUME LogInit PROVE Inv
  OBVIOUS
<1>1. TypeOK
  BY DEF LogInit, TypeOK
<1>2. LogInv
  BY DEF LogInit, LogInv, UniqueEpochs
<1> QED BY <1>1, <1>2 DEF Inv

LEMMA NextInv ==
    ASSUME Inv, [Next]_logVars
    PROVE  Inv' /\ IsPrefixOf(leaf_hashes_of(entries), leaf_hashes_of(entries'))
<1> DEFINE S == AnyEntry(AuthorityId, Epoch, Leaf, ChainHash \cup {Zero})
<1>0. /\ entries \in Seq(S) /\ LogInv /\ TypeOK
      /\ \A c \in commits : Len(c.proof.path) \in Nat
  BY DEF Inv, TypeOK, AnyEntry
<1> HIDE DEF S
<1>1. ASSUME NEW s \in CallerState, commit_state(s)
      PROVE  Inv' /\ IsPrefixOf(leaf_hashes_of(entries), leaf_hashes_of(entries'))
  <2> DEFINE new == Committed(entries, s)
             i == find_index(new, s.authority_id, s.epoch)
  <2>1. s \in CommittedState /\ transparency_leaf_hash(s) \in Leaf /\ Entry(s) \in S
    BY <1>0, CallerStateType, Zenon DEF S
  <2>2. LogInv'
    BY <1>0, <1>1, <2>1, CommitKeepsLogInv, Zenon DEF CommittedState, AnyState
  <2>3. /\ new \in Seq(S) /\ Accepts(entries, s)
        /\ IsPrefixOf(leaf_hashes_of(entries), leaf_hashes_of(new))
    BY <1>0, <1>1, <2>1, CommittedExtends DEF commit_state
  <2>4. i \in 1 .. Len(new) /\ new[i].leaf_hash = transparency_leaf_hash(s)
    BY <1>0, <2>1, <2>3, CommittedFound
  <2>5. entries' = new /\ commits' = commits \cup {CommitOf(new, s)}
    BY <1>1 DEF commit_state
  <2> HIDE DEF new, i
  <2>6. leaf_hashes_of(new) \in Seq(Leaf)
    <3>1. /\ Len(new) \in Nat /\ DOMAIN new = 1 .. Len(new)
          /\ \A k \in 1 .. Len(new) : new[k] \in S
      BY <2>3
    <3>2. \A k \in 1 .. Len(new) : new[k].leaf_hash \in Leaf
      BY <3>1 DEF S, AnyEntry
    <3> QED BY <3>1, <3>2 DEF leaf_hashes_of
  <2>7. ASSUME NEW c, c = CommitOf(new, s)
        PROVE  /\ c.state \in CommittedState
               /\ c.proof \in [leaf_hash : Leaf, leaf_index : Nat, path : Seq(Leaf)]
               /\ c.chain_hash = Zero
    <3>1. merkle_root(leaf_hashes_of(new)) \in {Zero} \cup ({"node"} \X Seq(Leaf))
      BY <2>6 DEF merkle_root
    <3>2. c.state \in CommittedState
      BY <2>1, <2>7, <3>1 DEF CommitOf, bind_transparency_root_to_state, current_root,
                              CommittedState
    <3>3. c.proof = [leaf_hash |-> new[i].leaf_hash, leaf_index |-> i,
                     path |-> leaf_hashes_of(new)]
      BY <2>7 DEF CommitOf, proof_for_index, i
    <3>4. i \in Nat /\ new[i].leaf_hash \in Leaf
      BY <2>1, <2>3, <2>4
    <3>5. c.chain_hash = Zero
      BY <2>7 DEF CommitOf
    <3> QED BY <2>6, <3>2, <3>3, <3>4, <3>5
  <2>8. TypeOK'
    BY <1>0, <2>3, <2>5, <2>7 DEF TypeOK, S, AnyEntry
  <2> QED BY <2>2, <2>3, <2>5, <2>8 DEF Inv
<1>2. ASSUME NEW a \in AuthorityId, NEW e \in Epoch, NEW h \in ChainHash,
             store_chain_hash(a, e, h)
      PROVE  Inv' /\ IsPrefixOf(leaf_hashes_of(entries), leaf_hashes_of(entries'))
  <2>1. entries' = ChainStored(entries, a, e, h) /\ UNCHANGED commits
    BY <1>2 DEF store_chain_hash
  <2>2. /\ entries' \in Seq(S) /\ DOMAIN entries' = DOMAIN entries
        /\ leaf_hashes_of(entries') = leaf_hashes_of(entries)
        /\ \A i \in DOMAIN entries : /\ entries'[i].leaf_hash = entries[i].leaf_hash
                                     /\ entries'[i].authority_id = entries[i].authority_id
                                     /\ entries'[i].epoch = entries[i].epoch
    BY <1>0, <2>1, ChainStoredKeepsLeaves DEF S
  <2>3. LogInv'
    BY <1>0, <2>1, <2>2, SameLeavesKeepLogInv
  <2>4. TypeOK'
    BY <1>0, <2>1, <2>2 DEF TypeOK, S, AnyEntry
  <2>5. Len(leaf_hashes_of(entries)) \in Nat
    BY <1>0 DEF leaf_hashes_of
  <2>6. IsPrefixOf(leaf_hashes_of(entries), leaf_hashes_of(entries'))
    BY <2>2, <2>5 DEF IsPrefixOf
  <2> QED BY <2>3, <2>4, <2>6 DEF Inv
<1>3. CASE UNCHANGED logVars
  <2>1. TypeOK'
    BY <1>0, <1>3 DEF TypeOK, logVars
  <2>2. LogInv'
    BY <1>0, <1>3 DEF LogInv, UniqueEpochs, CommitInLog, logVars
  <2>3. Len(leaf_hashes_of(entries)) \in Nat /\ entries' = entries
    BY <1>0, <1>3 DEF leaf_hashes_of, logVars
  <2> QED BY <2>1, <2>2, <2>3 DEF IsPrefixOf, Inv
<1> QED BY <1>1, <1>2, <1>3 DEF Next

(***************************************************************************)
(* The state of the log keeps its type and its inductive invariant under   *)
(* any sequence of commit_state and store_chain_hash calls.                *)
(***************************************************************************)
THEOREM SharedLogInvariant == Spec => []Inv
<1>1. LogInit => Inv
  BY InitInv
<1>2. Inv /\ [Next]_logVars => Inv'
  BY NextInv
<1> QED BY <1>1, <1>2, PTL DEF Spec

LEMMA InvGivesPromises ==
    Inv => EveryCommitVerifies /\ NoEquivocation /\ OneHistory /\ FreshProofs
<1> SUFFICES ASSUME Inv PROVE EveryCommitVerifies /\ NoEquivocation /\ OneHistory /\ FreshProofs
  OBVIOUS
<1> DEFINE S == AnyEntry(AuthorityId, Epoch, Leaf, ChainHash \cup {Zero})
<1>1. entries \in Seq(S) /\ LogInv
  BY DEF Inv, TypeOK, AnyEntry
<1>2. \A c \in commits : /\ Len(c.proof.path) \in Nat
                         /\ DOMAIN c.proof.path = 1 .. Len(c.proof.path)
  BY DEF Inv, TypeOK
<1> QED BY <1>1, <1>2, LogInvGivesPromises

(***************************************************************************)
(* Every commit handed out verifies for ever, whatever the log has grown   *)
(* to since (commit_state, verify_transparency_proof).                     *)
(***************************************************************************)
THEOREM CommitsVerify == Spec => []EveryCommitVerifies
BY SharedLogInvariant, InvGivesPromises, PTL

(***************************************************************************)
(* No epoch of an authority is ever committed with two different leaves.   *)
(***************************************************************************)
THEOREM CommitsAgree == Spec => []NoEquivocation
BY SharedLogInvariant, InvGivesPromises, PTL

(***************************************************************************)
(* All roots handed out belong to one growing history.                     *)
(***************************************************************************)
THEOREM RootsNest == Spec => []OneHistory
BY SharedLogInvariant, InvGivesPromises, PTL

(***************************************************************************)
(* proof_for_state verifies exactly for states bound to the current root.  *)
(***************************************************************************)
THEOREM ProofsFresh == Spec => []FreshProofs
BY SharedLogInvariant, InvGivesPromises, PTL

(***************************************************************************)
(* The log only ever grows at its end.                                     *)
(***************************************************************************)
THEOREM LogAppendOnly == Spec => AppendOnly
<1>1. Inv /\ [Next]_logVars => [IsPrefixOf(leaf_hashes_of(entries), leaf_hashes_of(entries'))]_logVars
  BY NextInv
<1> QED BY <1>1, SharedLogInvariant, PTL DEF Spec, AppendOnly
=============================================================================
