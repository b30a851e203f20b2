----------------------- MODULE TransparencyLog_proofs -----------------------
(***************************************************************************)
(* Facts about the log's operations that hold for any entries and any      *)
(* states.  The record type of a state is written with sets of its own, so *)
(* that every module that commits states can use them.                     *)
(***************************************************************************)
EXTENDS TransparencyLog, TLAPS

AnyState(A, E, R, V, N, T, P) ==
    [authority_id : A, epoch : E, authority_root : R, revocation_root : V,
     revocation_count : N, transparency_root : T, prev_epoch_hash : P]

AnyEntry(A, E, L, H) ==
    [authority_id : A, epoch : E, leaf_hash : L, chain_hash : H]

(***************************************************************************)
(* Committing keeps every leaf the log had in its place.                   *)
(***************************************************************************)
LEMMA CommittedExtends ==
    ASSUME NEW S, NEW log \in Seq(S), NEW state, Entry(state) \in S
    PROVE  /\ Committed(log, state) \in Seq(S)
           /\ IsPrefixOf(leaf_hashes_of(log), leaf_hashes_of(Committed(log, state)))
<1>1. CASE Found(log, state.authority_id, state.epoch) # {}
  BY <1>1 DEF Committed, IsPrefixOf, leaf_hashes_of
<1>2. CASE Found(log, state.authority_id, state.epoch) = {}
  <2> DEFINE new == Append(log, Entry(state))
  <2>1. Committed(log, state) = new
    BY <1>2 DEF Committed
  <2>2. new \in Seq(S) /\ Len(new) = Len(log) + 1
        /\ \A i \in 1 .. Len(log) : new[i] = log[i]
    OBVIOUS
  <2>3. leaf_hashes_of(log) = [i \in 1 .. Len(log) |-> log[i].leaf_hash]
        /\ leaf_hashes_of(new) = [i \in 1 .. Len(new) |-> new[i].leaf_hash]
    BY <2>2 DEF leaf_hashes_of
  <2>4. Len(leaf_hashes_of(log)) = Len(log) /\ Len(leaf_hashes_of(new)) = Len(new)
    BY <2>2, <2>3
  <2> HIDE DEF new
  <2>5. IsPrefixOf(leaf_hashes_of(log), leaf_hashes_of(new))
    BY <2>2, <2>3, <2>4 DEF IsPrefixOf
  <2> QED BY <2>1, <2>2, <2>5
<1> QED BY <1>1, <1>2
LEMMA PrefixTransitive ==
    ASSUME NEW r, NEW s, NEW t,
           Len(r) \in Nat, Len(s) \in Nat, Len(t) \in Nat,
           IsPrefixOf(r, s), IsPrefixOf(s, t)
    PROVE  IsPrefixOf(r, t)
BY DEF IsPrefixOf

(***************************************************************************)
(* After an accepted commit the log holds the state's leaf, and the index  *)
(* it answers with is where the leaf is.                                   *)
(***************************************************************************)
LEMMA CommittedFound ==
    ASSUME NEW S, NEW log \in Seq(S), NEW state, Entry(state) \in S,
           Accepts(log, state)
    PROVE  LET new == Committed(log, state)
               i == find_index(new, state.authority_id, state.epoch)
           IN  /\ i \in Found(new, state.authority_id, state.epoch)
               /\ i \in 1 .. Len(new)
               /\ new[i].leaf_hash = transparency_leaf_hash(state)
<1> DEFINE new == Committed(log, state)
           found == Found(new, state.authority_id, state.epoch)
<1>1. found # {} /\ \A i \in found : new[i].leaf_hash = transparency_leaf_hash(state)
  <2>1. CASE Found(log, state.authority_id, state.epoch) # {}
    BY <2>1 DEF Committed, Accepts
  <2>2. CASE Found(log, state.authority_id, state.epoch) = {}
    <3>1. new = Append(log, Entry(state))
      BY <2>2 DEF Committed
    <3>2. /\ Len(new) = Len(log) + 1 /\ DOMAIN new = 1 .. Len(new)
          /\ DOMAIN log = 1 .. Len(log) /\ Len(log) \in Nat
          /\ \A i \in 1 .. Len(log) : new[i] = log[i]
          /\ new[Len(new)] = Entry(state)
      BY <3>1
    <3> HIDE DEF new
    <3>3. found = {Len(new)}
      BY <2>2, <3>2 DEF Found, Entry
    <3> QED BY <3>2, <3>3 DEF Entry
  <2> QED BY <2>1, <2>2
<1>2. find_index(new, state.authority_id, state.epoch) \in found
  BY <1>1 DEF find_index
<1>3. found \subseteq 1 .. Len(new)
  <2>1. new \in Seq(S)
    BY CommittedExtends
  <2> QED BY <2>1 DEF Found
<1> QED BY <1>1, <1>2, <1>3

(***************************************************************************)
(* An accepted commit keeps the log's invariant, for whatever state it is. *)
(***************************************************************************)
LEMMA CommitKeepsLogInv ==
    ASSUME NEW S, entries \in Seq(S), LogInv,
           NEW A, NEW E, NEW R, NEW V, NEW N, NEW T, NEW P,
           NEW state \in AnyState(A, E, R, V, N, T, P),
           Entry(state) \in S,
           \A c \in commits : Len(c.proof.path) \in Nat,
           commit_state(state)
    PROVE  LogInv' /\ \A c \in commits' : Len(c.proof.path) \in Nat
<1> DEFINE new == Committed(entries, state)
           idx == find_index(new, state.authority_id, state.epoch)
           com == CommitOf(new, state)
<1>1. /\ new \in Seq(S) /\ Accepts(entries, state)
      /\ IsPrefixOf(leaf_hashes_of(entries), leaf_hashes_of(new))
  BY CommittedExtends DEF commit_state
<1>2. entries' = new /\ commits' = commits \cup {com}
  BY DEF commit_state
<1>3. /\ Len(leaf_hashes_of(entries)) = Len(entries)
      /\ Len(leaf_hashes_of(new)) = Len(new)
      /\ DOMAIN leaf_hashes_of(new) = 1 .. Len(new)
      /\ \A i \in 1 .. Len(new) : leaf_hashes_of(new)[i] = new[i].leaf_hash
      /\ Len(entries) \in Nat /\ Len(new) \in Nat
  <2> HIDE DEF new
  <2> QED BY <1>1 DEF leaf_hashes_of
<1>4. UniqueEpochs'
  <2>1. CASE Found(entries, state.authority_id, state.epoch) # {}
    BY <1>2, <2>1 DEF Committed, UniqueEpochs, LogInv
  <2>2. CASE Found(entries, state.authority_id, state.epoch) = {}
    <3>1. /\ Len(new) = Len(entries) + 1 /\ DOMAIN new = 1 .. Len(new)
          /\ DOMAIN entries = 1 .. Len(entries)
          /\ \A i \in 1 .. Len(entries) : new[i] = entries[i]
          /\ new[Len(new)] = Entry(state)
      BY <2>2 DEF Committed
    <3> HIDE DEF new
    <3>2. \A i \in 1 .. Len(entries) :
             ~(entries[i].authority_id = state.authority_id /\ entries[i].epoch = state.epoch)
      BY <2>2, <3>1 DEF Found
    <3>3. Entry(state).authority_id = state.authority_id /\ Entry(state).epoch = state.epoch
      BY DEF Entry
    <3> QED BY <1>2, <1>3, <3>1, <3>2, <3>3 DEF UniqueEpochs, LogInv
  <2> QED BY <2>1, <2>2
<1>5. \A i \in DOMAIN entries' :
         /\ entries'[i].authority_id = entries'[i].leaf_hash.authority_id
         /\ entries'[i].epoch = entries'[i].leaf_hash.epoch
  <2>1. CASE Found(entries, state.authority_id, state.epoch) # {}
    BY <1>2, <2>1 DEF Committed, LogInv
  <2>2. CASE Found(entries, state.authority_id, state.epoch) = {}
    <3>1. new = Append(entries, Entry(state))
      BY <2>2 DEF Committed
    <3>2. /\ Entry(state).authority_id = Entry(state).leaf_hash.authority_id
          /\ Entry(state).epoch = Entry(state).leaf_hash.epoch
      BY DEF Entry, transparency_leaf_hash
    <3> QED BY <1>2, <3>1, <3>2 DEF LogInv
  <2> QED BY <2>1, <2>2
<1>6. ASSUME NEW c \in commits
      PROVE  CommitInLog(c)' /\ Len(c.proof.path) \in Nat
  <2>1. CommitInLog(c)
    BY DEF LogInv
  <2>2. IsPrefixOf(c.proof.path, leaf_hashes_of(new))
    <3>1. IsPrefixOf(c.proof.path, leaf_hashes_of(entries))
      BY <2>1 DEF CommitInLog
    <3> HIDE DEF new
    <3> QED BY <1>1, <1>3, <3>1, PrefixTransitive
  <2> HIDE DEF new
  <2> QED BY <1>2, <2>1, <2>2 DEF CommitInLog
<1>7. ASSUME NEW c, c = com
      PROVE  CommitInLog(c)' /\ Len(c.proof.path) \in Nat
  <2>1. idx \in 1 .. Len(new) /\ new[idx].leaf_hash = transparency_leaf_hash(state)
    BY <1>1, CommittedFound
  <2> HIDE DEF new, idx
  <2>2. /\ c.proof.path = leaf_hashes_of(new) /\ c.proof.leaf_index = idx
        /\ c.proof.leaf_hash = new[idx].leaf_hash
    BY <1>7 DEF CommitOf, proof_for_index, idx
  <2>3. /\ transparency_leaf_hash(c.state) = transparency_leaf_hash(state)
        /\ c.state.transparency_root = merkle_root(leaf_hashes_of(new))
    BY <1>7 DEF CommitOf, bind_transparency_root_to_state, transparency_leaf_hash,
                AnyState, current_root
  <2> HIDE DEF com
  <2>4. IsPrefixOf(leaf_hashes_of(new), leaf_hashes_of(new))
    BY <1>3 DEF IsPrefixOf
  <2> QED BY <1>2, <1>3, <2>1, <2>2, <2>3, <2>4 DEF CommitInLog
<1> HIDE DEF new, idx, com
<1> QED BY <1>2, <1>4, <1>5, <1>6, <1>7 DEF LogInv
(***************************************************************************)
(* Storing a chain hash leaves every leaf, and so the invariant, alone.    *)
(***************************************************************************)
LEMMA ChainStoredKeepsLeaves ==
    ASSUME NEW A, NEW E, NEW L, NEW H, NEW log \in Seq(AnyEntry(A, E, L, H)),
           NEW a, NEW e, NEW h \in H
    PROVE  LET new == ChainStored(log, a, e, h)
           IN  /\ new \in Seq(AnyEntry(A, E, L, H)) /\ DOMAIN new = DOMAIN log
               /\ leaf_hashes_of(new) = leaf_hashes_of(log)
               /\ \A i \in DOMAIN log : /\ new[i].leaf_hash = log[i].leaf_hash
                                        /\ new[i].authority_id = log[i].authority_id
                                        /\ new[i].epoch = log[i].epoch
<1> DEFINE S == AnyEntry(A, E, L, H)
           new == ChainStored(log, a, e, h)
<1>1. ASSUME NEW x \in S, NEW y, y = [x EXCEPT !.chain_hash = h]
      PROVE  /\ y \in S /\ y.leaf_hash = x.leaf_hash
             /\ y.authority_id = x.authority_id /\ y.epoch = x.epoch
  BY <1>1 DEF AnyEntry
<1>0. log \in Seq(S)
  OBVIOUS
<1> HIDE DEF S
<1>2. DOMAIN new = 1 .. Len(log) /\ DOMAIN log = 1 .. Len(log) /\ Len(log) \in Nat
  BY DEF ChainStored
<1>3. ASSUME NEW i \in 1 .. Len(log)
      PROVE  /\ new[i] \in S /\ new[i].leaf_hash = log[i].leaf_hash
             /\ new[i].authority_id = log[i].authority_id
             /\ new[i].epoch = log[i].epoch
  <2>1. log[i] \in S
    BY <1>0
  <2>2. new[i] = log[i] \/ new[i] = [log[i] EXCEPT !.chain_hash = h]
    BY <1>2 DEF ChainStored
  <2> HIDE DEF new
  <2> QED BY <1>1, <2>1, <2>2
<1>4. new = [i \in 1 .. Len(log) |-> new[i]]
  BY <1>2 DEF ChainStored
<1> HIDE DEF new
<1>5. new \in Seq(S)
  BY <1>2, <1>3, <1>4
<1>6. leaf_hashes_of(new) = leaf_hashes_of(log)
  BY <1>2, <1>3 DEF leaf_hashes_of
<1> QED BY <1>2, <1>3, <1>5, <1>6 DEF new, S

LEMMA SameLeavesKeepLogInv ==
    ASSUME LogInv, UNCHANGED commits,
           DOMAIN entries' = DOMAIN entries,
           leaf_hashes_of(entries') = leaf_hashes_of(entries),
           \A i \in DOMAIN entries : /\ entries'[i].leaf_hash = entries[i].leaf_hash
                                     /\ entries'[i].authority_id = entries[i].authority_id
                                     /\ entries'[i].epoch = entries[i].epoch
    PROVE  LogInv'
<1>1. UniqueEpochs'
  BY DEF UniqueEpochs, LogInv
<1>2. \A c \in commits' : CommitInLog(c)'
  BY DEF CommitInLog, LogInv
<1> QED BY <1>1, <1>2 DEF LogInv

(***************************************************************************)
(* The invariant gives the log's promises.                                 *)
(***************************************************************************)
LEMMA LogInvGivesPromises ==
    ASSUME NEW S, entries \in Seq(S), LogInv,
           \A c \in commits : Len(c.proof.path) \in Nat /\ DOMAIN c.proof.path = 1 .. Len(c.proof.path)
    PROVE  EveryCommitVerifies /\ NoEquivocation /\ OneHistory /\ FreshProofs
<1> DEFINE L == leaf_hashes_of(entries)
<1>1. /\ Len(L) = Len(entries) /\ DOMAIN L = 1 .. Len(entries) /\ Len(entries) \in Nat
      /\ DOMAIN entries = 1 .. Len(entries)
      /\ \A i \in 1 .. Len(entries) : L[i] = entries[i].leaf_hash
  BY DEF leaf_hashes_of
<1>2. ASSUME NEW c \in commits
      PROVE  /\ c.proof.leaf_index \in Found(entries, c.state.authority_id, c.state.epoch)
             /\ entries[c.proof.leaf_index].leaf_hash = transparency_leaf_hash(c.state)
  <2> HIDE DEF L
  <2>1. CommitInLog(c)
    BY DEF LogInv
  <2>2. /\ c.proof.leaf_index \in 1 .. Len(c.proof.path)
        /\ Len(c.proof.path) <= Len(entries)
        /\ c.proof.path[c.proof.leaf_index] = L[c.proof.leaf_index]
    BY <1>1, <2>1 DEF CommitInLog, IsPrefixOf, L
  <2>3. c.proof.leaf_index \in 1 .. Len(entries)
    BY <1>1, <2>2
  <2>4. entries[c.proof.leaf_index].leaf_hash = transparency_leaf_hash(c.state)
    BY <1>1, <2>1, <2>2, <2>3 DEF CommitInLog
  <2>5. /\ transparency_leaf_hash(c.state).authority_id = c.state.authority_id
        /\ transparency_leaf_hash(c.state).epoch = c.state.epoch
    BY DEF transparency_leaf_hash
  <2> QED BY <1>1, <2>3, <2>4, <2>5 DEF Found, LogInv
<1>3. ASSUME NEW a, NEW e, NEW i \in Found(entries, a, e), NEW j \in Found(entries, a, e)
      PROVE  i = j
  BY DEF Found, UniqueEpochs, LogInv
<1>4. EveryCommitVerifies
  BY DEF EveryCommitVerifies, verify_transparency_proof, LogInv, CommitInLog
<1>5. NoEquivocation
  BY <1>2, <1>3 DEF NoEquivocation
<1>6. OneHistory
  <2> SUFFICES ASSUME NEW c \in commits, NEW d \in commits
               PROVE  \/ IsPrefixOf(c.proof.path, d.proof.path)
                      \/ IsPrefixOf(d.proof.path, c.proof.path)
    BY DEF OneHistory
  <2>1. IsPrefixOf(c.proof.path, L) /\ IsPrefixOf(d.proof.path, L)
    BY DEF LogInv, CommitInLog
  <2> QED BY <1>1, <2>1 DEF IsPrefixOf
<1>7. FreshProofs
  <2> SUFFICES ASSUME NEW c \in commits
               PROVE  /\ HasProofForState(entries, c.state)
                      /\ verify_transparency_proof(c.state, proof_for_state(entries, c.state))
                            <=> c.state.transparency_root = current_root(entries)
    BY DEF FreshProofs
  <2> DEFINE i == find_index(entries, c.state.authority_id, c.state.epoch)
  <2>1. i = c.proof.leaf_index
    BY <1>2, <1>3 DEF find_index
  <2>2. HasProofForState(entries, c.state)
    BY <1>2, <1>3 DEF HasProofForState, Accepts
  <2>3. entries[i].leaf_hash = transparency_leaf_hash(c.state) /\ i \in 1 .. Len(entries)
    BY <1>1, <1>2, <2>1 DEF Found
  <2>4. L[i] = entries[i].leaf_hash /\ i \in DOMAIN L
    BY <1>1, <2>3
  <2> HIDE DEF i, L
  <2>5. proof_for_state(entries, c.state)
           = [leaf_hash |-> entries[i].leaf_hash, leaf_index |-> i, path |-> L]
    BY DEF proof_for_state, proof_for_index, i, L
  <2> QED BY <2>2, <2>3, <2>4, <2>5 DEF verify_transparency_proof, current_root, L
<1> QED BY <1>4, <1>5, <1>6, <1>7
=============================================================================
