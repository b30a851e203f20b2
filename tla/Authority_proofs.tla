--------------------------- MODULE Authority_proofs ---------------------------
(***************************************************************************)
(* For every set of capabilities and every bound on epochs and keys: the   *)
(* states in circulation describe the tree whatever base states callers    *)
(* pass, and a careful caller's log is a ledger that loses no revocation   *)
(* and whose hash chain stays whole.  A log behind a network loses no      *)
(* revocation either, whatever becomes of the requests.                    *)
(***************************************************************************)
EXTENDS AsyncAuthority, TransparencyLog_proofs, FiniteSetTheorems

EntryType == AnyEntry({Aid}, Epoch, LogLeaf, ChainHash)

TreeListed(leaves, stamps) ==
    \A stamp \in stamps : Contains(leaves, <<"leaf", stamp[2]>>)

(***************************************************************************)
(* Inductive for every caller: the types, finiteness of what is counted,   *)
(* revoked capabilities are listed, and states come from the tree.         *)
(***************************************************************************)
BaseInv ==
    /\ TypeOK
    /\ IsFiniteSet(revoked_stamps)
    /\ IsFiniteSet(certs)
    /\ TreeListed(leaf_hashes, revoked_stamps)
    /\ StatesFromTree

(* Facts about numbers, for steps that are otherwise about records and sets. *)
LEMMA EpochInt == Epoch \subseteq Int
BY BoundsAssumption DEF Epoch

LEMMA LeqTransitive ==
    ASSUME NEW a \in Int, NEW b \in Int, NEW c \in Int, a <= b, b <= c
    PROVE  a <= c
OBVIOUS

LEMMA LessThan ==
    ASSUME NEW a \in Int, NEW b \in Int
    PROVE  (a <= b /\ a # b) <=> a < b
OBVIOUS

LEMMA GreaterThan ==
    ASSUME NEW a \in Int, NEW b \in Int, b > a
    PROVE  a <= b
OBVIOUS

LEMMA ChainStoredEntries ==
    ASSUME NEW log \in Seq(EntryType), NEW a, NEW e, NEW h \in ChainHash
    PROVE  /\ ChainStored(log, a, e, h) \in Seq(EntryType)
           /\ DOMAIN ChainStored(log, a, e, h) = DOMAIN log
           /\ \A i \in DOMAIN log : ChainStored(log, a, e, h)[i].leaf_hash = log[i].leaf_hash
BY ChainStoredKeepsLeaves DEF EntryType

LEMMA LeavesOfRoot ==
    ASSUME NEW leaves \in Seq(Leaf)
    PROVE  /\ authority_root(leaves) \in AuthorityRoot
           /\ LeavesUnder(authority_root(leaves)) = leaves
BY DEF authority_root, merkle_root, LeavesUnder, AuthorityRoot, Zero

LEMMA StampsOfRoot ==
    ASSUME NEW stamps \in SUBSET Stamp
    PROVE  /\ revocation_root(stamps) \in RevocationRoot
           /\ RevokedUnder(revocation_root(stamps)) = stamps
BY DEF revocation_root, RevokedUnder, RevocationRoot, Zero

LEMMA OpenedRoots ==
    ASSUME NEW s, s.authority_root \in AuthorityRoot, s.revocation_root \in RevocationRoot
    PROVE  /\ LeavesUnder(s.authority_root) \in Seq(Leaf)
           /\ RevokedUnder(s.revocation_root) \in SUBSET Stamp
BY DEF LeavesUnder, RevokedUnder, AuthorityRoot, RevocationRoot, Zero

(***************************************************************************)
(* A state with the tree's own roots and count comes from the tree, and    *)
(* still does after the tree has grown.                                    *)
(***************************************************************************)
LEMMA TreeStateFromTree ==
    ASSUME NEW leaves \in Seq(Leaf), NEW stamps \in SUBSET Stamp,
           TreeListed(leaves, stamps),
           NEW s, s.authority_root = authority_root(leaves),
           s.revocation_root = revocation_root(stamps),
           s.revocation_count = Cardinality(stamps)
    PROVE  FromTree(s, leaves, stamps)
<1>1. /\ LeavesUnder(s.authority_root) = leaves
      /\ RevokedUnder(s.revocation_root) = stamps
  BY LeavesOfRoot, StampsOfRoot
<1> QED BY <1>1 DEF FromTree, TreeListed, IsPrefixOf

LEMMA FromGrownTree ==
    ASSUME NEW leaves \in Seq(Leaf), NEW more \in Seq(Leaf), IsPrefixOf(leaves, more),
           NEW stamps, NEW moreStamps, stamps \subseteq moreStamps,
           NEW s, s.authority_root \in AuthorityRoot, s.revocation_root \in RevocationRoot,
           FromTree(s, leaves, stamps)
    PROVE  FromTree(s, more, moreStamps)
<1>1. LeavesUnder(s.authority_root) \in Seq(Leaf)
  BY OpenedRoots
<1>2. IsPrefixOf(LeavesUnder(s.authority_root), more)
  BY <1>1, PrefixTransitive DEF FromTree
<1> QED BY <1>2 DEF FromTree

LEMMA AddedGrows ==
    ASSUME NEW leaves \in Seq(Leaf), NEW cap \in Capability
    PROVE  /\ Added(leaves, cap) \in Seq(Leaf)
           /\ IsPrefixOf(leaves, Added(leaves, cap))
<1>1. capability_leaf_hash(cap) \in Leaf
  BY DEF capability_leaf_hash, Leaf
<1> QED BY <1>1 DEF Added, IsPrefixOf

LEMMA ListedGrows ==
    ASSUME NEW leaves \in Seq(Leaf), NEW more \in Seq(Leaf), IsPrefixOf(leaves, more),
           NEW stamps, TreeListed(leaves, stamps)
    PROVE  TreeListed(more, stamps)
BY DEF TreeListed, Contains, IsPrefixOf

(***************************************************************************)
(* What a commit does to the types: the log's entries, and the state that  *)
(* comes back, which differs from the committed one in T_e only.           *)
(***************************************************************************)
LEMMA CommitTypes ==
    ASSUME NEW log \in Seq(EntryType), NEW s \in State
    PROVE  /\ Committed(log, s) \in Seq(EntryType)
           /\ Entry(s) \in EntryType
           /\ CommitOf(Committed(log, s), s).state \in State
           /\ CommitOf(Committed(log, s), s).chain_hash = Zero
           /\ \E t : CommitOf(Committed(log, s), s).state
                        = [s EXCEPT !.transparency_root = t]
<1> DEFINE new == Committed(log, s)
<1>1. Entry(s) \in EntryType
  BY DEF Entry, EntryType, AnyEntry, State, transparency_leaf_hash, LogLeaf, ChainHash
<1>2. new \in Seq(EntryType)
  BY <1>1, CommittedExtends
<1> HIDE DEF new
<1>3. leaf_hashes_of(new) \in Seq(LogLeaf)
  <2>1. /\ Len(new) \in Nat /\ DOMAIN new = 1 .. Len(new)
        /\ \A k \in 1 .. Len(new) : new[k] \in EntryType
    BY <1>2
  <2>2. \A k \in 1 .. Len(new) : new[k].leaf_hash \in LogLeaf
    BY <2>1 DEF EntryType, AnyEntry
  <2> QED BY <2>1, <2>2 DEF leaf_hashes_of
<1>4. current_root(new) \in {Zero} \cup ({"node"} \X Seq(LogLeaf))
  BY <1>3 DEF current_root, merkle_root
<1>5. CommitOf(new, s).state = [s EXCEPT !.transparency_root = current_root(new)]
  BY DEF CommitOf, bind_transparency_root_to_state
<1>6. CommitOf(new, s).state \in State
  BY <1>4, <1>5 DEF State
<1>7. CommitOf(new, s).chain_hash = Zero
  BY DEF CommitOf
<1> QED BY <1>1, <1>2, <1>5, <1>6, <1>7, Zenon DEF new

LEMMA CommittedLeaves ==
    ASSUME NEW log \in Seq(EntryType), NEW s \in State
    PROVE  \A i \in DOMAIN Committed(log, s) :
               \/ i \in DOMAIN log /\ Committed(log, s)[i] = log[i]
               \/ Committed(log, s)[i].leaf_hash = transparency_leaf_hash(s)
<1>1. CASE Found(log, s.authority_id, s.epoch) # {}
  BY <1>1 DEF Committed
<1>2. CASE Found(log, s.authority_id, s.epoch) = {}
  <2>1. Committed(log, s) = Append(log, Entry(s))
    BY <1>2 DEF Committed
  <2>2. Entry(s).leaf_hash = transparency_leaf_hash(s) /\ Entry(s) \in EntryType
    BY CommitTypes DEF Entry
  <2> QED BY <2>1, <2>2
<1> QED BY <1>1, <1>2

LEMMA LeafFromTree ==
    ASSUME NEW s, NEW leaves, NEW stamps
    PROVE  /\ FromTree(transparency_leaf_hash(s), leaves, stamps)
                 <=> FromTree(s, leaves, stamps)
           /\ s \in State => \A t : FromTree([s EXCEPT !.transparency_root = t], leaves, stamps)
                                   <=> FromTree(s, leaves, stamps)
<1>1. /\ transparency_leaf_hash(s).authority_root = s.authority_root
      /\ transparency_leaf_hash(s).revocation_root = s.revocation_root
      /\ transparency_leaf_hash(s).revocation_count = s.revocation_count
  BY DEF transparency_leaf_hash
<1>2. ASSUME s \in State, NEW t, NEW u, u = [s EXCEPT !.transparency_root = t]
      PROVE  /\ u.authority_root = s.authority_root
             /\ u.revocation_root = s.revocation_root
             /\ u.revocation_count = s.revocation_count
  BY <1>2 DEF State
<1> QED BY <1>1, <1>2 DEF FromTree

(***************************************************************************)
(* What a step has to establish: the tree grew to leaves and stamps, and   *)
(* whatever state is new in circulation comes from that tree.              *)
(***************************************************************************)
LEMMA GrowthKeepsBase ==
    ASSUME BaseInv,
           NEW leaves \in Seq(Leaf), leaf_hashes' = leaves, IsPrefixOf(leaf_hashes, leaves),
           NEW stamps \in SUBSET Stamp, revoked_stamps' = stamps,
           revoked_stamps \subseteq stamps, IsFiniteSet(stamps), TreeListed(leaves, stamps),
           certs' \in SUBSET Cert, certs \subseteq certs', IsFiniteSet(certs'),
           \A p \in issued' :
              \/ p \in issued
              \/ p.cap \in Capability /\ p.authority_root \in AuthorityRoot /\ p.epoch_cert \in certs',
           current' = current \/ (current' \in State /\ FromTree(current', leaves, stamps)),
           \A c \in commits' :
              \/ c \in commits
              \/ c.state \in State /\ c.chain_hash \in ChainHash /\ FromTree(c.state, leaves, stamps),
           entries' \in Seq(EntryType),
           \A i \in DOMAIN entries' :
              \/ i \in DOMAIN entries /\ entries'[i].leaf_hash = entries[i].leaf_hash
              \/ FromTree(entries'[i].leaf_hash, leaves, stamps)
    PROVE  BaseInv'
<1> USE DEF BaseInv
<1>1. ASSUME NEW s, s.authority_root \in AuthorityRoot, s.revocation_root \in RevocationRoot,
             FromTree(s, leaf_hashes, revoked_stamps)
      PROVE  FromTree(s, leaves, stamps)
  <2>1. leaf_hashes \in Seq(Leaf)
    BY DEF TypeOK
  <2> QED BY <1>1, <2>1, FromGrownTree
<1>2. TypeOK'
  <2>1. /\ entries' \in Seq([authority_id : {Aid}, epoch : Epoch,
                             leaf_hash : LogLeaf, chain_hash : ChainHash])
    BY DEF EntryType, AnyEntry
  <2>2. \A c \in commits' : c.state \in State /\ c.chain_hash \in ChainHash
    BY DEF TypeOK
  <2>3. \A p \in issued' : /\ p.cap \in Capability
                           /\ p.authority_root \in AuthorityRoot
                           /\ p.epoch_cert \in certs'
    BY DEF TypeOK
  <2>4. current' \in State
    BY DEF TypeOK
  <2> QED BY <2>1, <2>2, <2>3, <2>4 DEF TypeOK
<1>3. FromTree(current', leaves, stamps)
  <2>1. current \in State /\ FromTree(current, leaf_hashes, revoked_stamps)
    BY DEF TypeOK, StatesFromTree
  <2>2. current.authority_root \in AuthorityRoot /\ current.revocation_root \in RevocationRoot
    BY <2>1 DEF State
  <2> QED BY <1>1, <2>1, <2>2
<1>4. \A c \in commits' : FromTree(c.state, leaves, stamps)
  <2> SUFFICES ASSUME NEW c \in commits PROVE FromTree(c.state, leaves, stamps)
    OBVIOUS
  <2>1. c.state \in State /\ FromTree(c.state, leaf_hashes, revoked_stamps)
    BY DEF TypeOK, StatesFromTree
  <2>2. c.state.authority_root \in AuthorityRoot /\ c.state.revocation_root \in RevocationRoot
    BY <2>1 DEF State
  <2> QED BY <1>1, <2>1, <2>2
<1>5. \A i \in DOMAIN entries' : FromTree(entries'[i].leaf_hash, leaves, stamps)
  <2> SUFFICES ASSUME NEW i \in DOMAIN entries
               PROVE  FromTree(entries[i].leaf_hash, leaves, stamps)
    OBVIOUS
  <2>1. entries[i].leaf_hash \in LogLeaf
    <3>1. entries \in Seq(EntryType)
      BY DEF TypeOK, EntryType, AnyEntry
    <3>2. entries[i] \in EntryType
      BY <3>1
    <3> QED BY <3>2 DEF EntryType, AnyEntry
  <2>2. FromTree(entries[i].leaf_hash, leaf_hashes, revoked_stamps)
    BY DEF StatesFromTree
  <2>3. /\ entries[i].leaf_hash.authority_root \in AuthorityRoot
        /\ entries[i].leaf_hash.revocation_root \in RevocationRoot
    BY <2>1 DEF LogLeaf
  <2> QED BY <1>1, <2>2, <2>3
<1>6. StatesFromTree'
  BY <1>3, <1>4, <1>5 DEF StatesFromTree
<1> QED BY <1>2, <1>6

LEMMA HeldType ==
    ASSUME BaseInv, NEW base \in Held
    PROVE  base \in State /\ FromTree(base, leaf_hashes, revoked_stamps)
BY DEF BaseInv, TypeOK, StatesFromTree, Held

LEMMA FreshKeyType ==
    ASSUME BaseInv, NEW e \in Epoch
    PROVE  /\ FreshKey \in Nat
           /\ issue_epoch_cert(FreshKey, e) \in Cert
           /\ transparency_log_entry_hash(e, FreshKey) \in ChainHash
<1>1. FreshKey \in Nat
  BY FS_CardinalityType DEF BaseInv, FreshKey
<1>2. e \in Nat
  BY BoundsAssumption DEF Epoch
<1> QED BY <1>1, <1>2 DEF issue_epoch_cert, Cert, transparency_log_entry_hash, ChainHash

(***************************************************************************)
(* The states the operations derive from a base state come from the tree   *)
(* as the operation leaves it.                                             *)
(***************************************************************************)
LEMMA BuiltState ==
    ASSUME BaseInv, NEW e \in Epoch
    PROVE  /\ StateFromTree(e) \in State
           /\ FromTree(StateFromTree(e), leaf_hashes, revoked_stamps)
<1> DEFINE s == StateFromTree(e)
<1>1. /\ leaf_hashes \in Seq(Leaf) /\ revoked_stamps \in SUBSET Stamp
      /\ Cardinality(revoked_stamps) \in Nat
  BY FS_CardinalityType DEF BaseInv, TypeOK
<1>2. s \in State
  BY <1>1, LeavesOfRoot, StampsOfRoot DEF StateFromTree, State, ChainHash
<1>3. /\ s.authority_root = authority_root(leaf_hashes)
      /\ s.revocation_root = revocation_root(revoked_stamps)
      /\ s.revocation_count = Cardinality(revoked_stamps)
  BY DEF StateFromTree
<1> HIDE DEF s
<1>4. FromTree(s, leaf_hashes, revoked_stamps)
  BY <1>1, <1>3, TreeStateFromTree DEF BaseInv
<1> QED BY <1>2, <1>4 DEF s

LEMMA RotatedState ==
    ASSUME BaseInv, NEW base \in Held, NEW e \in Epoch, NEW h \in ChainHash
    PROVE  /\ rotated_authority_state(base, e, h) \in State
           /\ FromTree(rotated_authority_state(base, e, h), leaf_hashes, revoked_stamps)
<1> DEFINE s == rotated_authority_state(base, e, h)
<1>1. base \in State /\ FromTree(base, leaf_hashes, revoked_stamps)
  BY HeldType
<1>2. /\ s \in State /\ s.authority_root = base.authority_root
      /\ s.revocation_root = base.revocation_root
      /\ s.revocation_count = base.revocation_count
  BY <1>1, Zenon DEF rotated_authority_state, State
<1> QED BY <1>1, <1>2 DEF FromTree

LEMMA IssuedStateFromTree ==
    ASSUME BaseInv, NEW base \in Held, NEW cap \in Capability, TreeMatches(base)
    PROVE  LET leaves == Added(leaf_hashes, cap)
               s == IssuedState(base, leaves)
           IN  s \in State /\ FromTree(s, leaves, revoked_stamps)
<1> DEFINE leaves == Added(leaf_hashes, cap)
           s == IssuedState(base, leaves)
<1>1. base \in State /\ FromTree(base, leaf_hashes, revoked_stamps)
  BY HeldType
<1>2. /\ leaf_hashes \in Seq(Leaf) /\ revoked_stamps \in SUBSET Stamp
      /\ TreeListed(leaf_hashes, revoked_stamps)
  BY DEF BaseInv, TypeOK
<1>3. leaves \in Seq(Leaf) /\ IsPrefixOf(leaf_hashes, leaves)
  BY <1>2, AddedGrows
<1> HIDE DEF leaves
<1>4. TreeListed(leaves, revoked_stamps)
  BY <1>2, <1>3, ListedGrows
<1>5. /\ s \in State /\ s.authority_root = authority_root(leaves)
      /\ s.revocation_root = base.revocation_root
      /\ s.revocation_count = base.revocation_count
  BY <1>1, <1>3, LeavesOfRoot, Zenon DEF IssuedState, State
<1>6. /\ base.revocation_root = revocation_root(revoked_stamps)
      /\ base.revocation_count = Cardinality(revoked_stamps)
  BY <1>1, <1>2, StampsOfRoot DEF TreeMatches, FromTree
<1> HIDE DEF s
<1>7. FromTree(s, leaves, revoked_stamps)
  BY <1>2, <1>3, <1>4, <1>5, <1>6, TreeStateFromTree
<1> QED BY <1>5, <1>7 DEF leaves, s

LEMMA RevokedStateFromTree ==
    ASSUME BaseInv, NEW base \in Held, NEW e \in Epoch, NEW cap \in Capability,
           TreeRevokes(cap, base, e)
    PROVE  LET s == RevokedState(base, e, leaf_hashes, revoked_stamps')
           IN  /\ revoked_stamps' \in SUBSET Stamp /\ IsFiniteSet(revoked_stamps')
               /\ revoked_stamps \subseteq revoked_stamps'
               /\ TreeListed(leaf_hashes, revoked_stamps')
               /\ s \in State /\ FromTree(s, leaf_hashes, revoked_stamps')
<1> DEFINE stamps == revoked_stamps'
           s == RevokedState(base, e, leaf_hashes, stamps)
<1>1. base \in State
  BY HeldType
<1>2. leaf_hashes \in Seq(Leaf) /\ revoked_stamps \in SUBSET Stamp
  BY DEF BaseInv, TypeOK
<1>3. /\ capability_stamp(cap, base) \in Stamp
      /\ capability_stamp(cap, base)[2] = cap
  BY <1>1 DEF capability_stamp, Stamp, State
<1>4. stamps = revoked_stamps \cup {capability_stamp(cap, base)}
  BY DEF TreeRevokes
<1>5. /\ stamps \in SUBSET Stamp /\ IsFiniteSet(stamps)
      /\ revoked_stamps \subseteq stamps
  BY <1>2, <1>3, <1>4, FS_AddElement DEF BaseInv
<1>6. TreeListed(leaf_hashes, stamps)
  BY <1>3, <1>4, Zenon DEF TreeListed, BaseInv, TreeRevokes, capability_leaf_hash
<1> HIDE DEF stamps
<1>7. Cardinality(stamps) \in Nat
  BY <1>5, FS_CardinalityType
<1>8. /\ s \in State /\ s.authority_root = authority_root(leaf_hashes)
      /\ s.revocation_root = revocation_root(stamps)
      /\ s.revocation_count = Cardinality(stamps)
  BY <1>1, <1>2, <1>5, <1>7, LeavesOfRoot, StampsOfRoot, Zenon DEF RevokedState, State
<1> HIDE DEF s
<1>9. FromTree(s, leaf_hashes, stamps)
  BY <1>2, <1>5, <1>6, <1>8, TreeStateFromTree
<1> QED BY <1>5, <1>6, <1>8, <1>9 DEF s, stamps

(***************************************************************************)
(* Committing a state of the tree puts only states of the tree in          *)
(* circulation.                                                            *)
(***************************************************************************)
LEMMA CommitFromTree ==
    ASSUME BaseInv, NEW leaves, NEW stamps, NEW s \in State, FromTree(s, leaves, stamps)
    PROVE  LET new == Committed(entries, s)
               com == CommitOf(new, s)
           IN  /\ new \in Seq(EntryType)
               /\ \A i \in DOMAIN new :
                     \/ i \in DOMAIN entries /\ new[i].leaf_hash = entries[i].leaf_hash
                     \/ FromTree(new[i].leaf_hash, leaves, stamps)
               /\ com.state \in State /\ FromTree(com.state, leaves, stamps)
               /\ com.chain_hash \in ChainHash
<1>1. entries \in Seq(EntryType)
  BY DEF BaseInv, TypeOK, EntryType, AnyEntry
<1>2. FromTree(transparency_leaf_hash(s), leaves, stamps)
  BY LeafFromTree
<1>3. \A t : FromTree([s EXCEPT !.transparency_root = t], leaves, stamps)
  BY LeafFromTree
<1> DEFINE new == Committed(entries, s)
<1>4. /\ new \in Seq(EntryType)
      /\ CommitOf(new, s).state \in State /\ CommitOf(new, s).chain_hash = Zero
      /\ \E t : CommitOf(new, s).state = [s EXCEPT !.transparency_root = t]
  BY <1>1, CommitTypes, Zenon
<1>5. \A i \in DOMAIN new : \/ i \in DOMAIN entries /\ new[i] = entries[i]
                            \/ new[i].leaf_hash = transparency_leaf_hash(s)
  BY <1>1, CommittedLeaves
<1> HIDE DEF new
<1>6. FromTree(CommitOf(new, s).state, leaves, stamps)
  <2>1. PICK t : CommitOf(new, s).state = [s EXCEPT !.transparency_root = t]
    BY <1>4, Zenon
  <2>2. FromTree([s EXCEPT !.transparency_root = t], leaves, stamps)
    BY <1>3
  <2> QED BY <2>1, <2>2
<1>7. CommitOf(new, s).chain_hash \in ChainHash
  BY <1>4 DEF ChainHash
<1> QED BY <1>2, <1>4, <1>5, <1>6, <1>7 DEF new

LEMMA PrevHashType ==
    ASSUME BaseInv, NEW base \in Held
    PROVE  PrevHash(base) \in ChainHash
<1>0. entries \in Seq(EntryType)
  BY DEF BaseInv, TypeOK, EntryType, AnyEntry
<1>1. CASE Found(entries, Aid, base.epoch) = {}
  BY <1>1 DEF PrevHash, chain_hash_for, ChainHash
<1>2. CASE Found(entries, Aid, base.epoch) # {}
  <2> DEFINE i == find_index(entries, Aid, base.epoch)
  <2>1. i \in DOMAIN entries /\ PrevHash(base) = entries[i].chain_hash
    BY <1>2 DEF PrevHash, chain_hash_for, find_index, Found
  <2>2. entries[i] \in EntryType
    BY <1>0, <2>1
  <2> QED BY <2>1, <2>2 DEF EntryType, AnyEntry
<1> QED BY <1>1, <1>2

LEMMA BaseStale ==
    ASSUME BaseInv, [NextStale]_vars
    PROVE  BaseInv'
<1>0. /\ entries \in Seq(EntryType) /\ leaf_hashes \in Seq(Leaf)
      /\ revoked_stamps \in SUBSET Stamp /\ certs \in SUBSET Cert
      /\ IsFiniteSet(revoked_stamps) /\ IsFiniteSet(certs)
      /\ TreeListed(leaf_hashes, revoked_stamps)
      /\ IsPrefixOf(leaf_hashes, leaf_hashes)
  BY DEF BaseInv, TypeOK, EntryType, AnyEntry, IsPrefixOf
<1>1. ASSUME NEW e \in Epoch, certify_key(e)
      PROVE  BaseInv'
  <2>1. /\ certs' \in SUBSET Cert /\ certs \subseteq certs' /\ IsFiniteSet(certs')
    BY <1>0, <1>1, FreshKeyType, FS_AddElement, ZenonT(40) DEF certify_key
  <2> QED BY <1>0, <1>1, <2>1, GrowthKeepsBase, Zenon DEF certify_key
<1>2. ASSUME NEW cap \in Capability, NEW cert \in certs, issue_capability(cap, cert)
      PROVE  BaseInv'
  <2> DEFINE leaves == Added(leaf_hashes, cap)
  <2>1. leaves \in Seq(Leaf) /\ IsPrefixOf(leaf_hashes, leaves)
    BY <1>0, AddedGrows
  <2>2. TreeListed(leaves, revoked_stamps) /\ authority_root(leaves) \in AuthorityRoot
    BY <1>0, <2>1, ListedGrows, LeavesOfRoot
  <2>3. \A p \in issued' :
           \/ p \in issued
           \/ p.cap \in Capability /\ p.authority_root \in AuthorityRoot /\ p.epoch_cert \in certs'
    BY <1>2, <2>2 DEF issue_capability, IssuanceProof
  <2> HIDE DEF leaves
  <2> QED BY <1>0, <1>2, <2>1, <2>2, <2>3, GrowthKeepsBase, Zenon DEF issue_capability, leaves
<1>3. ASSUME NEW cap \in Capability, NEW cert \in certs, NEW base \in Held,
             issue_capability_and_commit(cap, cert, base)
      PROVE  BaseInv'
  <2> DEFINE leaves == Added(leaf_hashes, cap)
             s == IssuedState(base, leaves)
  <2>1. leaves \in Seq(Leaf) /\ IsPrefixOf(leaf_hashes, leaves)
    BY <1>0, AddedGrows
  <2>2. TreeListed(leaves, revoked_stamps) /\ authority_root(leaves) \in AuthorityRoot
    BY <1>0, <2>1, ListedGrows, LeavesOfRoot
  <2>3. /\ leaf_hashes' = leaves /\ UNCHANGED <<revoked_stamps, certs>> /\ TreeMatches(base)
    BY <1>3 DEF issue_capability_and_commit
  <2>4. s \in State /\ FromTree(s, leaves, revoked_stamps)
    BY <2>3, IssuedStateFromTree
  <2>5. CASE /\ commit_state(s)
             /\ issued' = issued \cup {IssuanceProof(cap, authority_root(leaves), cert)}
             /\ current' = CommitOf(entries', s).state
    <3> HIDE DEF leaves, s
    <3>1. \A p \in issued' :
             \/ p \in issued
             \/ p.cap \in Capability /\ p.authority_root \in AuthorityRoot /\ p.epoch_cert \in certs'
      BY <2>2, <2>3, <2>5 DEF IssuanceProof
    <3>2. /\ entries' = Committed(entries, s)
          /\ commits' = commits \cup {CommitOf(Committed(entries, s), s)}
          /\ current' = CommitOf(Committed(entries, s), s).state
      BY <2>5 DEF commit_state
    <3> QED BY <1>0, <2>1, <2>2, <2>3, <2>4, <3>1, <3>2, CommitFromTree, GrowthKeepsBase, Zenon
  <2>6. CASE UNCHANGED <<entries, commits, issued, current>>
    <3> HIDE DEF leaves, s
    <3> QED BY <1>0, <2>1, <2>2, <2>3, <2>6, GrowthKeepsBase, Zenon
  <2> QED BY <1>3, <2>5, <2>6 DEF issue_capability_and_commit
<1>4. ASSUME NEW cap \in Capability, NEW base \in Held, NEW e \in Epoch,
             \/ revoke_capability(cap, base, e)
             \/ revoke_capability_and_commit(cap, base, e)
      PROVE  BaseInv'
  <2> DEFINE s == RevokedState(base, e, leaf_hashes, revoked_stamps')
  <2>1. TreeRevokes(cap, base, e) /\ UNCHANGED <<leaf_hashes, certs, issued>>
    BY <1>4 DEF revoke_capability, revoke_capability_and_commit, TreeRevokes
  <2>2. PICK stamps \in SUBSET Stamp : revoked_stamps' = stamps
    BY <2>1, RevokedStateFromTree
  <2>3. /\ IsFiniteSet(stamps) /\ revoked_stamps \subseteq stamps
        /\ TreeListed(leaf_hashes, stamps)
        /\ s \in State /\ FromTree(s, leaf_hashes, stamps)
    BY <2>1, <2>2, RevokedStateFromTree
  <2>4. \/ UNCHANGED <<entries, commits>> /\ current' = s
        \/ commit_state(s) /\ current' = CommitOf(entries', s).state
        \/ UNCHANGED <<entries, commits, current>>
    BY <1>4 DEF revoke_capability, revoke_capability_and_commit, logVars
  <2> HIDE DEF s
  <2>5. CASE UNCHANGED <<entries, commits>> /\ (current' = s \/ current' = current)
    BY <1>0, <2>1, <2>2, <2>3, <2>5, GrowthKeepsBase, Zenon
  <2>6. CASE commit_state(s) /\ current' = CommitOf(entries', s).state
    <3>1. /\ entries' = Committed(entries, s)
          /\ commits' = commits \cup {CommitOf(Committed(entries, s), s)}
          /\ current' = CommitOf(Committed(entries, s), s).state
      BY <2>6 DEF commit_state
    <3> QED BY <1>0, <2>1, <2>2, <2>3, <3>1, CommitFromTree, GrowthKeepsBase, Zenon
  <2> QED BY <2>4, <2>5, <2>6
<1>5. ASSUME NEW base \in Held, NEW e \in Epoch,
             \/ rotate_epoch(base, e, PrevHash(base))
             \/ rotate_epoch_and_commit(base, e, PrevHash(base))
      PROVE  BaseInv'
  <2> DEFINE s == rotated_authority_state(base, e, PrevHash(base))
             new == Committed(entries, s)
             hash == transparency_log_entry_hash(e, FreshKey)
             com == [CommitOf(new, s) EXCEPT !.chain_hash = hash]
  <2>1. PrevHash(base) \in ChainHash
    BY PrevHashType
  <2>2. s \in State /\ FromTree(s, leaf_hashes, revoked_stamps)
    BY <2>1, RotatedState
  <2>3. /\ certs' = certs \cup {issue_epoch_cert(FreshKey, e)}
        /\ UNCHANGED <<leaf_hashes, revoked_stamps, issued>>
    BY <1>5 DEF rotate_epoch, rotate_epoch_and_commit
  <2>4. /\ certs' \in SUBSET Cert /\ certs \subseteq certs' /\ IsFiniteSet(certs')
        /\ hash \in ChainHash
    BY <1>0, <2>3, FreshKeyType, FS_AddElement
  <2>5. \/ UNCHANGED <<entries, commits>> /\ current' = s
        \/ /\ entries' = ChainStored(new, Aid, e, hash)
           /\ commits' = commits \cup {com} /\ current' = com.state
    BY <1>5 DEF rotate_epoch, rotate_epoch_and_commit
  <2> HIDE DEF s, hash
  <2>6. CASE UNCHANGED <<entries, commits>> /\ current' = s
    BY <1>0, <2>2, <2>3, <2>4, <2>6, GrowthKeepsBase, Zenon
  <2>7. CASE /\ entries' = ChainStored(new, Aid, e, hash)
             /\ commits' = commits \cup {com} /\ current' = com.state
    <3>1. /\ new \in Seq(EntryType)
          /\ \A i \in DOMAIN new :
                 \/ i \in DOMAIN entries /\ new[i].leaf_hash = entries[i].leaf_hash
                 \/ FromTree(new[i].leaf_hash, leaf_hashes, revoked_stamps)
          /\ CommitOf(new, s).state \in State
          /\ FromTree(CommitOf(new, s).state, leaf_hashes, revoked_stamps)
      BY <2>2, CommitFromTree
    <3>2. com.state = CommitOf(new, s).state /\ com.chain_hash = hash
      BY DEF CommitOf
    <3> HIDE DEF new, com
    <3>3. /\ entries' \in Seq(EntryType) /\ DOMAIN entries' = DOMAIN new
          /\ \A i \in DOMAIN new : entries'[i].leaf_hash = new[i].leaf_hash
      BY <2>4, <2>7, <3>1, ChainStoredEntries
    <3> QED BY <1>0, <2>3, <2>4, <2>7, <3>1, <3>2, <3>3, GrowthKeepsBase, Zenon
  <2> QED BY <2>5, <2>6, <2>7
<1>6. ASSUME NEW e \in Epoch, build_state(e)
      PROVE  BaseInv'
  BY <1>0, <1>6, BuiltState, GrowthKeepsBase, Zenon DEF build_state
<1>7. ASSUME NEW base \in Held, commit_held(base)
      PROVE  BaseInv'
  <2>1. base \in State /\ FromTree(base, leaf_hashes, revoked_stamps)
    BY HeldType
  <2>2. /\ entries' = Committed(entries, base)
        /\ commits' = commits \cup {CommitOf(Committed(entries, base), base)}
        /\ current' = CommitOf(Committed(entries, base), base).state
        /\ UNCHANGED <<leaf_hashes, revoked_stamps, certs, issued>>
    BY <1>7 DEF commit_held, commit_state
  <2> QED BY <1>0, <2>1, <2>2, CommitFromTree, GrowthKeepsBase, Zenon
<1>8. CASE UNCHANGED vars
  BY <1>0, <1>8, GrowthKeepsBase DEF vars
<1> QED BY <1>1, <1>2, <1>3, <1>4, <1>5, <1>6, <1>7, <1>8 DEF NextStale, Issues, Revokes

LEMMA BaseInit == Init => BaseInv
<1> SUFFICES ASSUME Init PROVE BaseInv
  OBVIOUS
<1>1. /\ leaf_hashes = <<>> /\ revoked_stamps = {} /\ certs = {} /\ issued = {}
      /\ entries = <<>> /\ commits = {} /\ current = StateFromTree(0)
  BY DEF Init, LogInit
<1>2. IsFiniteSet(revoked_stamps) /\ IsFiniteSet(certs) /\ Cardinality(revoked_stamps) = 0
  BY <1>1, FS_EmptySet
<1>3. TreeListed(leaf_hashes, revoked_stamps)
  BY <1>1 DEF TreeListed
<1>4. leaf_hashes \in Seq(Leaf) /\ revoked_stamps \in SUBSET Stamp /\ 0 \in Epoch
  BY <1>1, BoundsAssumption DEF Epoch
<1>5. current \in State
  <2>1. /\ authority_root(leaf_hashes) \in AuthorityRoot
        /\ revocation_root(revoked_stamps) \in RevocationRoot
    BY <1>4, LeavesOfRoot, StampsOfRoot
  <2>2. Cardinality(revoked_stamps) \in Nat
    BY <1>2
  <2> QED BY <1>1, <1>4, <2>1, <2>2 DEF StateFromTree, State, ChainHash
<1>6. /\ current.authority_root = authority_root(leaf_hashes)
      /\ current.revocation_root = revocation_root(revoked_stamps)
      /\ current.revocation_count = Cardinality(revoked_stamps)
  BY <1>1 DEF StateFromTree
<1>7. FromTree(current, leaf_hashes, revoked_stamps)
  BY <1>3, <1>4, <1>6, TreeStateFromTree
<1>8. TypeOK
  BY <1>1, <1>4, <1>5 DEF TypeOK
<1>9. StatesFromTree
  BY <1>1, <1>7 DEF StatesFromTree
<1> QED BY <1>2, <1>3, <1>8, <1>9 DEF BaseInv

LEMMA CarefulIsStale == BaseInv /\ Next => NextStale
<1> SUFFICES ASSUME BaseInv, Next PROVE NextStale
  OBVIOUS
<1>1. current \in Held /\ current.epoch \in Epoch
  BY DEF Held, BaseInv, TypeOK, State
<1>2. \A e \in Later(current) : e \in Epoch
  BY DEF Later
<1>3. CASE Issues({current}) \/ Revokes({current})
  <2>1. (Issues({current}) => Issues(Held)) /\ (Revokes({current}) => Revokes(Held))
    BY <1>1 DEF Issues, Revokes
  <2> QED BY <1>3, <2>1 DEF NextStale
<1>4. CASE \E e \in Later(current) :
              \/ rotate_epoch(current, e, PrevHash(current))
              \/ rotate_epoch_and_commit(current, e, PrevHash(current))
  <2>1. PICK e \in Later(current) :
           \/ rotate_epoch(current, e, PrevHash(current))
           \/ rotate_epoch_and_commit(current, e, PrevHash(current))
    BY <1>4
  <2>2. e \in Epoch
    BY <1>2
  <2> QED BY <1>1, <2>1, <2>2 DEF NextStale
<1>5. CASE \E e \in Later(current) \cup {current.epoch} : build_state(e)
  <2>1. PICK e \in Epoch : build_state(e)
    BY <1>1, <1>2, <1>5
  <2> QED BY <2>1 DEF NextStale
<1>6. CASE certify_key(current.epoch) \/ commit_held(current)
  BY <1>1, <1>6 DEF NextStale
<1> QED BY <1>3, <1>4, <1>5, <1>6 DEF Next

(***************************************************************************)
(* Whatever base states callers pass to issue, revoke and rotate, every    *)
(* state a caller holds or the log published is a moment of the tree, with *)
(* the right revocation count.                                             *)
(***************************************************************************)
THEOREM StaleStates == SpecStale => []StatesFromTree
<1>1. BaseInv /\ [NextStale]_vars => BaseInv'
  BY BaseStale
<1>2. BaseInv => StatesFromTree
  BY DEF BaseInv
<1> QED BY BaseInit, <1>1, <1>2, PTL DEF SpecStale

(***************************************************************************)
(* Under careful callers too, and everything has its type.                 *)
(***************************************************************************)
THEOREM CarefulBase == Spec => []BaseInv
<1>1. BaseInv /\ [Next]_vars => BaseInv'
  BY BaseStale, CarefulIsStale
<1> QED BY BaseInit, <1>1, PTL DEF Spec

(***************************************************************************)
(* The tree, the log, the certificates and the states callers hold keep    *)
(* their types under issue, revoke and rotate.                             *)
(***************************************************************************)
THEOREM AuthorityTypes == Spec => []TypeOK
<1>1. BaseInv => TypeOK
  BY DEF BaseInv
<1> QED BY CarefulBase, <1>1, PTL
------------------------------------------------------------------------------
SameLeaves(new, log) ==
    /\ DOMAIN new = DOMAIN log
    /\ \A i \in DOMAIN log : /\ new[i].leaf_hash = log[i].leaf_hash
                              /\ new[i].epoch = log[i].epoch

LEMMA BelowTransitive ==
    ASSUME NEW log \in Seq(EntryType), NEW s \in State, NEW t \in State,
           AllBelow(log, s), Below(s, t)
    PROVE  AllBelow(log, t)
<1> SUFFICES ASSUME NEW i \in DOMAIN log
             PROVE  log[i].epoch = log[i].leaf_hash.epoch /\ Below(log[i].leaf_hash, t)
  BY DEF AllBelow
<1> DEFINE l == log[i].leaf_hash
<1>1. log[i] \in EntryType
  OBVIOUS
<1>2. l \in LogLeaf
  BY <1>1 DEF EntryType, AnyEntry
<1>3. Below(l, s) /\ log[i].epoch = l.epoch
  BY DEF AllBelow
<1> HIDE DEF l
<1>4. /\ LeavesUnder(l.authority_root) \in Seq(Leaf)
      /\ LeavesUnder(s.authority_root) \in Seq(Leaf)
      /\ LeavesUnder(t.authority_root) \in Seq(Leaf)
  BY <1>2, OpenedRoots DEF LogLeaf, State
<1>5. IsPrefixOf(LeavesUnder(l.authority_root), LeavesUnder(t.authority_root))
  BY <1>3, <1>4, PrefixTransitive DEF Below
<1>6. l.epoch \in Int /\ s.epoch \in Int /\ t.epoch \in Int
  BY <1>2, BoundsAssumption DEF LogLeaf, State, Epoch
<1>7. Below(l, t)
  BY <1>3, <1>5, <1>6, LeqTransitive, Zenon DEF Below
<1> QED BY <1>3, <1>7 DEF l

LEMMA CommitOrdered ==
    ASSUME NEW log \in Seq(EntryType), NEW s \in State, Ordered(log), AllBelow(log, s)
    PROVE  Ordered(Committed(log, s)) /\ AllBelow(Committed(log, s), s)
<1>1. CASE Found(log, s.authority_id, s.epoch) # {}
  BY <1>1 DEF Committed
<1>2. CASE Found(log, s.authority_id, s.epoch) = {}
  <2> DEFINE new == Append(log, Entry(s))
             n == Len(log) + 1
             l == transparency_leaf_hash(s)
  <2>1. Committed(log, s) = new /\ Entry(s) \in EntryType
    BY <1>2, CommitTypes DEF Committed
  <2>2. /\ DOMAIN log = 1 .. Len(log) /\ Len(log) \in Nat
        /\ DOMAIN new = 1 .. n
        /\ \A i \in 1 .. Len(log) : new[i] = log[i]
        /\ new[n] = Entry(s)
    BY <2>1
  <2>3. /\ Entry(s).leaf_hash = l /\ Entry(s).epoch = s.epoch
        /\ l.epoch = s.epoch /\ l.authority_root = s.authority_root
        /\ l.revocation_root = s.revocation_root
    BY DEF Entry, transparency_leaf_hash
  <2>4. \A i \in 1 .. Len(log) :
           /\ log[i].epoch < s.epoch /\ Below(log[i].leaf_hash, s)
           /\ log[i].epoch = log[i].leaf_hash.epoch
    <3> TAKE i \in 1 .. Len(log)
    <3>1. log[i] \in EntryType
      BY <2>2
    <3>2. /\ log[i].authority_id = s.authority_id
          /\ log[i].epoch \in Int /\ s.epoch \in Int
      BY <3>1, BoundsAssumption DEF EntryType, AnyEntry, State, Epoch
    <3>3. log[i].epoch # s.epoch
      BY <1>2, <2>2, <3>2 DEF Found
    <3>4. /\ Below(log[i].leaf_hash, s) /\ log[i].epoch = log[i].leaf_hash.epoch
      BY <2>2 DEF AllBelow
    <3> QED BY <3>2, <3>3, <3>4, LessThan, Zenon DEF Below
  <2>5. \A i \in 1 .. Len(log) : Below(log[i].leaf_hash, l)
    BY <2>3, <2>4, Zenon DEF Below
  <2>6. Below(l, s)
    <3>1. LeavesUnder(s.authority_root) \in Seq(Leaf) /\ s.epoch \in Int
      BY OpenedRoots, BoundsAssumption DEF State, Epoch
    <3> QED BY <2>3, <3>1 DEF Below, IsPrefixOf
  <2> HIDE DEF new, l
  <2>7. Ordered(new)
    <3> SUFFICES ASSUME NEW i \in 1 .. n, NEW j \in 1 .. n, i < j
                 PROVE  new[i].epoch < new[j].epoch /\ Below(new[i].leaf_hash, new[j].leaf_hash)
      BY <2>2 DEF Ordered
    <3>1. CASE j = n
      BY <2>2, <2>3, <2>4, <2>5, <3>1
    <3>2. CASE j # n
      BY <2>2, <3>2 DEF Ordered
    <3> QED BY <3>1, <3>2
  <2>8. AllBelow(new, s)
    <3> SUFFICES ASSUME NEW i \in 1 .. n
                 PROVE  new[i].epoch = new[i].leaf_hash.epoch /\ Below(new[i].leaf_hash, s)
      BY <2>2 DEF AllBelow
    <3> QED BY <2>2, <2>3, <2>4, <2>6
  <2> QED BY <2>1, <2>7, <2>8
<1> QED BY <1>1, <1>2

LEMMA SameLeavesOrdered ==
    ASSUME NEW log, NEW new, NEW s, SameLeaves(new, log), Ordered(log), AllBelow(log, s)
    PROVE  Ordered(new) /\ AllBelow(new, s)
BY DEF SameLeaves, Ordered, AllBelow

LEMMA BoundRootBelow ==
    ASSUME NEW s \in State, NEW r, NEW t
    PROVE  /\ Below(r, [s EXCEPT !.transparency_root = t]) <=> Below(r, s)
           /\ Below([s EXCEPT !.transparency_root = t], r) <=> Below(s, r)
<1> DEFINE u == [s EXCEPT !.transparency_root = t]
<1>1. /\ u.epoch = s.epoch /\ u.authority_root = s.authority_root
      /\ u.revocation_root = s.revocation_root
  BY DEF State
<1> HIDE DEF u
<1>2. (Below(r, u) <=> Below(r, s)) /\ (Below(u, r) <=> Below(s, r))
  BY <1>1 DEF Below
<1> QED BY <1>2 DEF u

(***************************************************************************)
(* What a careful caller's step does: it commits nothing and moves up, or  *)
(* it commits a state that contains its current one and goes on from it.   *)
(***************************************************************************)
CarefulMove(s) ==
    /\ s \in State /\ Below(current, s)
    /\ \/ entries' = entries /\ current' = s
       \/ /\ SameLeaves(entries', Committed(entries, s))
          /\ \E t : current' = [s EXCEPT !.transparency_root = t]

LEMMA CarefulMoves ==
    ASSUME BaseInv, [Next]_vars
    PROVE  \E s : CarefulMove(s)
<1>0. /\ entries \in Seq(EntryType) /\ leaf_hashes \in Seq(Leaf)
      /\ revoked_stamps \in SUBSET Stamp
      /\ current \in State /\ current \in Held /\ current.epoch \in Int
      /\ FromTree(current, leaf_hashes, revoked_stamps)
      /\ LeavesUnder(current.authority_root) \in Seq(Leaf)
  <2>1. current \in State
    BY DEF BaseInv, TypeOK
  <2>2. LeavesUnder(current.authority_root) \in Seq(Leaf) /\ current.epoch \in Int
    BY <2>1, OpenedRoots, BoundsAssumption DEF State, Epoch
  <2> QED BY <2>1, <2>2, Zenon DEF BaseInv, TypeOK, EntryType, AnyEntry, StatesFromTree, Held
<1>1. Below(current, current)
  BY <1>0 DEF Below, IsPrefixOf
<1>2. ASSUME entries' = entries, current' = current
      PROVE  \E s : CarefulMove(s)
  <2>1. CarefulMove(current)
    BY <1>0, <1>1, <1>2 DEF CarefulMove
  <2> QED BY <2>1
<1>3. ASSUME NEW s \in State, Below(current, s), entries' = entries, current' = s
      PROVE  \E r : CarefulMove(r)
  <2>1. CarefulMove(s)
    BY <1>3 DEF CarefulMove
  <2> QED BY <2>1
<1>4. ASSUME NEW s \in State, Below(current, s), entries' = Committed(entries, s),
             current' = CommitOf(Committed(entries, s), s).state
      PROVE  \E r : CarefulMove(r)
  <2>1. \E t : current' = [s EXCEPT !.transparency_root = t]
    BY <1>0, <1>4, CommitTypes, Zenon
  <2>2. SameLeaves(entries', Committed(entries, s))
    BY <1>4 DEF SameLeaves
  <2>3. CarefulMove(s)
    BY <1>4, <2>1, <2>2, Zenon DEF CarefulMove
  <2> QED BY <2>3
<1>5. ASSUME NEW cap \in Capability, NEW cert \in certs,
             issue_capability_and_commit(cap, cert, current)
      PROVE  \E s : CarefulMove(s)
  <2> DEFINE leaves == Added(leaf_hashes, cap)
             s == IssuedState(current, leaves)
  <2>1. TreeMatches(current)
    BY <1>5 DEF issue_capability_and_commit
  <2>2. leaves \in Seq(Leaf) /\ IsPrefixOf(leaf_hashes, leaves) /\ s \in State
    BY <1>0, <2>1, AddedGrows, IssuedStateFromTree
  <2>3. \/ commit_state(s) /\ current' = CommitOf(entries', s).state
        \/ entries' = entries /\ current' = current
    BY <1>5 DEF issue_capability_and_commit
  <2> HIDE DEF leaves
  <2>4. /\ s.epoch = current.epoch /\ s.authority_root = authority_root(leaves)
        /\ s.revocation_root = current.revocation_root
    BY <1>0 DEF IssuedState, State
  <2> HIDE DEF s
  <2>5. LeavesUnder(s.authority_root) = leaves
    BY <2>2, <2>4, LeavesOfRoot
  <2>6. IsPrefixOf(LeavesUnder(current.authority_root), leaves)
    BY <1>0, <2>2, PrefixTransitive, SMTT(30) DEF FromTree
  <2>7. Below(current, s)
    BY <1>0, <2>4, <2>5, <2>6 DEF Below
  <2> QED BY <1>2, <1>4, <2>2, <2>3, <2>7 DEF commit_state
<1>6. ASSUME NEW cap \in Capability, NEW e \in Epoch,
             \/ revoke_capability(cap, current, e)
             \/ revoke_capability_and_commit(cap, current, e)
      PROVE  \E s : CarefulMove(s)
  <2> DEFINE s == RevokedState(current, e, leaf_hashes, revoked_stamps')
  <2>1. TreeRevokes(cap, current, e) /\ e > current.epoch /\ e \in Int
    BY <1>6, EpochInt, Zenon DEF revoke_capability, revoke_capability_and_commit, TreeRevokes
  <2>2. PICK stamps \in SUBSET Stamp : revoked_stamps' = stamps
    BY <1>0, <2>1, RevokedStateFromTree
  <2>3. s \in State /\ revoked_stamps \subseteq stamps
    BY <1>0, <2>1, <2>2, RevokedStateFromTree
  <2>4. /\ s.epoch = e /\ s.authority_root = authority_root(leaf_hashes)
        /\ s.revocation_root = revocation_root(stamps)
    BY <1>0, <2>2 DEF RevokedState, State
  <2>5. \/ entries' = entries /\ current' = s
        \/ commit_state(s) /\ current' = CommitOf(entries', s).state
        \/ entries' = entries /\ current' = current
    BY <1>6 DEF revoke_capability, revoke_capability_and_commit, logVars
  <2> HIDE DEF s
  <2>6. LeavesUnder(s.authority_root) = leaf_hashes /\ RevokedUnder(s.revocation_root) = stamps
    BY <1>0, <2>4, LeavesOfRoot, StampsOfRoot, Zenon
  <2>7. Below(current, s)
    BY <1>0, <2>1, <2>3, <2>4, <2>6 DEF Below, FromTree
  <2> QED BY <1>2, <1>3, <1>4, <2>3, <2>5, <2>7 DEF commit_state
<1>7. ASSUME NEW e \in Later(current),
             \/ rotate_epoch(current, e, PrevHash(current))
             \/ rotate_epoch_and_commit(current, e, PrevHash(current))
      PROVE  \E s : CarefulMove(s)
  <2> DEFINE s == rotated_authority_state(current, e, PrevHash(current))
             hash == transparency_log_entry_hash(e, FreshKey)
  <2>1. e \in Epoch /\ e \in Int /\ e > current.epoch
    BY BoundsAssumption DEF Later, Epoch
  <2>2. PrevHash(current) \in ChainHash
    BY <1>0, PrevHashType
  <2>3. s \in State /\ hash \in ChainHash
    BY <1>0, <2>1, <2>2, RotatedState, FreshKeyType
  <2>4. /\ s.epoch = e /\ s.authority_root = current.authority_root
        /\ s.revocation_root = current.revocation_root
    BY <1>0 DEF rotated_authority_state, State
  <2>5. \/ entries' = entries /\ current' = s
        \/ /\ entries' = ChainStored(Committed(entries, s), Aid, e, hash)
           /\ current' = [CommitOf(Committed(entries, s), s) EXCEPT !.chain_hash = hash].state
    BY <1>7 DEF rotate_epoch, rotate_epoch_and_commit
  <2>0. current.epoch \in Int
    BY <1>0, EpochInt, Zenon DEF State
  <2> HIDE DEF s, hash
  <2>6. Below(current, s)
    BY <1>0, <1>1, <2>1, <2>4, <2>0, GreaterThan, Zenon DEF Below
  <2>7. CASE entries' = entries /\ current' = s
    BY <1>3, <2>3, <2>6, <2>7
  <2>8. CASE /\ entries' = ChainStored(Committed(entries, s), Aid, e, hash)
             /\ current' = [CommitOf(Committed(entries, s), s) EXCEPT !.chain_hash = hash].state
    <3>1. current' = CommitOf(Committed(entries, s), s).state
      BY <2>8 DEF CommitOf
    <3>2. Committed(entries, s) \in Seq(EntryType)
          /\ \E t : current' = [s EXCEPT !.transparency_root = t]
      BY <1>0, <2>3, <3>1, CommitTypes, Zenon
    <3>3. SameLeaves(entries', Committed(entries, s))
      BY <2>3, <2>8, <3>2, ChainStoredKeepsLeaves DEF SameLeaves, EntryType
    <3>4. CarefulMove(s)
      BY <2>3, <2>6, <3>2, <3>3, Zenon DEF CarefulMove
    <3> QED BY <3>4
  <2> QED BY <2>5, <2>7, <2>8
<1>8. ASSUME NEW e \in Later(current) \cup {current.epoch}, build_state(e)
      PROVE  \E s : CarefulMove(s)
  <2> DEFINE s == StateFromTree(e)
  <2>1. e \in Epoch /\ e \in Int /\ e >= current.epoch
    BY <1>0, BoundsAssumption DEF Later, Epoch, State
  <2>2. s \in State
    BY <2>1, BuiltState
  <2>3. /\ s.epoch = e /\ s.authority_root = authority_root(leaf_hashes)
        /\ s.revocation_root = revocation_root(revoked_stamps)
    BY DEF StateFromTree
  <2>4. entries' = entries /\ current' = s
    BY <1>8 DEF build_state
  <2> HIDE DEF s
  <2>5. /\ LeavesUnder(s.authority_root) = leaf_hashes
        /\ RevokedUnder(s.revocation_root) = revoked_stamps
    BY <1>0, <2>3, LeavesOfRoot, StampsOfRoot, Zenon
  <2>6. Below(current, s)
    BY <1>0, <2>1, <2>3, <2>5, Zenon DEF Below, FromTree
  <2> QED BY <1>3, <2>2, <2>4, <2>6
<1>9. ASSUME commit_held(current)
      PROVE  \E s : CarefulMove(s)
  BY <1>0, <1>1, <1>4, <1>9 DEF commit_held, commit_state
<1>10. ASSUME \/ certify_key(current.epoch)
              \/ \E cap \in Capability, cert \in certs : issue_capability(cap, cert)
              \/ UNCHANGED vars
       PROVE  \E s : CarefulMove(s)
  BY <1>2, <1>10 DEF certify_key, issue_capability, vars
<1> QED BY <1>5, <1>6, <1>7, <1>8, <1>9, <1>10 DEF Next, Issues, Revokes

LEMMA CarefulKeepsOrder ==
    ASSUME BaseInv, CarefulInv, [Next]_vars
    PROVE  CarefulInv'
<1>1. PICK s : CarefulMove(s)
  BY CarefulMoves
<1>2. entries \in Seq(EntryType) /\ current \in State /\ s \in State
  BY <1>1 DEF BaseInv, TypeOK, EntryType, AnyEntry, CarefulMove
<1>3. Ordered(entries) /\ AllBelow(entries, s)
  BY <1>1, <1>2, BelowTransitive DEF CarefulInv, CarefulMove
<1>4. CASE entries' = entries /\ current' = s
  BY <1>3, <1>4 DEF CarefulInv
<1>5. CASE /\ SameLeaves(entries', Committed(entries, s))
           /\ \E t : current' = [s EXCEPT !.transparency_root = t]
  <2>1. Ordered(entries') /\ AllBelow(entries', s)
    BY <1>2, <1>3, <1>5, CommitOrdered, SameLeavesOrdered
  <2>2. PICK t : current' = [s EXCEPT !.transparency_root = t]
    BY <1>5, Zenon
  <2>3. AllBelow(entries', current')
    BY <1>2, <2>1, <2>2, BoundRootBelow, Zenon DEF AllBelow
  <2> QED BY <2>1, <2>3 DEF CarefulInv
<1> QED BY <1>1, <1>4, <1>5 DEF CarefulMove

(***************************************************************************)
(* A careful caller's log is ordered: epochs go up and each entry contains *)
(* the ones before it.                                                     *)
(***************************************************************************)
THEOREM CarefulOrder == Spec => []CarefulInv
<1>1. Init => CarefulInv
  BY DEF Init, LogInit, CarefulInv, Ordered, AllBelow
<1>2. BaseInv /\ CarefulInv /\ [Next]_vars => CarefulInv'
  BY CarefulKeepsOrder
<1> QED BY CarefulBase, <1>1, <1>2, PTL DEF Spec

(***************************************************************************)
(* A revocation once published stays published: the promise of             *)
(* capability_stamp's comment, for careful callers.                        *)
(***************************************************************************)
THEOREM RevocationsPersist == Spec => []RevocationPersists
<1>1. BaseInv /\ CarefulInv => RevocationPersists
  <2> SUFFICES ASSUME BaseInv, CarefulInv, NEW i \in DOMAIN entries, NEW j \in DOMAIN entries,
                      entries[i].epoch <= entries[j].epoch
               PROVE  RevokedUnder(entries[i].leaf_hash.revocation_root)
                         \subseteq RevokedUnder(entries[j].leaf_hash.revocation_root)
    BY DEF RevocationPersists
  <2>1. entries \in Seq(EntryType)
    BY DEF BaseInv, TypeOK, EntryType, AnyEntry
  <2>2. entries[i] \in EntryType /\ entries[j] \in EntryType /\ i \in Int /\ j \in Int
    BY <2>1
  <2>3. entries[i].epoch \in Int /\ entries[j].epoch \in Int
    BY <2>2, BoundsAssumption DEF EntryType, AnyEntry, Epoch
  <2>4. ~(j < i)
    BY <2>2, <2>3 DEF CarefulInv, Ordered
  <2>5. CASE i < j
    BY <2>5, Zenon DEF CarefulInv, Ordered, Below
  <2>6. CASE i = j
    BY <2>6
  <2> QED BY <2>2, <2>4, <2>5, <2>6
<1> QED BY CarefulBase, CarefulOrder, <1>1, PTL

------------------------------------------------------------------------------
(***************************************************************************)
(* Refinement: a step leaves the published ledger alone or publishes one   *)
(* record that extends all the others.                                     *)
(***************************************************************************)
LEMMA PublishedRecord ==
    ASSUME NEW leaf \in LogLeaf
    PROVE  Published(leaf) \in Ledger!Record
<1> DEFINE leaves == LeavesUnder(leaf.authority_root)
           stamps == RevokedUnder(leaf.revocation_root)
<1>1. leaves \in Seq(Leaf) /\ stamps \in SUBSET Stamp
  BY OpenedRoots DEF LogLeaf
<1> HIDE DEF leaves, stamps
<1>2. [i \in DOMAIN leaves |-> leaves[i][2]] \in Seq(Capability)
  <2>1. /\ DOMAIN leaves = 1 .. Len(leaves) /\ Len(leaves) \in Nat
        /\ \A i \in 1 .. Len(leaves) : leaves[i] \in Leaf
    BY <1>1
  <2>2. \A i \in 1 .. Len(leaves) : leaves[i][2] \in Capability
    BY <2>1 DEF Leaf
  <2> QED BY <2>1, <2>2
<1>3. {stamp[2] : stamp \in stamps} \in SUBSET Capability
  <2>1. \A stamp \in Stamp : stamp[2] \in Capability
    BY DEF Stamp
  <2> QED BY <1>1, <2>1
<1>4. leaf.epoch \in Nat
  BY BoundsAssumption DEF LogLeaf, Epoch
<1> QED BY <1>2, <1>3, <1>4 DEF Published, Ledger!Record, leaves, stamps

LEMMA ActiveList ==
    ASSUME NEW leaves \in Seq(Leaf), NEW active, active = [i \in DOMAIN leaves |-> leaves[i][2]]
    PROVE  /\ Len(active) = Len(leaves) /\ Len(active) \in Nat
           /\ \A i \in 1 .. Len(leaves) : active[i] = leaves[i][2]
OBVIOUS

LEMMA AppendAsFunction ==
    ASSUME NEW S, NEW q \in Seq(S), NEW x \in S
    PROVE  Append(q, x) = [i \in 1 .. Len(q) + 1 |-> IF i = Len(q) + 1 THEN x ELSE q[i]]
<1> DEFINE r == Append(q, x)
           n == Len(q) + 1
           f == [i \in 1 .. n |-> IF i = n THEN x ELSE q[i]]
<1>1. Len(q) \in Nat /\ \A i \in 1 .. Len(q) : q[i] \in S
  OBVIOUS
<1>2. r \in Seq(S) /\ Len(r) = n /\ r[n] = x /\ \A i \in 1 .. Len(q) : r[i] = q[i]
  OBVIOUS
<1>3. f \in Seq(S) /\ Len(f) = n
  <2>1. \A i \in 1 .. n : f[i] \in S
    BY <1>1
  <2> QED BY <1>1, <2>1
<1>4. \A i \in 1 .. n : r[i] = f[i]
  BY <1>1, <1>2
<1> HIDE DEF r, f, n
<1>5. r = f
  BY <1>2, <1>3, <1>4
<1> QED BY <1>5 DEF r, f, n

LEMMA PublishedActive ==
    ASSUME NEW l \in LogLeaf
    PROVE  /\ Len(Published(l).active) = Len(LeavesUnder(l.authority_root))
           /\ \A i \in 1 .. Len(LeavesUnder(l.authority_root)) :
                 Published(l).active[i] = LeavesUnder(l.authority_root)[i][2]
<1> DEFINE L == LeavesUnder(l.authority_root)
<1>1. L \in Seq(Leaf)
  BY OpenedRoots DEF LogLeaf
<1>2. Published(l).active = [i \in DOMAIN L |-> L[i][2]]
  BY Zenon DEF Published
<1> HIDE DEF L
<1>3. Len(Published(l).active) = Len(L) /\ \A i \in 1 .. Len(L) : Published(l).active[i] = L[i][2]
  BY <1>1, <1>2, ActiveList
<1> QED BY <1>3, Zenon DEF L

LEMMA PublishedExtends ==
    ASSUME NEW k \in LogLeaf, NEW l \in LogLeaf, Below(k, l), k.epoch < l.epoch
    PROVE  Ledger!Extends(Published(l), Published(k))
<1> DEFINE K == LeavesUnder(k.authority_root)
           L == LeavesUnder(l.authority_root)
<1>1. K \in Seq(Leaf) /\ L \in Seq(Leaf) /\ IsPrefixOf(K, L)
  BY OpenedRoots DEF LogLeaf, Below
<1>2. RevokedUnder(k.revocation_root) \subseteq RevokedUnder(l.revocation_root)
  BY DEF Below
<1>3. /\ Published(k).active = [i \in DOMAIN K |-> K[i][2]]
      /\ Published(l).active = [i \in DOMAIN L |-> L[i][2]]
      /\ Published(k).revoked = {stamp[2] : stamp \in RevokedUnder(k.revocation_root)}
      /\ Published(l).revoked = {stamp[2] : stamp \in RevokedUnder(l.revocation_root)}
      /\ Published(k).epoch = k.epoch /\ Published(l).epoch = l.epoch
  BY Zenon DEF Published
<1> HIDE DEF K, L
<1>4. /\ Len(Published(k).active) = Len(K) /\ Len(Published(l).active) = Len(L)
      /\ Len(K) <= Len(L)
      /\ \A i \in 1 .. Len(K) : Published(l).active[i] = Published(k).active[i]
  <2>1. /\ Len(Published(k).active) = Len(K)
        /\ \A i \in 1 .. Len(K) : Published(k).active[i] = K[i][2]
    BY PublishedActive, Zenon DEF K
  <2>2. /\ Len(Published(l).active) = Len(L)
        /\ \A i \in 1 .. Len(L) : Published(l).active[i] = L[i][2]
    BY PublishedActive, Zenon DEF L
  <2>3. Len(K) <= Len(L) /\ \A i \in 1 .. Len(K) : K[i] = L[i] /\ i \in 1 .. Len(L)
    BY <1>1 DEF IsPrefixOf
  <2> QED BY <2>1, <2>2, <2>3, Zenon
<1>5. Published(k).revoked \subseteq Published(l).revoked
  BY <1>2, <1>3
<1> QED BY <1>3, <1>4, <1>5, Zenon DEF Ledger!Extends

LEMMA PublishedSame ==
    ASSUME NEW log, NEW new, SameLeaves(new, log)
    PROVE  PublishedLog(new) = PublishedLog(log)
BY DEF SameLeaves, PublishedLog

LEMMA LedgerStep ==
    ASSUME BaseInv, CarefulInv, [Next]_vars
    PROVE  [Ledger!Next]_(PublishedLog(entries))
<1>1. PICK s : CarefulMove(s)
  BY CarefulMoves
<1>2. entries \in Seq(EntryType) /\ current \in State /\ s \in State
  BY <1>1 DEF BaseInv, TypeOK, EntryType, AnyEntry, CarefulMove
<1>3. Ordered(entries) /\ AllBelow(entries, s)
  BY <1>1, <1>2, BelowTransitive DEF CarefulInv, CarefulMove
<1>4. CASE entries' = entries
  BY <1>4
<1>5. CASE SameLeaves(entries', Committed(entries, s))
  <2>1. PublishedLog(entries') = PublishedLog(Committed(entries, s))
    BY <1>5, PublishedSame
  <2>2. CASE Found(entries, s.authority_id, s.epoch) # {}
    <3>1. PublishedLog(entries') = PublishedLog(entries)
      BY <2>1, <2>2 DEF Committed
    <3> QED BY <3>1
  <2>3. CASE Found(entries, s.authority_id, s.epoch) = {}
    <3> DEFINE l == transparency_leaf_hash(s)
               new == Append(entries, Entry(s))
               led == PublishedLog(entries)
               n == Len(entries) + 1
    <3>1. Committed(entries, s) = new /\ Entry(s) \in EntryType /\ Entry(s).leaf_hash = l
      BY <1>2, <2>3, CommitTypes DEF Committed, Entry
    <3>2. /\ l \in LogLeaf /\ l.epoch = s.epoch /\ l.authority_root = s.authority_root
          /\ l.revocation_root = s.revocation_root
      BY <1>2 DEF transparency_leaf_hash, LogLeaf, State
    <3>3. /\ DOMAIN entries = 1 .. Len(entries) /\ Len(entries) \in Nat
          /\ DOMAIN new = 1 .. n
          /\ \A i \in 1 .. Len(entries) : new[i] = entries[i]
          /\ new[n] = Entry(s)
      BY <1>2, <3>1
    <3> HIDE DEF l, new
    <3>4. /\ led = [i \in 1 .. Len(entries) |-> Published(entries[i].leaf_hash)]
          /\ PublishedLog(new) = [i \in 1 .. n |-> Published(new[i].leaf_hash)]
      BY <3>3 DEF PublishedLog
    <3>5. \A i \in 1 .. Len(entries) :
             /\ led[i] = Published(entries[i].leaf_hash)
             /\ led[i] \in Ledger!Record
             /\ Ledger!Extends(Published(l), led[i])
      <4> TAKE i \in 1 .. Len(entries)
      <4>1. entries[i] \in EntryType
        BY <1>2, <3>3
      <4>2. /\ entries[i].authority_id = s.authority_id /\ entries[i].leaf_hash \in LogLeaf
            /\ entries[i].epoch \in Int /\ s.epoch \in Int
        BY <1>2, <4>1, EpochInt, Zenon DEF EntryType, AnyEntry, State
      <4>3. entries[i].epoch # s.epoch
        BY <2>3, <3>3, <4>2 DEF Found
      <4>4. /\ Below(entries[i].leaf_hash, s) /\ entries[i].epoch = entries[i].leaf_hash.epoch
        BY <1>3, <3>3 DEF AllBelow
      <4>5. Below(entries[i].leaf_hash, l) /\ entries[i].leaf_hash.epoch < l.epoch
        BY <3>2, <4>2, <4>3, <4>4, LessThan, Zenon DEF Below
      <4> QED BY <3>2, <3>4, <4>2, <4>5, PublishedExtends, PublishedRecord, Zenon
    <3>6. Published(l) \in Ledger!Record
      BY <3>2, PublishedRecord
    <3>7. /\ led \in Seq(Ledger!Record) /\ Len(led) = Len(entries)
          /\ DOMAIN led = 1 .. Len(entries)
      BY <3>3, <3>4, <3>5
    <3>8. PublishedLog(new) = Append(led, Published(l))
      <4> HIDE DEF led
      <4>1. Append(led, Published(l))
              = [i \in 1 .. n |-> IF i = n THEN Published(l) ELSE led[i]]
        BY <3>6, <3>7, AppendAsFunction
      <4>2. \A i \in 1 .. n :
               Published(new[i].leaf_hash) = IF i = n THEN Published(l) ELSE led[i]
        BY <3>1, <3>3, <3>5
      <4> QED BY <3>4, <4>1, <4>2, Zenon
    <3>9. led' = Append(led, Published(l))
      BY <2>1, <3>1, <3>8
    <3>10. /\ Len(led') = n /\ led'[n] = Published(l) /\ Len(led') > Len(led)
      <4> HIDE DEF led
      <4> QED BY <3>3, <3>6, <3>7, <3>9
    <3>11. Ledger!Publish(Published(l))
      BY <3>5, <3>6, <3>7, <3>9 DEF Ledger!Publish
    <3> QED BY <3>10, <3>11 DEF Ledger!Next
  <2> QED BY <2>2, <2>3
<1> QED BY <1>1, <1>4, <1>5 DEF CarefulMove

(***************************************************************************)
(* With careful callers the authority implements the epoch ledger: what    *)
(* recipients can read off the log only ever grows.                        *)
(***************************************************************************)
THEOREM AuthorityRefinesLedger == Spec => RefinesLedger
<1>1. Init => Ledger!Init
  BY DEF Init, LogInit, Ledger!Init, PublishedLog
<1>2. BaseInv /\ CarefulInv /\ [Next]_vars => [Ledger!Next]_(PublishedLog(entries))
  BY LedgerStep
<1> QED BY CarefulBase, CarefulOrder, <1>1, <1>2, PTL DEF Spec, RefinesLedger, Ledger!Spec

------------------------------------------------------------------------------
(***************************************************************************)
(* The hash chain: what a state's prev_epoch_hash and a commit's chain     *)
(* hash are found under in the log.                                        *)
(***************************************************************************)
ChainLinked(s, log) ==
    \/ s.prev_epoch_hash = Zero
    \/ \E i \in DOMAIN log : /\ log[i].epoch < s.epoch
                             /\ log[i].chain_hash = s.prev_epoch_hash

ChainHeld(c, log) ==
    \/ c.chain_hash = Zero
    \/ \E i \in DOMAIN log : /\ log[i].epoch = c.state.epoch
                             /\ log[i].chain_hash = c.chain_hash

(* Inductive: the state the caller goes on from is linked as well. *)
ChainInv ==
    /\ ChainLinked(current, entries)
    /\ \A c \in commits : ChainLinked(c.state, entries) /\ ChainHeld(c, entries)

ChainsKept(new, log) ==
    /\ DOMAIN log \subseteq DOMAIN new
    /\ \A i \in DOMAIN log : /\ new[i].epoch = log[i].epoch
                             /\ new[i].chain_hash = log[i].chain_hash

(* A log that keeps its chain hashes keeps every link. *)
LEMMA LinksKept ==
    ASSUME NEW new, NEW log, ChainsKept(new, log), NEW s, NEW c
    PROVE  /\ ChainLinked(s, log) => ChainLinked(s, new)
           /\ ChainHeld(c, log) => ChainHeld(c, new)
BY Zenon DEF ChainsKept, ChainLinked, ChainHeld

(* A state derived from a linked one, at no lower epoch, is linked. *)
LEMMA LinkCarried ==
    ASSUME NEW log \in Seq(EntryType), NEW s \in State, NEW t \in State,
           ChainLinked(s, log), t.prev_epoch_hash = s.prev_epoch_hash, s.epoch <= t.epoch
    PROVE  ChainLinked(t, log)
<1>1. CASE s.prev_epoch_hash = Zero
  BY <1>1 DEF ChainLinked
<1>2. CASE s.prev_epoch_hash # Zero
  <2>1. PICK i \in DOMAIN log : log[i].epoch < s.epoch /\ log[i].chain_hash = s.prev_epoch_hash
    BY <1>2 DEF ChainLinked
  <2>2. log[i] \in EntryType
    OBVIOUS
  <2>3. log[i].epoch \in Int /\ s.epoch \in Int /\ t.epoch \in Int
    BY <2>2, EpochInt, Zenon DEF EntryType, AnyEntry, State
  <2>4. log[i].epoch < t.epoch
    BY <2>1, <2>3
  <2> QED BY <2>1, <2>4 DEF ChainLinked
<1> QED BY <1>1, <1>2

(* A commit keeps every chain hash. *)
LEMMA CommitKeepsChains ==
    ASSUME NEW log \in Seq(EntryType), NEW s \in State
    PROVE  ChainsKept(Committed(log, s), log)
<1>1. CASE Found(log, s.authority_id, s.epoch) # {}
  BY <1>1 DEF Committed, ChainsKept
<1>2. CASE Found(log, s.authority_id, s.epoch) = {}
  <2>1. Committed(log, s) = Append(log, Entry(s)) /\ Entry(s) \in EntryType
    BY <1>2, CommitTypes DEF Committed
  <2> QED BY <2>1 DEF ChainsKept
<1> QED BY <1>1, <1>2

(* Committing a linked state keeps the chain. *)
LEMMA CommitKeepsChain ==
    ASSUME BaseInv, ChainInv, NEW s \in State, ChainLinked(s, entries),
           entries' = Committed(entries, s),
           commits' = commits \cup {CommitOf(Committed(entries, s), s)},
           current' = CommitOf(Committed(entries, s), s).state
    PROVE  ChainInv'
<1> DEFINE new == Committed(entries, s)
           com == CommitOf(new, s)
<1>1. entries \in Seq(EntryType)
  BY DEF BaseInv, TypeOK, EntryType, AnyEntry
<1>2. ChainsKept(new, entries)
  BY <1>1, CommitKeepsChains
<1>3. com.chain_hash = Zero /\ \E t : com.state = [s EXCEPT !.transparency_root = t]
  BY <1>1, CommitTypes, Zenon
<1>4. com.state.prev_epoch_hash = s.prev_epoch_hash /\ com.state.epoch = s.epoch
  BY <1>3 DEF State
<1> HIDE DEF new, com
<1>5. ChainLinked(com.state, entries)
  BY <1>4, Zenon DEF ChainLinked
<1>6. ChainHeld(com, entries)
  BY <1>3, Zenon DEF ChainHeld
<1>7. entries' = new /\ commits' = commits \cup {com} /\ current' = com.state
  BY Zenon DEF new, com
<1> QED BY <1>2, <1>5, <1>6, <1>7, LinksKept, Zenon DEF ChainInv

(* A step that commits nothing keeps the chain if the state it yields is linked. *)
LEMMA MoveKeepsChain ==
    ASSUME ChainInv, entries' = entries, commits' = commits, ChainLinked(current', entries)
    PROVE  ChainInv'
BY Zenon DEF ChainInv, ChainLinked, ChainHeld

(* A rotation is linked to the entry of the epoch it leaves. *)
LEMMA RotationLinked ==
    ASSUME BaseInv, NEW e \in Later(current)
    PROVE  LET s == rotated_authority_state(current, e, PrevHash(current))
           IN  s \in State /\ s.epoch = e /\ ChainLinked(s, entries)
<1> DEFINE s == rotated_authority_state(current, e, PrevHash(current))
<1>1. current \in Held /\ current \in State /\ e \in Epoch /\ current.epoch < e
  BY BoundsAssumption, Zenon DEF Held, BaseInv, TypeOK, Later, Epoch, State
<1>2. s \in State
  BY <1>1, PrevHashType, RotatedState
<1>3. s.epoch = e /\ s.prev_epoch_hash = PrevHash(current)
  BY <1>1 DEF rotated_authority_state, State
<1> HIDE DEF s
<1>4. ChainLinked(s, entries)
  <2>1. CASE Found(entries, Aid, current.epoch) = {}
    BY <1>3, <2>1 DEF PrevHash, chain_hash_for, ChainLinked
  <2>2. CASE Found(entries, Aid, current.epoch) # {}
    <3> DEFINE i == find_index(entries, Aid, current.epoch)
    <3>1. i \in Found(entries, Aid, current.epoch)
      BY <2>2 DEF find_index
    <3>2. i \in DOMAIN entries /\ entries[i].epoch = current.epoch
      BY <3>1 DEF Found
    <3>3. PrevHash(current) = entries[i].chain_hash
      BY <2>2 DEF PrevHash, chain_hash_for
    <3> HIDE DEF i
    <3> QED BY <1>1, <1>3, <3>2, <3>3, Zenon DEF ChainLinked
  <2> QED BY <2>1, <2>2
<1> QED BY <1>2, <1>3, <1>4 DEF s

(* The entry of a rotation is new: its chain hash overwrites no other. *)
LEMMA RotationStores ==
    ASSUME BaseInv, CarefulInv, NEW s \in State, s.epoch > current.epoch, NEW h \in ChainHash
    PROVE  LET log == ChainStored(Committed(entries, s), Aid, s.epoch, h)
           IN  /\ ChainsKept(log, entries)
               /\ \E i \in DOMAIN log : log[i].epoch = s.epoch /\ log[i].chain_hash = h
<1> DEFINE new == Committed(entries, s)
           log == ChainStored(new, Aid, s.epoch, h)
           n == Len(entries) + 1
<1>1. entries \in Seq(EntryType) /\ current \in State
  BY DEF BaseInv, TypeOK, EntryType, AnyEntry
<1>2. \A i \in DOMAIN entries : entries[i].epoch # s.epoch
  <2> TAKE i \in DOMAIN entries
  <2>1. entries[i] \in EntryType
    BY <1>1
  <2>2. entries[i].epoch \in Int /\ current.epoch \in Int /\ s.epoch \in Int
    BY <1>1, <2>1, EpochInt, Zenon DEF EntryType, AnyEntry, State
  <2>3. entries[i].epoch <= current.epoch
    BY Zenon DEF CarefulInv, AllBelow, Below
  <2> QED BY <2>2, <2>3
<1>3. Found(entries, s.authority_id, s.epoch) = {}
  BY <1>2 DEF Found
<1>4. new = Append(entries, Entry(s)) /\ Entry(s) \in EntryType
  BY <1>1, <1>3, CommitTypes DEF Committed
<1>5. /\ Len(entries) \in Nat /\ DOMAIN entries = 1 .. Len(entries) /\ DOMAIN new = 1 .. n
      /\ \A i \in DOMAIN entries : new[i] = entries[i]
      /\ new[n] = Entry(s)
  BY <1>1, <1>4
<1>6. n \in DOMAIN new /\ DOMAIN entries \subseteq DOMAIN new
  BY <1>5
<1>7. s.authority_id = Aid
  BY DEF State
<1>8. Entry(s).authority_id = Aid /\ Entry(s).epoch = s.epoch
  BY <1>7 DEF Entry
<1> HIDE DEF new, n
<1>9. \A i \in DOMAIN entries : i \notin Found(new, Aid, s.epoch)
  BY <1>2, <1>5, Zenon DEF Found
<1>10. n \in Found(new, Aid, s.epoch)
  BY <1>5, <1>6, <1>8, Zenon DEF Found
<1>11. DOMAIN log = DOMAIN new
  BY Zenon DEF ChainStored
<1>12. \A i \in DOMAIN entries : log[i] = entries[i]
  BY <1>5, <1>6, <1>9, Zenon DEF ChainStored
<1>13. log[n] = [Entry(s) EXCEPT !.chain_hash = h]
  BY <1>5, <1>6, <1>10, Zenon DEF ChainStored
<1>14. log[n].epoch = s.epoch /\ log[n].chain_hash = h
  BY <1>8, <1>13 DEF Entry
<1> HIDE DEF log
<1>15. ChainsKept(log, entries)
  BY <1>6, <1>11, <1>12, Zenon DEF ChainsKept
<1> QED BY <1>6, <1>11, <1>14, <1>15, Zenon DEF log, new

(* Every step of a careful caller keeps the chain. *)
LEMMA ChainKept ==
    ASSUME BaseInv, CarefulInv, ChainInv, [Next]_vars
    PROVE  ChainInv'
<1>0. /\ entries \in Seq(EntryType) /\ current \in State /\ current \in Held
      /\ ChainLinked(current, entries) /\ current.epoch \in Int
  <2>1. current \in State
    BY DEF BaseInv, TypeOK
  <2>2. current.epoch \in Int
    BY <2>1, EpochInt, Zenon DEF State
  <2> QED BY <2>1, <2>2, Zenon DEF BaseInv, TypeOK, EntryType, AnyEntry, Held, ChainInv
<1>1. ASSUME UNCHANGED <<entries, commits, current>> PROVE ChainInv'
  BY <1>0, <1>1, MoveKeepsChain
<1>2. ASSUME NEW s \in State, s.prev_epoch_hash = current.prev_epoch_hash,
             current.epoch <= s.epoch,
             \/ UNCHANGED <<entries, commits, current>>
             \/ UNCHANGED <<entries, commits>> /\ current' = s
             \/ commit_state(s) /\ current' = CommitOf(entries', s).state
      PROVE  ChainInv'
  <2>1. ChainLinked(s, entries)
    BY <1>0, <1>2, LinkCarried
  <2>2. CASE UNCHANGED <<entries, commits>> /\ current' = s
    BY <2>1, <2>2, MoveKeepsChain
  <2>3. CASE commit_state(s) /\ current' = CommitOf(entries', s).state
    BY <2>1, <2>3, CommitKeepsChain, Zenon DEF commit_state
  <2> QED BY <1>1, <1>2, <2>2, <2>3
<1>3. ASSUME NEW cap \in Capability, NEW cert \in certs,
             issue_capability_and_commit(cap, cert, current)
      PROVE  ChainInv'
  <2> DEFINE s == IssuedState(current, Added(leaf_hashes, cap))
  <2>1. s \in State
    BY <1>0, <1>3, IssuedStateFromTree, Zenon DEF issue_capability_and_commit
  <2>2. s.prev_epoch_hash = current.prev_epoch_hash /\ s.epoch = current.epoch
    BY <1>0 DEF IssuedState, State
  <2>3. \/ commit_state(s) /\ current' = CommitOf(entries', s).state
        \/ UNCHANGED <<entries, commits, current>>
    BY <1>3 DEF issue_capability_and_commit
  <2> HIDE DEF s
  <2>4. current.epoch <= s.epoch
    <3>1. current.epoch \in Int
      BY <1>0, Zenon
    <3> QED BY <2>2, <3>1
  <2> QED BY <1>2, <2>1, <2>2, <2>3, <2>4
<1>4. ASSUME NEW cap \in Capability, NEW e \in Epoch,
             \/ revoke_capability(cap, current, e)
             \/ revoke_capability_and_commit(cap, current, e)
      PROVE  ChainInv'
  <2> DEFINE s == RevokedState(current, e, leaf_hashes, revoked_stamps')
  <2>1. TreeRevokes(cap, current, e) /\ e > current.epoch /\ e \in Int
    BY <1>4, EpochInt, Zenon DEF revoke_capability, revoke_capability_and_commit, TreeRevokes
  <2>2. s \in State
    BY <1>0, <2>1, RevokedStateFromTree
  <2>3. s.prev_epoch_hash = current.prev_epoch_hash /\ s.epoch = e
    BY <1>0 DEF RevokedState, State
  <2>4. \/ UNCHANGED <<entries, commits>> /\ current' = s
        \/ commit_state(s) /\ current' = CommitOf(entries', s).state
        \/ UNCHANGED <<entries, commits, current>>
    BY <1>4, Zenon DEF revoke_capability, revoke_capability_and_commit, logVars
  <2> HIDE DEF s
  <2>5. current.epoch <= s.epoch
    BY <1>0, <2>1, <2>3
  <2> QED BY <1>2, <2>2, <2>3, <2>4, <2>5
<1>5. ASSUME NEW e \in Later(current),
             \/ rotate_epoch(current, e, PrevHash(current))
             \/ rotate_epoch_and_commit(current, e, PrevHash(current))
      PROVE  ChainInv'
  <2> DEFINE s == rotated_authority_state(current, e, PrevHash(current))
             hash == transparency_log_entry_hash(e, FreshKey)
             new == Committed(entries, s)
             com == [CommitOf(new, s) EXCEPT !.chain_hash = hash]
             log == ChainStored(new, Aid, e, hash)
  <2>1. s \in State /\ s.epoch = e /\ ChainLinked(s, entries)
    BY RotationLinked
  <2>2. e > current.epoch /\ e \in Epoch
    BY DEF Later
  <2>3. hash \in ChainHash
    BY <2>2, FreshKeyType
  <2>4. \/ UNCHANGED <<entries, commits>> /\ current' = s
        \/ entries' = log /\ commits' = commits \cup {com} /\ current' = com.state
    BY <1>5 DEF rotate_epoch, rotate_epoch_and_commit
  <2>5. /\ com.state = CommitOf(new, s).state /\ com.chain_hash = hash
    BY DEF CommitOf
  <2> HIDE DEF s, hash, com
  <2>6. /\ ChainsKept(log, entries)
        /\ \E i \in DOMAIN log : log[i].epoch = e /\ log[i].chain_hash = hash
    BY <2>1, <2>2, <2>3, RotationStores, Zenon
  <2> HIDE DEF log
  <2>7. \E t : com.state = [s EXCEPT !.transparency_root = t]
    <3>1. \E t : CommitOf(new, s).state = [s EXCEPT !.transparency_root = t]
      BY <1>0, <2>1, CommitTypes, Zenon
    <3> HIDE DEF new
    <3> QED BY <2>5, <3>1, Zenon
  <2> HIDE DEF new
  <2>8. com.state.prev_epoch_hash = s.prev_epoch_hash /\ com.state.epoch = e
    BY <2>1, <2>7 DEF State
  <2>9. ChainLinked(com.state, entries)
    BY <2>1, <2>8, Zenon DEF ChainLinked
  <2>10. ChainHeld(com, log)
    BY <2>5, <2>6, <2>8, Zenon DEF ChainHeld
  <2>11. CASE entries' = log /\ commits' = commits \cup {com} /\ current' = com.state
    BY <2>6, <2>9, <2>10, <2>11, LinksKept, Zenon DEF ChainInv
  <2>12. CASE UNCHANGED <<entries, commits>> /\ current' = s
    BY <2>1, <2>12, MoveKeepsChain
  <2> QED BY <2>4, <2>11, <2>12
<1>6. ASSUME NEW e \in Epoch, build_state(e) PROVE ChainInv'
  <2>1. current'.prev_epoch_hash = Zero /\ UNCHANGED <<entries, commits>>
    BY <1>6 DEF build_state, StateFromTree
  <2>2. ChainLinked(current', entries)
    BY <2>1, Zenon DEF ChainLinked
  <2> QED BY <2>1, <2>2, MoveKeepsChain
<1>7. ASSUME commit_held(current) PROVE ChainInv'
  BY <1>0, <1>2, <1>7 DEF commit_held
<1>8. ASSUME \/ certify_key(current.epoch)
             \/ \E cap \in Capability, cert \in certs : issue_capability(cap, cert)
             \/ UNCHANGED vars
      PROVE  ChainInv'
  BY <1>1, <1>8 DEF certify_key, issue_capability, vars
<1>9. \A e \in Later(current) \cup {current.epoch} : e \in Epoch
  BY <1>0 DEF Later, State
<1> QED BY <1>3, <1>4, <1>5, <1>6, <1>7, <1>8, <1>9, Zenon DEF Next, Issues, Revokes

(***************************************************************************)
(* Under a careful caller the hash chain stays whole: no rotation          *)
(* overwrites the chain hash of another epoch, so every prev_epoch_hash    *)
(* and every chain hash handed out can be found in the log.                *)
(***************************************************************************)
THEOREM ChainStaysIntact == Spec => []ChainIntact
<1>1. Init => ChainInv
  BY DEF Init, LogInit, ChainInv, ChainLinked, StateFromTree
<1>2. BaseInv /\ CarefulInv /\ ChainInv /\ [Next]_vars => ChainInv'
  BY ChainKept
<1>3. BaseInv /\ CarefulInv /\ ChainInv => ChainIntact
  <2> SUFFICES ASSUME BaseInv, CarefulInv, ChainInv, NEW c \in commits
               PROVE  /\ ChainLinked(c.state, entries)
                      /\ c.chain_hash = Zero
                         \/ chain_hash_for(entries, Aid, c.state.epoch) = c.chain_hash
    BY Zenon DEF ChainIntact, ChainLinked
  <2>1. ChainLinked(c.state, entries) /\ ChainHeld(c, entries)
    BY Zenon DEF ChainInv
  <2>2. ASSUME NEW i \in DOMAIN entries, entries[i].epoch = c.state.epoch,
               entries[i].chain_hash = c.chain_hash
        PROVE  chain_hash_for(entries, Aid, c.state.epoch) = c.chain_hash
    <3> DEFINE j == find_index(entries, Aid, c.state.epoch)
    <3>1. entries \in Seq(EntryType)
      BY DEF BaseInv, TypeOK, EntryType, AnyEntry
    <3>2. entries[i] \in EntryType
      BY <3>1
    <3>3. entries[i].authority_id = Aid
      BY <3>2 DEF EntryType, AnyEntry
    <3>4. Found(entries, Aid, c.state.epoch) # {}
      BY <2>2, <3>3, Zenon DEF Found
    <3>5. j \in Found(entries, Aid, c.state.epoch)
      BY <3>4 DEF find_index
    <3>6. j \in DOMAIN entries /\ entries[j].epoch = c.state.epoch
      BY <3>5 DEF Found
    <3> HIDE DEF j
    <3>7. entries[j] \in EntryType /\ i \in Int /\ j \in Int
      BY <3>1, <3>6
    <3>8. entries[i].epoch \in Int /\ entries[j].epoch \in Int
      BY <3>2, <3>7, EpochInt, Zenon DEF EntryType, AnyEntry
    <3>9. ~(i < j) /\ ~(j < i)
      BY <2>2, <3>6, <3>8 DEF CarefulInv, Ordered
    <3>10. i = j
      BY <3>7, <3>9
    <3> QED BY <2>2, <3>4, <3>10, Zenon DEF chain_hash_for, j
  <2> QED BY <2>1, <2>2, Zenon DEF ChainHeld
<1> QED BY CarefulBase, CarefulOrder, <1>1, <1>2, <1>3, PTL DEF Spec

------------------------------------------------------------------------------
(***************************************************************************)
(* A log behind a network.  Requests arrive late, so the log's epochs need *)
(* not go up; what holds is that states of different epochs, whether       *)
(* published, on their way or held by the caller, contain each other in    *)
(* the order of their epochs, because every new one has the whole tree and *)
(* the highest epoch asked for.  For one epoch two different states may be *)
(* on their way: the log takes one of them.                                *)
(***************************************************************************)
Shown == {entries[i].leaf_hash : i \in DOMAIN entries} \cup inflight \cup {current}

ShownInOrder ==
    \A x, y \in Shown :
        x.epoch < y.epoch
            => RevokedUnder(x.revocation_root) \subseteq RevokedUnder(y.revocation_root)

EpochsOnce(log) ==
    /\ \A i, j \in DOMAIN log : log[i].epoch = log[j].epoch => i = j
    /\ \A i \in DOMAIN log : log[i].epoch = log[i].leaf_hash.epoch

AsyncInv ==
    /\ BaseInv
    /\ EpochsOnce(entries)
    /\ asked \in Epoch
    /\ \A s \in inflight : s \in State /\ FromTree(s, leaf_hashes, revoked_stamps)
    /\ \A x \in Shown : x.epoch <= asked
    /\ ShownInOrder

(* The log takes one state per epoch. *)
LEMMA CommitOnce ==
    ASSUME NEW log \in Seq(EntryType), NEW s \in State, EpochsOnce(log)
    PROVE  EpochsOnce(Committed(log, s))
<1>1. CASE Found(log, s.authority_id, s.epoch) # {}
  BY <1>1 DEF Committed
<1>2. CASE Found(log, s.authority_id, s.epoch) = {}
  <2> DEFINE new == Append(log, Entry(s))
             n == Len(log) + 1
  <2>1. Committed(log, s) = new /\ Entry(s) \in EntryType
    BY <1>2, CommitTypes DEF Committed
  <2>2. /\ DOMAIN log = 1 .. Len(log) /\ Len(log) \in Nat
        /\ DOMAIN new = 1 .. n
        /\ \A i \in 1 .. Len(log) : new[i] = log[i]
        /\ new[n] = Entry(s)
    BY <2>1
  <2>3. Entry(s).epoch = s.epoch /\ Entry(s).leaf_hash.epoch = s.epoch
    BY Zenon DEF Entry, transparency_leaf_hash
  <2>4. \A i \in 1 .. Len(log) : log[i].epoch # s.epoch
    <3> TAKE i \in 1 .. Len(log)
    <3>1. log[i] \in EntryType
      BY <2>2
    <3>2. log[i].authority_id = s.authority_id
      BY <3>1, Zenon DEF EntryType, AnyEntry, State
    <3> QED BY <1>2, <2>2, <3>2 DEF Found
  <2> HIDE DEF new
  <2>5. \A i \in 1 .. n : i = n \/ i \in 1 .. Len(log)
    BY <2>2
  <2>6. EpochsOnce(new)
    <3>1. ASSUME NEW i \in 1 .. n, NEW j \in 1 .. n, new[i].epoch = new[j].epoch PROVE i = j
      <4>1. CASE i \in 1 .. Len(log) /\ j \in 1 .. Len(log)
        BY <2>2, <3>1, <4>1 DEF EpochsOnce
      <4>2. CASE i = n \/ j = n
        <5>1. i \notin 1 .. Len(log) /\ j \notin 1 .. Len(log)
          BY <2>2, <2>3, <2>4, <3>1, <4>2, Zenon
        <5> QED BY <2>5, <5>1, Zenon
      <4> QED BY <2>5, <4>1, <4>2
    <3>2. ASSUME NEW i \in 1 .. n PROVE new[i].epoch = new[i].leaf_hash.epoch
      BY <2>2, <2>3, <2>5 DEF EpochsOnce
    <3> QED BY <2>2, <3>1, <3>2, Zenon DEF EpochsOnce
  <2> QED BY <2>1, <2>6
<1> QED BY <1>1, <1>2

(* What is shown has its type and comes from the tree. *)
LEMMA ShownType ==
    ASSUME AsyncInv, NEW x \in Shown
    PROVE  /\ x.epoch \in Int /\ x.epoch <= asked
           /\ RevokedUnder(x.revocation_root) \subseteq revoked_stamps
<1>0. x.epoch <= asked
  BY DEF AsyncInv
<1>1. CASE x \in inflight \cup {current}
  <2>1. x \in State /\ FromTree(x, leaf_hashes, revoked_stamps)
    BY <1>1, Zenon DEF AsyncInv, BaseInv, TypeOK, StatesFromTree
  <2> QED BY <1>0, <2>1, EpochInt, Zenon DEF State, FromTree
<1>2. CASE x \notin inflight \cup {current}
  <2>1. PICK i \in DOMAIN entries : x = entries[i].leaf_hash
    BY <1>2, Zenon DEF Shown
  <2>2. entries \in Seq(EntryType)
    BY DEF AsyncInv, BaseInv, TypeOK, EntryType, AnyEntry
  <2>3. entries[i] \in EntryType
    BY <2>2
  <2>4. x \in LogLeaf
    BY <2>1, <2>3, Zenon DEF EntryType, AnyEntry
  <2>5. FromTree(x, leaf_hashes, revoked_stamps)
    BY <2>1, Zenon DEF AsyncInv, BaseInv, StatesFromTree
  <2> QED BY <1>0, <2>4, <2>5, EpochInt, Zenon DEF LogLeaf, FromTree
<1> QED BY <1>1, <1>2

Alike(x, y) == x.epoch = y.epoch /\ x.revocation_root = y.revocation_root

Newest(x, epoch, stamps) == x.epoch = epoch /\ RevokedUnder(x.revocation_root) = stamps

(* What is like something shown before, or newest, keeps the order. *)
LEMMA ShownStep ==
    ASSUME AsyncInv, asked' \in Epoch, asked <= asked', revoked_stamps \subseteq revoked_stamps',
           \A x \in Shown' : \/ \E y \in Shown : Alike(x, y)
                             \/ Newest(x, asked', revoked_stamps')
    PROVE  /\ \A x \in Shown' : x.epoch <= asked'
           /\ ShownInOrder'
<1>1. asked \in Int /\ asked' \in Int
  BY EpochInt DEF AsyncInv
<1>2. ASSUME NEW x \in Shown'
      PROVE  /\ x.epoch \in Int /\ x.epoch <= asked'
             /\ RevokedUnder(x.revocation_root) \subseteq revoked_stamps'
  <2>1. CASE \E y \in Shown : Alike(x, y)
    <3>1. PICK y \in Shown : Alike(x, y)
      BY <2>1, Zenon
    <3>2. /\ y.epoch \in Int /\ y.epoch <= asked
          /\ RevokedUnder(y.revocation_root) \subseteq revoked_stamps
      BY ShownType
    <3>3. x.epoch = y.epoch /\ x.revocation_root = y.revocation_root
      BY <3>1, Zenon DEF Alike
    <3>4. y.epoch <= asked'
      BY <1>1, <3>2
    <3> QED BY <3>2, <3>3, <3>4, Zenon
  <2>2. CASE Newest(x, asked', revoked_stamps')
    BY <1>1, <2>2 DEF Newest
  <2> QED BY <2>1, <2>2
<1>3. ASSUME NEW x \in Shown', NEW y \in Shown', x.epoch < y.epoch
      PROVE  RevokedUnder(x.revocation_root) \subseteq RevokedUnder(y.revocation_root)
  <2>1. CASE Newest(y, asked', revoked_stamps')
    BY <1>2, <2>1, Zenon DEF Newest
  <2>2. CASE Newest(x, asked', revoked_stamps')
    <3>1. x.epoch = asked' /\ y.epoch <= asked' /\ y.epoch \in Int
      BY <1>2, <2>2, Zenon DEF Newest
    <3> QED BY <1>1, <1>3, <3>1
  <2>3. CASE (\E u \in Shown : Alike(x, u)) /\ (\E v \in Shown : Alike(y, v))
    <3>1. PICK u \in Shown : Alike(x, u)
      BY <2>3, Zenon
    <3>2. PICK v \in Shown : Alike(y, v)
      BY <2>3, Zenon
    <3>3. u.epoch < v.epoch /\ x.revocation_root = u.revocation_root
          /\ y.revocation_root = v.revocation_root
      BY <1>3, <3>1, <3>2 DEF Alike
    <3> QED BY <3>3, Zenon DEF AsyncInv, ShownInOrder
  <2> QED BY <2>1, <2>2, <2>3, Zenon
<1>4. \A x \in Shown' : x.epoch <= asked'
  BY <1>2, Zenon
<1>5. ShownInOrder'
  BY <1>3, Zenon DEF ShownInOrder
<1> QED BY <1>4, <1>5

(***************************************************************************)
(* What a step does: it has to do with one state, shown before or newest,  *)
(* that may be sent, committed or taken up by the caller.                  *)
(***************************************************************************)
AsyncMove(s) ==
    /\ s \in State
    /\ (\E y \in Shown : Alike(s, y)) \/ Newest(s, asked', revoked_stamps')
    /\ entries' = entries \/ SameLeaves(entries', Committed(entries, s))
    /\ current' = current \/ Alike(current', s)
    /\ \/ inflight' \subseteq inflight
       \/ inflight' = inflight \cup {s} /\ FromTree(s, leaf_hashes', revoked_stamps')
    /\ asked' \in Epoch /\ asked <= asked'
    /\ IsPrefixOf(leaf_hashes, leaf_hashes') /\ revoked_stamps \subseteq revoked_stamps'
    /\ BaseInv'

(* Such a step keeps the invariant. *)
LEMMA AsyncMoveKeeps ==
    ASSUME AsyncInv, NEW s, AsyncMove(s)
    PROVE  AsyncInv'
<1>0. /\ entries \in Seq(EntryType) /\ s \in State
      /\ leaf_hashes \in Seq(Leaf) /\ leaf_hashes' \in Seq(Leaf)
  BY Zenon DEF AsyncMove, AsyncInv, BaseInv, TypeOK, EntryType, AnyEntry
<1>1. EpochsOnce(entries')
  <2>1. CASE entries' = entries
    BY <2>1 DEF AsyncInv
  <2>2. CASE SameLeaves(entries', Committed(entries, s))
    <3>1. EpochsOnce(Committed(entries, s))
      BY <1>0, CommitOnce DEF AsyncInv
    <3> QED BY <2>2, <3>1, Zenon DEF EpochsOnce, SameLeaves
  <2> QED BY <2>1, <2>2 DEF AsyncMove
<1>2. \A r \in inflight' : r \in State /\ FromTree(r, leaf_hashes', revoked_stamps')
  <2> TAKE r \in inflight'
  <2>1. CASE r \in inflight
    <3>1. r \in State /\ FromTree(r, leaf_hashes, revoked_stamps)
      BY <2>1, Zenon DEF AsyncInv
    <3>2. r.authority_root \in AuthorityRoot /\ r.revocation_root \in RevocationRoot
      BY <3>1 DEF State
    <3>3. IsPrefixOf(leaf_hashes, leaf_hashes') /\ revoked_stamps \subseteq revoked_stamps'
      BY DEF AsyncMove
    <3> QED BY <1>0, <3>1, <3>2, <3>3, FromGrownTree
  <2>2. CASE r \notin inflight
    BY <2>2, Zenon DEF AsyncMove
  <2> QED BY <2>1, <2>2
<1>3. ASSUME NEW x \in Shown'
      PROVE  (\E y \in Shown : Alike(x, y)) \/ Newest(x, asked', revoked_stamps')
  <2>1. ASSUME x \in Shown PROVE \E y \in Shown : Alike(x, y)
    BY <2>1, Zenon DEF Alike
  <2>2. ASSUME Alike(x, s)
        PROVE  (\E y \in Shown : Alike(x, y)) \/ Newest(x, asked', revoked_stamps')
    BY <2>2, Zenon DEF AsyncMove, Alike, Newest
  <2>3. CASE x = current'
    <3>1. current \in Shown
      BY DEF Shown
    <3> QED BY <2>1, <2>2, <2>3, <3>1, Zenon DEF AsyncMove
  <2>4. CASE x \in inflight'
    <3>1. x \in inflight \/ x = s
      BY <2>4, Zenon DEF AsyncMove
    <3>2. CASE x \in inflight
      BY <2>1, <3>2, Zenon DEF Shown
    <3>3. CASE x = s
      BY <2>2, <3>3, Zenon DEF Alike
    <3> QED BY <3>1, <3>2, <3>3
  <2>5. CASE \E i \in DOMAIN entries' : x = entries'[i].leaf_hash
    <3>1. PICK i \in DOMAIN entries' : x = entries'[i].leaf_hash
      BY <2>5, Zenon
    <3>2. CASE i \in DOMAIN entries /\ entries'[i].leaf_hash = entries[i].leaf_hash
      <4>1. x \in Shown
        BY <3>1, <3>2, Zenon DEF Shown
      <4> QED BY <2>1, <4>1, Zenon
    <3>3. CASE entries'[i].leaf_hash = transparency_leaf_hash(s)
      <4>1. Alike(transparency_leaf_hash(s), s)
        BY DEF Alike, transparency_leaf_hash
      <4> QED BY <2>2, <3>1, <3>3, <4>1, Zenon
    <3>4. \/ i \in DOMAIN entries /\ entries'[i].leaf_hash = entries[i].leaf_hash
          \/ entries'[i].leaf_hash = transparency_leaf_hash(s)
      <4>1. CASE entries' = entries
        BY <4>1, Zenon
      <4>2. CASE SameLeaves(entries', Committed(entries, s))
        <5>1. i \in DOMAIN Committed(entries, s)
              /\ entries'[i].leaf_hash = Committed(entries, s)[i].leaf_hash
          BY <4>2, Zenon DEF SameLeaves
        <5> QED BY <1>0, <5>1, CommittedLeaves, Zenon
      <4> QED BY <4>1, <4>2, Zenon DEF AsyncMove
    <3> QED BY <3>2, <3>3, <3>4
  <2> QED BY <2>3, <2>4, <2>5, Zenon DEF Shown
<1>4. /\ \A x \in Shown' : x.epoch <= asked'
      /\ ShownInOrder'
  <2>1. /\ asked' \in Epoch /\ asked <= asked' /\ revoked_stamps \subseteq revoked_stamps'
    BY DEF AsyncMove
  <2> QED BY <1>3, <2>1, ShownStep, Zenon
<1>5. BaseInv' /\ asked' \in Epoch
  BY DEF AsyncMove
<1> QED BY <1>1, <1>2, <1>4, <1>5, Zenon DEF AsyncInv

(* The calls between asynchronous ones are calls of module Authority. *)
LEMMA BetweenIsStale ==
    ASSUME BaseInv, BetweenCalls
    PROVE  BaseInv'
<1>1. current \in Held /\ current.epoch \in Epoch
  BY Zenon DEF Held, BaseInv, TypeOK, State
<1>2. CASE Issues({current})
  <2>1. Issues(Held)
    BY <1>1, <1>2 DEF Issues
  <2> QED BY <2>1, BaseStale DEF NextStale
<1>3. CASE \E e \in Later(current) : rotate_epoch_and_commit(current, e, PrevHash(current))
  <2>1. PICK e \in Later(current) : rotate_epoch_and_commit(current, e, PrevHash(current))
    BY <1>3
  <2>2. e \in Epoch
    BY DEF Later
  <2>3. NextStale
    BY <1>1, <2>1, <2>2 DEF NextStale
  <2> QED BY <2>3, BaseStale
<1>4. CASE certify_key(current.epoch) \/ commit_held(current) \/ \E e \in Epoch : build_state(e)
  <2>1. NextStale
    BY <1>1, <1>4 DEF NextStale
  <2> QED BY <2>1, BaseStale
<1> QED BY <1>2, <1>3, <1>4 DEF BetweenCalls

(* A state sent by an asynchronous revocation is newest. *)
LEMMA RevokeMoves ==
    ASSUME AsyncInv, NEW cap \in Capability, NEW e \in Epoch,
           revoke_capability_and_commit_async(cap, current, e)
    PROVE  \E s : AsyncMove(s)
<1> DEFINE s == RevokedState(current, e, leaf_hashes, revoked_stamps')
<1>1. /\ TreeRevokes(cap, current, e) /\ inflight' = inflight \cup {s}
      /\ asked' = e /\ asked <= e /\ UNCHANGED <<entries, commits, current>>
      /\ UNCHANGED <<leaf_hashes, certs, issued>>
  <2>1. asked \in Int /\ e \in Int
    BY EpochInt DEF AsyncInv
  <2> QED BY <2>1 DEF revoke_capability_and_commit_async, TreeRevokes
<1>2. BaseInv /\ current \in Held /\ current \in State
  BY Zenon DEF AsyncInv, BaseInv, TypeOK, Held
<1>3. PICK stamps \in SUBSET Stamp : revoked_stamps' = stamps
  BY <1>1, <1>2, RevokedStateFromTree
<1>4. /\ IsFiniteSet(stamps) /\ revoked_stamps \subseteq stamps
      /\ TreeListed(leaf_hashes, stamps)
      /\ s \in State /\ FromTree(s, leaf_hashes, stamps)
  BY <1>1, <1>2, <1>3, RevokedStateFromTree
<1>5. s.epoch = e /\ s.revocation_root = revocation_root(stamps)
  BY <1>2, <1>3 DEF RevokedState, State
<1> HIDE DEF s
<1>6. RevokedUnder(s.revocation_root) = stamps
  BY <1>5, StampsOfRoot
<1>7. Newest(s, asked', revoked_stamps')
  BY <1>1, <1>3, <1>5, <1>6, Zenon DEF Newest
<1>8. /\ entries \in Seq(EntryType) /\ leaf_hashes \in Seq(Leaf) /\ certs \in SUBSET Cert
      /\ IsFiniteSet(certs) /\ IsPrefixOf(leaf_hashes, leaf_hashes)
  BY <1>2 DEF BaseInv, TypeOK, EntryType, AnyEntry, IsPrefixOf
<1>9. BaseInv'
  BY <1>1, <1>2, <1>3, <1>4, <1>8, GrowthKeepsBase, Zenon
<1>10. AsyncMove(s)
  BY <1>1, <1>3, <1>4, <1>7, <1>8, <1>9, Zenon DEF AsyncMove
<1> QED BY <1>10, Zenon

(* Whenever it is applied, a request puts nothing new in circulation. *)
LEMMA DeliverMoves ==
    ASSUME AsyncInv, NEW s \in inflight, deliver(s)
    PROVE  \E r : AsyncMove(r)
<1>0. /\ BaseInv /\ asked \in Epoch /\ asked <= asked /\ current \in State
      /\ s \in State /\ FromTree(s, leaf_hashes, revoked_stamps)
  BY EpochInt DEF AsyncInv, BaseInv, TypeOK
<1>1. /\ inflight' \subseteq inflight
      /\ UNCHANGED <<leaf_hashes, revoked_stamps, certs, issued, asked>>
  BY DEF deliver
<1>2. /\ entries \in Seq(EntryType) /\ leaf_hashes \in Seq(Leaf) /\ certs \in SUBSET Cert
      /\ revoked_stamps \in SUBSET Stamp /\ IsFiniteSet(revoked_stamps)
      /\ TreeListed(leaf_hashes, revoked_stamps)
      /\ IsFiniteSet(certs) /\ IsPrefixOf(leaf_hashes, leaf_hashes)
  BY <1>0 DEF BaseInv, TypeOK, EntryType, AnyEntry, IsPrefixOf
<1>3. s \in Shown /\ current \in Shown
  BY DEF Shown
<1>4. CASE Applied(s)
  <2> DEFINE new == Committed(entries, s)
             com == CommitOf(new, s)
  <2>1. /\ entries' = new /\ commits' = commits \cup {com}
        /\ current' = com.state \/ current' = current
    BY <1>4 DEF Applied, commit_state
  <2>2. \E t : com.state = [s EXCEPT !.transparency_root = t]
    BY <1>0, <1>2, CommitTypes, Zenon
  <2>3. Alike(com.state, s)
    BY <1>0, <2>2 DEF Alike, State
  <2>4. BaseInv'
    BY <1>0, <1>1, <1>2, <2>1, CommitFromTree, GrowthKeepsBase, Zenon
  <2>5. SameLeaves(entries', new) /\ Alike(s, s)
    BY <2>1 DEF SameLeaves, Alike
  <2> HIDE DEF new, com
  <2>6. AsyncMove(s)
    BY <1>0, <1>1, <1>2, <1>3, <2>1, <2>3, <2>4, <2>5, Zenon DEF AsyncMove, new
  <2> QED BY <2>6, Zenon
<1>5. CASE Refused(s)
  <2>1. UNCHANGED <<entries, commits, current>>
    BY <1>5 DEF Refused
  <2>2. BaseInv'
    BY <1>0, <1>1, <2>1, BaseStale DEF vars
  <2>3. Alike(current, current)
    BY DEF Alike
  <2>4. AsyncMove(current)
    BY <1>0, <1>1, <1>2, <1>3, <2>1, <2>2, <2>3, Zenon DEF AsyncMove
  <2> QED BY <2>4, Zenon
<1> QED BY <1>4, <1>5 DEF deliver

(* Between asynchronous calls too, a new state is like the caller's or newest. *)
LEMMA BetweenMoves ==
    ASSUME AsyncInv, BetweenCalls
    PROVE  \E s : AsyncMove(s)
<1>0. /\ BaseInv /\ asked \in Epoch /\ asked \in Int /\ current \in State /\ current \in Held
      /\ entries \in Seq(EntryType) /\ leaf_hashes \in Seq(Leaf)
      /\ revoked_stamps \in SUBSET Stamp
      /\ IsPrefixOf(leaf_hashes, leaf_hashes)
  <2>1. BaseInv /\ asked \in Epoch
    BY Zenon DEF AsyncInv
  <2>2. asked \in Int
    BY <2>1, EpochInt, Zenon
  <2>3. /\ current \in State /\ entries \in Seq(EntryType) /\ leaf_hashes \in Seq(Leaf)
        /\ revoked_stamps \in SUBSET Stamp
    BY <2>1, Zenon DEF BaseInv, TypeOK, EntryType, AnyEntry
  <2>4. current \in Held
    BY Zenon DEF Held
  <2>5. IsPrefixOf(leaf_hashes, leaf_hashes)
    BY <2>3 DEF IsPrefixOf
  <2> QED BY <2>1, <2>2, <2>3, <2>4, <2>5, Zenon
<1>1. BaseInv' /\ inflight' \subseteq inflight
  BY <1>0, BetweenIsStale DEF BetweenCalls, callVars
<1>2. current \in Shown /\ Alike(current, current) /\ asked <= asked
  BY <1>0 DEF Shown, Alike
<1>3. ASSUME NEW s \in State, Alike(s, current), asked' = asked,
             IsPrefixOf(leaf_hashes, leaf_hashes'), revoked_stamps' = revoked_stamps,
             \/ entries' = entries /\ current' = current
             \/ commit_state(s) /\ current' = CommitOf(entries', s).state
      PROVE  \E r : AsyncMove(r)
  <2>1. CASE entries' = entries /\ current' = current
    <3>1. AsyncMove(s)
      BY <1>0, <1>1, <1>2, <1>3, <2>1, Zenon DEF AsyncMove
    <3> QED BY <3>1, Zenon
  <2>2. CASE commit_state(s) /\ current' = CommitOf(entries', s).state
    <3>1. entries' = Committed(entries, s) /\ current' = CommitOf(Committed(entries, s), s).state
      BY <2>2 DEF commit_state
    <3>2. \E t : current' = [s EXCEPT !.transparency_root = t]
      BY <1>0, <3>1, CommitTypes, Zenon
    <3>3. Alike(current', s)
      BY <3>2 DEF Alike, State
    <3>4. SameLeaves(entries', Committed(entries, s))
      BY <3>1 DEF SameLeaves
    <3>5. AsyncMove(s)
      BY <1>0, <1>1, <1>2, <1>3, <3>3, <3>4, Zenon DEF AsyncMove
    <3> QED BY <3>5, Zenon
  <2> QED BY <1>3, <2>1, <2>2
<1>4. ASSUME NEW cap \in Capability, NEW cert \in certs, asked' = asked,
             issue_capability_and_commit(cap, cert, current)
      PROVE  \E r : AsyncMove(r)
  <2> DEFINE leaves == Added(leaf_hashes, cap)
             s == IssuedState(current, leaves)
  <2>1. /\ TreeMatches(current) /\ leaf_hashes' = leaves /\ revoked_stamps' = revoked_stamps
        /\ \/ commit_state(s) /\ current' = CommitOf(entries', s).state
           \/ entries' = entries /\ current' = current
    BY <1>4, Zenon DEF issue_capability_and_commit
  <2>2. s \in State /\ IsPrefixOf(leaf_hashes, leaves)
    BY <1>0, <2>1, AddedGrows, IssuedStateFromTree, Zenon
  <2>3. Alike(s, current)
    BY <1>0 DEF Alike, IssuedState, State
  <2> HIDE DEF s, leaves
  <2> QED BY <1>3, <1>4, <2>1, <2>2, <2>3, Zenon
<1>5. ASSUME NEW cap \in Capability, NEW cert \in certs, asked' = asked, issue_capability(cap, cert)
      PROVE  \E r : AsyncMove(r)
  <2>1. /\ leaf_hashes' = Added(leaf_hashes, cap)
        /\ UNCHANGED <<revoked_stamps, entries, current>>
    BY <1>5 DEF issue_capability
  <2>2. IsPrefixOf(leaf_hashes, leaf_hashes')
    BY <1>0, <2>1, AddedGrows
  <2> QED BY <1>0, <1>2, <1>3, <1>5, <2>1, <2>2, Zenon
<1>6. ASSUME asked' = asked, certify_key(current.epoch) \/ commit_held(current)
      PROVE  \E r : AsyncMove(r)
  BY <1>0, <1>2, <1>3, <1>6 DEF certify_key, commit_held
<1>7. ASSUME NEW e \in Later(current), TreeMatches(current), e >= asked, asked' = e,
             rotate_epoch_and_commit(current, e, PrevHash(current))
      PROVE  \E r : AsyncMove(r)
  <2> DEFINE s == rotated_authority_state(current, e, PrevHash(current))
             hash == transparency_log_entry_hash(e, FreshKey)
             new == Committed(entries, s)
             com == [CommitOf(new, s) EXCEPT !.chain_hash = hash]
  <2>1. e \in Epoch /\ e \in Int
    BY EpochInt DEF Later
  <2>2. s \in State /\ hash \in ChainHash
    BY <1>0, <2>1, PrevHashType, RotatedState, FreshKeyType
  <2>3. s.epoch = e /\ s.revocation_root = revocation_root(revoked_stamps)
    BY <1>0, <1>7 DEF rotated_authority_state, State, TreeMatches
  <2>4. /\ entries' = ChainStored(new, Aid, e, hash) /\ current' = com.state
        /\ UNCHANGED <<leaf_hashes, revoked_stamps>>
    BY <1>7 DEF rotate_epoch_and_commit
  <2>5. com.state = CommitOf(new, s).state
    BY DEF CommitOf
  <2> HIDE DEF s, hash
  <2>6. RevokedUnder(s.revocation_root) = revoked_stamps
    BY <1>0, <2>3, StampsOfRoot
  <2>7. Newest(s, asked', revoked_stamps')
    BY <1>7, <2>3, <2>4, <2>6, Zenon DEF Newest
  <2> HIDE DEF com
  <2>8. new \in Seq(EntryType) /\ \E t : CommitOf(new, s).state = [s EXCEPT !.transparency_root = t]
    BY <1>0, <2>2, CommitTypes, Zenon
  <2> HIDE DEF new
  <2>9. new \in Seq(EntryType) /\ \E t : com.state = [s EXCEPT !.transparency_root = t]
    BY <2>5, <2>8, Zenon
  <2>10. Alike(current', s)
    BY <2>2, <2>4, <2>9 DEF Alike, State
  <2>11. SameLeaves(entries', new)
    BY <2>2, <2>4, <2>9, ChainStoredKeepsLeaves DEF SameLeaves, EntryType
  <2>12. asked <= asked'
    BY <1>0, <1>7, <2>1
  <2>13. AsyncMove(s)
    BY <1>0, <1>1, <1>7, <2>1, <2>2, <2>4, <2>7, <2>10, <2>11, <2>12, Zenon DEF AsyncMove, new
  <2> QED BY <2>13, Zenon
<1>8. ASSUME NEW e \in Epoch, e >= asked, asked' = e, build_state(e)
      PROVE  \E r : AsyncMove(r)
  <2> DEFINE s == StateFromTree(e)
  <2>1. s \in State
    BY <1>0, BuiltState
  <2>2. s.epoch = e /\ s.revocation_root = revocation_root(revoked_stamps)
    BY Zenon DEF StateFromTree
  <2>3. current' = s /\ UNCHANGED <<entries, leaf_hashes, revoked_stamps>>
    BY <1>8 DEF build_state
  <2> HIDE DEF s
  <2>4. RevokedUnder(s.revocation_root) = revoked_stamps
    BY <1>0, <2>2, StampsOfRoot
  <2>5. Newest(s, asked', revoked_stamps') /\ Alike(current', s)
    BY <1>8, <2>2, <2>3, <2>4, Zenon DEF Newest, Alike
  <2>6. asked <= asked'
    BY <1>0, <1>8, EpochInt
  <2>7. AsyncMove(s)
    BY <1>0, <1>1, <1>8, <2>1, <2>3, <2>5, <2>6, Zenon DEF AsyncMove
  <2> QED BY <2>7, Zenon
<1> QED BY <1>4, <1>5, <1>6, <1>7, <1>8, Zenon DEF BetweenCalls, Issues

Idle == UNCHANGED vars /\ UNCHANGED asked /\ inflight' \subseteq inflight

(* Losing a request, dropping a call and stuttering change nothing shown. *)
LEMMA IdleMoves ==
    ASSUME AsyncInv, Idle
    PROVE  \E s : AsyncMove(s)
<1>1. /\ BaseInv /\ asked \in Epoch /\ asked <= asked /\ current \in State
      /\ leaf_hashes \in Seq(Leaf) /\ IsPrefixOf(leaf_hashes, leaf_hashes)
  BY EpochInt DEF AsyncInv, BaseInv, TypeOK, IsPrefixOf
<1>2. BaseInv'
  BY <1>1, BaseStale DEF Idle
<1>3. current \in Shown /\ Alike(current, current)
  BY DEF Shown, Alike
<1>4. /\ UNCHANGED <<entries, current, leaf_hashes, revoked_stamps, asked>>
      /\ inflight' \subseteq inflight
  BY DEF Idle, vars
<1>5. AsyncMove(current)
  BY <1>1, <1>2, <1>3, <1>4, Zenon DEF AsyncMove
<1> QED BY <1>5, Zenon

(* Every step, late or early, keeps the order of what is shown. *)
LEMMA AsyncKept == AsyncInv /\ [AsyncNext]_asyncVars => AsyncInv'
<1> SUFFICES ASSUME AsyncInv, [AsyncNext]_asyncVars PROVE AsyncInv'
  OBVIOUS
<1>1. ASSUME NEW s \in inflight, lose(s) PROVE \E r : AsyncMove(r)
  <2>1. Idle
    BY <1>1 DEF Idle, lose, vars
  <2> QED BY <2>1, IdleMoves, Zenon
<1>2. ASSUME drop PROVE \E r : AsyncMove(r)
  <2>1. Idle
    BY <1>2 DEF Idle, drop, vars
  <2> QED BY <2>1, IdleMoves, Zenon
<1>3. ASSUME UNCHANGED asyncVars PROVE \E r : AsyncMove(r)
  <2>1. Idle
    BY <1>3 DEF Idle, asyncVars, vars
  <2> QED BY <2>1, IdleMoves, Zenon
<1>4. ASSUME NEW cap \in Capability, NEW e \in Epoch,
             revoke_capability_and_commit_async(cap, current, e)
      PROVE  \E r : AsyncMove(r)
  BY <1>4, RevokeMoves
<1>5. ASSUME NEW s \in inflight, deliver(s) PROVE \E r : AsyncMove(r)
  BY <1>5, DeliverMoves
<1>6. ASSUME BetweenCalls PROVE \E r : AsyncMove(r)
  BY <1>6, BetweenMoves
<1>7. \E r : AsyncMove(r)
  BY <1>1, <1>2, <1>3, <1>4, <1>5, <1>6 DEF AsyncNext
<1> QED BY <1>7, AsyncMoveKeeps, Zenon

(* Before the first call only the hand-built state is shown. *)
LEMMA AsyncStart == AsyncInit => AsyncInv
<1> SUFFICES ASSUME AsyncInit PROVE AsyncInv
  OBVIOUS
<1>1. BaseInv
  BY BaseInit DEF AsyncInit
<1>2. /\ entries = <<>> /\ inflight = {} /\ asked = 0 /\ current.epoch = 0
  BY Zenon DEF AsyncInit, Init, LogInit, StateFromTree
<1>3. asked \in Epoch
  BY <1>2, BoundsAssumption DEF Epoch
<1>4. Shown = {current}
  BY <1>2 DEF Shown
<1>5. (\A x \in Shown : x.epoch <= asked) /\ ShownInOrder
  BY <1>2, <1>4 DEF ShownInOrder
<1>6. EpochsOnce(entries)
  BY <1>2 DEF EpochsOnce
<1> QED BY <1>1, <1>2, <1>3, <1>5, <1>6, Zenon DEF AsyncInv

(***************************************************************************)
(* However late revoke_capability_and_commit_async's request is applied,   *)
(* it describes a moment of the tree and asks for no epoch above those     *)
(* asked for.                                                              *)
(***************************************************************************)
THEOREM LateRequestsAreContained == AsyncSpec => []LateRequestsContained
<1>1. AsyncInv => LateRequestsContained
  <2> SUFFICES ASSUME AsyncInv PROVE LateRequestsContained
    OBVIOUS
  <2>1. \A s \in inflight : FromTree(s, leaf_hashes, revoked_stamps) /\ s.epoch <= asked
    BY Zenon DEF AsyncInv, Shown
  <2>2. \A i \in DOMAIN entries : entries[i].epoch <= asked
    BY Zenon DEF AsyncInv, EpochsOnce, Shown
  <2> QED BY <2>1, <2>2, Zenon DEF LateRequestsContained
<1> QED BY AsyncStart, AsyncKept, <1>1, PTL DEF AsyncSpec

(***************************************************************************)
(* Requests lost, late, repeated or abandoned: a revocation the log holds  *)
(* is part of every entry for that or a later epoch, in whatever order the *)
(* entries arrived.                                                        *)
(***************************************************************************)
THEOREM RevocationsPersistAsync == AsyncSpec => []RevocationPersists
<1>1. AsyncInv => RevocationPersists
  <2> SUFFICES ASSUME AsyncInv, NEW i \in DOMAIN entries, NEW j \in DOMAIN entries,
                      entries[i].epoch <= entries[j].epoch
               PROVE  RevokedUnder(entries[i].leaf_hash.revocation_root)
                         \subseteq RevokedUnder(entries[j].leaf_hash.revocation_root)
    BY DEF RevocationPersists
  <2> DEFINE x == entries[i].leaf_hash
             y == entries[j].leaf_hash
  <2>1. x \in Shown /\ y \in Shown
    BY DEF Shown
  <2>2. x.epoch = entries[i].epoch /\ y.epoch = entries[j].epoch
    BY Zenon DEF AsyncInv, EpochsOnce
  <2>3. x.epoch \in Int /\ y.epoch \in Int
    BY <2>1, ShownType, Zenon
  <2>4. CASE entries[i].epoch = entries[j].epoch
    <3>1. i = j
      BY <2>4, Zenon DEF AsyncInv, EpochsOnce
    <3> QED BY <3>1
  <2>5. CASE entries[i].epoch # entries[j].epoch
    <3>1. x.epoch < y.epoch
      BY <2>2, <2>3, <2>5
    <3> HIDE DEF x, y
    <3>2. RevokedUnder(x.revocation_root) \subseteq RevokedUnder(y.revocation_root)
      BY <2>1, <3>1, Zenon DEF AsyncInv, ShownInOrder
    <3> QED BY <3>2 DEF x, y
  <2> QED BY <2>4, <2>5
<1> QED BY AsyncStart, AsyncKept, <1>1, PTL DEF AsyncSpec
===============================================================================
