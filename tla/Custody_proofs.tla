---------------------------- MODULE Custody_proofs ----------------------------
(***************************************************************************)
(* Delegation only narrows, and proofs age as stated, for any rights, any  *)
(* epochs, any depth limit and any number of capabilities and states.      *)
(*                                                                         *)
(* The inductive invariant adds to Delegation's properties that the states *)
(* are numbered by their epochs and that their lists grow at the end: what *)
(* lies between two equal lists is equal to them.                          *)
(***************************************************************************)
EXTENDS Custody, TLAPS

DelegationInv == TypeOK /\ WithinARoot /\ ChainTraceable

(* Capabilities issued directly are their own roots. *)
LEMMA InitInv == Init => DelegationInv
<1> SUFFICES ASSUME Init PROVE DelegationInv
  OBVIOUS
<1>1. \A cap \in caps : cap \in Direct /\ DirectlyIssued(cap)
  BY DirectAssumption DEF Init
<1>2. TypeOK
  BY <1>1 DEF TypeOK, DirectlyIssued
<1>3. WithinARoot
  BY <1>1 DEF WithinARoot, DirectlyIssued
<1>4. ChainTraceable
  BY <1>1, DepthAssumption DEF ChainTraceable, DirectlyIssued
<1> QED BY <1>2, <1>3, <1>4 DEF DelegationInv

(* delegate_capability narrows, and names its parent. *)
LEMMA DelegateInv ==
    ASSUME DelegationInv, NEW p \in caps, NEW rights \in SUBSET Rights,
           NEW start \in Epoch, NEW end \in Epoch,
           delegate_capability(p, rights, start, end)
    PROVE  DelegationInv'
<1> DEFINE new == Delegated(p, rights, start, end, Cardinality(caps))
<1>1. /\ caps' = caps \cup {new}
      /\ MayDelegate(p, rights, start, end)
  BY DEF delegate_capability
<1>2. /\ new.object_id = p.object_id /\ new.policy_hash = p.policy_hash
      /\ new.rights = rights
      /\ new.epoch_start = start
      /\ new.epoch_end = end
      /\ new.delegation_depth = p.delegation_depth + 1
      /\ new.parent_stamp = capability_stamp(p)
  BY DEF Delegated
<1> HIDE DEF new
<1>3. start \in Int /\ end \in Int
  BY EpochAssumption
<1>4. /\ p.rights \subseteq Rights /\ p.delegation_depth \in Nat
      /\ p.epoch_start \in Int /\ p.epoch_end \in Int
  BY DEF DelegationInv, TypeOK
<1>5. TypeOK'
  BY <1>1, <1>2, <1>3, <1>4 DEF DelegationInv, TypeOK
<1>6. WithinARoot'
  <2>1. PICK root \in Direct : /\ p.object_id = root.object_id /\ p.policy_hash = root.policy_hash
                               /\ p.rights \subseteq root.rights
                               /\ root.epoch_start <= p.epoch_start
                               /\ p.epoch_end <= root.epoch_end
    BY DEF DelegationInv, WithinARoot
  <2>2. root.epoch_start \in Int /\ root.epoch_end \in Int
    BY DirectAssumption DEF DirectlyIssued
  <2>3. /\ new.object_id = root.object_id /\ new.policy_hash = root.policy_hash
        /\ new.rights \subseteq root.rights
        /\ root.epoch_start <= new.epoch_start /\ new.epoch_end <= root.epoch_end
        /\ new.delegation_depth # 0
    BY <1>1, <1>2, <1>3, <1>4, <2>1, <2>2 DEF MayDelegate, contains_all
  <2> QED BY <1>1, <2>3 DEF DelegationInv, WithinARoot
<1>7. ChainTraceable'
  <2>1. new.delegation_depth <= MAX_DELEGATION_DEPTH /\ new.delegation_depth > 0
    BY <1>1, <1>2, <1>4, DepthAssumption DEF MayDelegate
  <2>2. new.parent_stamp # Zero
    BY <1>2 DEF capability_stamp, Zero
  <2>3. /\ p \in caps'
        /\ new.parent_stamp = capability_stamp(p)
        /\ p.delegation_depth + 1 = new.delegation_depth
        /\ "DELEGATE" \in p.rights
    BY <1>1, <1>2 DEF MayDelegate, contains_all
  <2> QED BY <1>1, <2>1, <2>2, <2>3 DEF DelegationInv, ChainTraceable
<1> QED BY <1>5, <1>6, <1>7 DEF DelegationInv


------------------------------------------------------------------------------
AuthorityState == [epoch : Nat, authority_root : Seq(caps), revocation_root : SUBSET caps]

Prefix(s, t) == Len(s) <= Len(t) /\ \A i \in 1 .. Len(s) : s[i] = t[i]

StatesInv ==
    /\ states \in Seq(AuthorityState)
    /\ Len(states) >= 1
    /\ \A k \in DOMAIN states : states[k].epoch = k - 1
    /\ \A j, k \in DOMAIN states :
          j <= k => Prefix(states[j].authority_root, states[k].authority_root)

CustodyInv == DelegationInv /\ StatesInv

(* The current state is one of the states. *)
LEMMA Current ==
    ASSUME StatesInv
    PROVE  /\ Len(states) \in DOMAIN states
           /\ CurrentState = states[Len(states)]
           /\ CurrentState \in AuthorityState
           /\ NextEpoch = Len(states)
<1>1. states \in Seq(AuthorityState) /\ Len(states) \in Nat /\ Len(states) >= 1
  BY DEF StatesInv
<1>2. CurrentState = states[Len(states)]
  BY DEF CurrentState, Last
<1>3. Len(states) \in DOMAIN states
  BY <1>1
<1>4. CurrentState \in AuthorityState
  BY <1>1, <1>2, <1>3
<1>5. NextEpoch = Len(states)
  BY <1>1, <1>2, <1>3 DEF NextEpoch, StatesInv
<1> QED
  BY <1>2, <1>3, <1>4, <1>5

(* A state whose list extends the current one may be published. *)
LEMMA PublishKeeps ==
    ASSUME StatesInv, NEW root \in Seq(caps), NEW revoked \in SUBSET caps,
           Prefix(CurrentState.authority_root, root), Publish(root, revoked)
    PROVE  StatesInv'
<1> DEFINE new == [epoch |-> NextEpoch, authority_root |-> root, revocation_root |-> revoked]
           len == Len(states)
<1>1. /\ states \in Seq(AuthorityState)
      /\ len \in Nat
      /\ len >= 1
      /\ DOMAIN states = 1 .. len
  BY DEF StatesInv
<1>2. states' = Append(states, new) /\ caps' = caps
  BY DEF Publish
<1>3. new \in AuthorityState /\ new.epoch = len /\ new.authority_root = root
  BY <1>1, Current DEF AuthorityState
<1> HIDE DEF new, len
<1>4. /\ states' \in Seq(AuthorityState)
      /\ Len(states') = len + 1
      /\ DOMAIN states' = 1 .. len + 1
      /\ states'[len + 1] = new
      /\ \A k \in 1 .. len : states'[k] = states[k]
  BY <1>1, <1>2, <1>3 DEF len
<1>5. states' \in Seq(AuthorityState')
  BY <1>2, <1>4 DEF AuthorityState
<1>6. \A k \in DOMAIN states' : states'[k].epoch = k - 1
  BY <1>1, <1>3, <1>4 DEF StatesInv
<1>7. ASSUME NEW k \in DOMAIN states PROVE Prefix(states[k].authority_root, root)
  <2>1. Prefix(states[k].authority_root, CurrentState.authority_root)
    BY <1>1, Current DEF StatesInv, len
  <2>2. /\ states[k].authority_root \in Seq(caps)
        /\ CurrentState.authority_root \in Seq(caps)
    <3>1. states[k] \in AuthorityState
      BY <1>1
    <3>2. CurrentState \in AuthorityState
      BY Current
    <3> QED
      BY <3>1, <3>2 DEF AuthorityState
  <2> QED
    BY <2>1, <2>2 DEF Prefix
<1>8. ASSUME NEW j \in DOMAIN states', NEW k \in DOMAIN states', j <= k
      PROVE  Prefix(states'[j].authority_root, states'[k].authority_root)
  <2>1. CASE k \in 1 .. len
    BY <1>1, <1>4, <1>8, <2>1 DEF StatesInv
  <2>2. CASE k = len + 1 /\ j \in 1 .. len
    BY <1>1, <1>3, <1>4, <1>7, <2>2
  <2>3. CASE k = len + 1 /\ j = len + 1
    BY <1>3, <1>4, <2>3 DEF Prefix
  <2> QED
    BY <1>1, <1>4, <1>8, <2>1, <2>2, <2>3
<1> QED
  BY <1>1, <1>4, <1>5, <1>6, <1>8 DEF StatesInv

(* add_capability keeps a list and adds at most the capability. *)
LEMMA AddedAtEnd ==
    ASSUME NEW S, NEW leaves \in Seq(S), NEW cap \in S
    PROVE  /\ add_capability(leaves, cap) \in Seq(S)
           /\ Prefix(leaves, add_capability(leaves, cap))
           /\ \A c : Contains(leaves, c) => Contains(add_capability(leaves, cap), c)
<1> DEFINE A == Append(leaves, cap)
<1>1. CASE Contains(leaves, cap)
  BY <1>1 DEF add_capability, Prefix
<1>2. CASE ~Contains(leaves, cap)
  <2>1. add_capability(leaves, cap) = A
    BY <1>2 DEF add_capability
  <2>2. /\ A \in Seq(S)
        /\ Len(leaves) \in Nat
        /\ Len(A) = Len(leaves) + 1
        /\ \A i \in 1 .. Len(leaves) : A[i] = leaves[i]
    OBVIOUS
  <2> HIDE DEF A
  <2>3. Prefix(leaves, A)
    BY <2>2 DEF Prefix
  <2>4. \A c : Contains(leaves, c) => Contains(A, c)
    BY <2>2 DEF Contains
  <2> QED
    BY <2>1, <2>2, <2>3, <2>4
<1> QED
  BY <1>1, <1>2

------------------------------------------------------------------------------
(* Nothing but the first, empty state is published at first. *)
LEMMA CustodyInvInit == CInit => CustodyInv
<1> SUFFICES ASSUME CInit PROVE CustodyInv
  OBVIOUS
<1> DEFINE first == [epoch |-> 0, authority_root |-> <<>>, revocation_root |-> {}]
<1>1. DelegationInv
  BY InitInv DEF CInit
<1>2. states = <<first>>
  BY DEF CInit
<1>3. first \in AuthorityState
  BY DEF AuthorityState
<1>4. first.epoch = 0 /\ Prefix(first.authority_root, first.authority_root)
  BY DEF Prefix
<1> HIDE DEF first
<1>5. StatesInv
  BY <1>2, <1>3, <1>4 DEF StatesInv
<1> QED
  BY <1>1, <1>5 DEF CustodyInv

(* Every delegation, issuance and revocation preserves the invariant. *)
LEMMA CustodyInvStep == CustodyInv /\ [CNext]_cvars => CustodyInv'
<1> SUFFICES ASSUME CustodyInv, [CNext]_cvars PROVE CustodyInv'
  OBVIOUS
<1>1. DelegationInv /\ StatesInv
  BY DEF CustodyInv
<1>2. caps' = caps => DelegationInv'
  BY <1>1 DEF DelegationInv, TypeOK, WithinARoot, ChainTraceable
<1>3. CASE Next /\ UNCHANGED states
  <2>1. DelegationInv'
    BY <1>1, <1>3, DelegateInv DEF Next
  <2>2. caps \subseteq caps'
    BY <1>3 DEF Next, delegate_capability
  <2>3. AuthorityState \subseteq AuthorityState'
    BY <2>2 DEF AuthorityState
  <2>4. StatesInv'
    BY <1>1, <1>3, <2>3 DEF StatesInv
  <2> QED
    BY <2>1, <2>4 DEF CustodyInv
<1> DEFINE R == CurrentState.authority_root
           V == CurrentState.revocation_root
<1>4. R \in Seq(caps) /\ V \in SUBSET caps
  BY <1>1, Current DEF AuthorityState
<1>5. ASSUME NEW cap \in caps, issue_capability_and_commit(cap)
      PROVE  CustodyInv'
  <2>1. Publish(add_capability(R, cap), V) /\ caps' = caps
    BY <1>5 DEF issue_capability_and_commit, Publish
  <2> HIDE DEF R, V
  <2>2. add_capability(R, cap) \in Seq(caps) /\ Prefix(R, add_capability(R, cap))
    BY <1>4, AddedAtEnd
  <2>3. StatesInv'
    BY <1>1, <1>4, <2>1, <2>2, PublishKeeps DEF R
  <2> QED
    BY <1>2, <2>1, <2>3 DEF CustodyInv
<1>6. ASSUME NEW cap \in caps, revoke_capability_and_commit(cap)
      PROVE  CustodyInv'
  <2>1. Publish(R, V \cup {cap}) /\ caps' = caps
    BY <1>6 DEF revoke_capability_and_commit, revoke_stamp, Publish
  <2> HIDE DEF R, V
  <2>2. Prefix(R, R) /\ V \cup {cap} \in SUBSET caps
    BY <1>4 DEF Prefix
  <2>3. StatesInv'
    BY <1>1, <1>4, <2>1, <2>2, PublishKeeps DEF R
  <2> QED
    BY <1>2, <2>1, <2>3 DEF CustodyInv
<1>7. CASE UNCHANGED cvars
  <2>1. caps' = caps /\ states' = states
    BY <1>7 DEF cvars
  <2>2. StatesInv'
    BY <1>1, <2>1 DEF StatesInv, AuthorityState
  <2> QED
    BY <1>2, <2>1, <2>2 DEF CustodyInv
<1> QED
  BY <1>3, <1>5, <1>6, <1>7 DEF CNext

(* The invariant of custody: see the head of the module. *)
THEOREM CustodyInvariant == CSpec => []CustodyInv
BY CustodyInvInit, CustodyInvStep, PTL DEF CSpec

(***************************************************************************)
(* A delegated capability never exceeds a directly issued one, over chains *)
(* of any length (delegate_capability).                                    *)
(***************************************************************************)
THEOREM DelegationNarrows == CSpec => []WithinARoot
<1>1. CustodyInv => WithinARoot
  BY DEF CustodyInv, DelegationInv
<1> QED
  BY <1>1, CustodyInvariant, PTL

(***************************************************************************)
(* Every delegated capability names a parent that could delegate, within   *)
(* the depth limit (delegate_capability, validate_capability).             *)
(***************************************************************************)
THEOREM DelegationTraceable == CSpec => []ChainTraceable
<1>1. CustodyInv => ChainTraceable
  BY DEF CustodyInv, DelegationInv
<1> QED
  BY <1>1, CustodyInvariant, PTL

------------------------------------------------------------------------------
(***************************************************************************)
(* KeptProofSound: a path fits one list and a witness one set of revoked   *)
(* stamps, so that a mixed proof tells no lie about the state it fits      *)
(* (validate_capability).                                                  *)
(***************************************************************************)
THEOREM MixedProofsSound == CSpec => []KeptProofSound
<1>1. KeptProofSound
  <2> SUFFICES ASSUME NEW cap \in caps, NEW state \in Published, NEW proof \in Kept(cap),
                      validate_capability(cap, proof, state)
               PROVE  Contains(state.authority_root, cap) /\ cap \notin state.revocation_root
    BY Zenon DEF KeptProofSound
  <2>1. PICK i \in Published, w \in Published, s \in Published :
            /\ inclusion_proof(cap, i)
            /\ non_revocation_witness(cap, w)
            /\ proof = KeptProof(cap, i, w, s)
    BY DEF Kept
  <2>2. proof.inclusion = i.authority_root /\ proof.non_revocation.revoked = w.revocation_root
    BY <2>1 DEF KeptProof, capability_proof
  <2>3. i.authority_root = state.authority_root /\ w.revocation_root = state.revocation_root
    BY <2>2 DEF validate_capability, ProofFits
  <2> QED
    BY <2>1, <2>3 DEF inclusion_proof, non_revocation_witness
<1> QED
  BY <1>1, PTL

(***************************************************************************)
(* SignatureOutdated: the issuance signature is good only for as long as   *)
(* nobody is issued a capability (sign_capability_issuance,                *)
(* verify_capability_issuance).                                            *)
(***************************************************************************)
THEOREM SignaturesAge == CSpec => []SignatureOutdated
<1>1. CustodyInv => SignatureOutdated
  <2> SUFFICES ASSUME CustodyInv, NEW cap \in caps, NEW state \in Published,
                      NEW s \in Published, NEW between \in Published,
                      validate_capability(cap, KeptProof(cap, state, state, s), state),
                      s.epoch <= between.epoch, between.epoch <= state.epoch
               PROVE  between.authority_root = state.authority_root
    BY Zenon DEF SignatureOutdated
  <2>1. s.authority_root = state.authority_root
    BY DEF validate_capability, ProofFits, SignedFor, KeptProof, capability_proof,
       capability_issuance_signing_message
  <2>2. PICK a \in DOMAIN states, b \in DOMAIN states, c \in DOMAIN states :
            s = states[a] /\ between = states[b] /\ state = states[c]
    BY DEF Published
  <2>3. StatesInv /\ states \in Seq(AuthorityState)
    BY DEF CustodyInv, StatesInv
  <2>4. s.epoch = a - 1 /\ between.epoch = b - 1 /\ state.epoch = c - 1
    BY <2>2, <2>3 DEF StatesInv
  <2>5. a \in Nat /\ b \in Nat /\ c \in Nat
    BY <2>3
  <2>6. a <= b /\ b <= c
    BY <2>4, <2>5
  <2>7. /\ Prefix(s.authority_root, between.authority_root)
        /\ Prefix(between.authority_root, state.authority_root)
    BY <2>2, <2>3, <2>6 DEF StatesInv
  <2>8. between \in AuthorityState /\ state \in AuthorityState
    BY <2>2, <2>3
  <2>9. between.authority_root \in Seq(caps) /\ state.authority_root \in Seq(caps)
    BY <2>8 DEF AuthorityState
  <2> QED
    BY <2>1, <2>7, <2>9 DEF Prefix
<1> QED
  BY <1>1, CustodyInvariant, PTL

(* What a new state needs to let a capability be used, in terms of the old. *)
LEMMA UsableIf ==
    ASSUME NEW cap
    PROVE  Usable(cap) <=> /\ cap.delegation_depth > 0 <=> cap.parent_stamp # Zero
                           /\ Contains(CurrentState.authority_root, cap)
                           /\ cap \notin CurrentState.revocation_root
                           /\ InWindow(CurrentState.epoch, cap)
BY DEF Usable, inclusion_proof, non_revocation_witness, sign_capability_issuance,
       validate_capability, ProofFits, SignedFor, KeptProof, capability_proof,
       capability_issuance_signing_message

(* After a Publish the current state is the published one. *)
LEMMA NowCurrent ==
    ASSUME StatesInv, NEW root, NEW revoked, Publish(root, revoked)
    PROVE  /\ CurrentState'.authority_root = root
           /\ CurrentState'.revocation_root = revoked
<1> DEFINE new == [epoch |-> NextEpoch, authority_root |-> root, revocation_root |-> revoked]
<1>1. states' = Append(states, new)
  BY DEF Publish
<1>2. states \in Seq(AuthorityState)
  BY DEF StatesInv
<1>3. new.authority_root = root /\ new.revocation_root = revoked
  OBVIOUS
<1> HIDE DEF new
<1>4. CurrentState' = new
  BY <1>1, <1>2 DEF CurrentState, Last
<1> QED
  BY <1>3, <1>4

(***************************************************************************)
(* RevokesOnlyItself: what stops a capability from being used is its own   *)
(* revocation or the end of its window, not the revocation of its parent   *)
(* (revoke_capability_and_commit, validate_capability).                    *)
(***************************************************************************)
THEOREM RevocationStopsThere == CSpec => RevokesOnlyItself
<1> DEFINE OnlyItself == \A cap \in caps :
                       Usable(cap) /\ ~Usable(cap)' =>
                           \/ revoke_capability_and_commit(cap)
                           \/ ~InWindow(CurrentState.epoch, cap)'
<1>1. CustodyInv /\ CNext => OnlyItself
  <2> SUFFICES ASSUME CustodyInv, CNext, NEW cap \in caps, Usable(cap),
                      ~revoke_capability_and_commit(cap), InWindow(CurrentState'.epoch, cap)
               PROVE  Usable(cap)'
    BY DEF InWindow
  <2>1. StatesInv
    BY DEF CustodyInv
  <2>2. /\ cap.delegation_depth > 0 <=> cap.parent_stamp # Zero
        /\ Contains(CurrentState.authority_root, cap)
        /\ cap \notin CurrentState.revocation_root
    BY UsableIf
  <2>3. SUFFICES /\ Contains(CurrentState'.authority_root, cap)
                 /\ cap \notin CurrentState'.revocation_root
    BY <2>2, Zenon DEF Usable, inclusion_proof, non_revocation_witness, sign_capability_issuance,
                       validate_capability, ProofFits, SignedFor, KeptProof, capability_proof,
                       capability_issuance_signing_message, InWindow
  <2>4. CASE UNCHANGED states
    BY <2>2, <2>4 DEF CurrentState
  <2>5. ASSUME NEW c \in caps, issue_capability_and_commit(c)
        PROVE  /\ Contains(CurrentState'.authority_root, cap)
               /\ cap \notin CurrentState'.revocation_root
    <3>1. CurrentState.authority_root \in Seq(caps)
      BY <2>1, Current DEF AuthorityState
    <3>2. /\ CurrentState'.authority_root = add_capability(CurrentState.authority_root, c)
          /\ CurrentState'.revocation_root = CurrentState.revocation_root
      BY <2>1, <2>5, NowCurrent DEF issue_capability_and_commit
    <3> QED
      BY <2>2, <3>1, <3>2, AddedAtEnd
  <2>6. ASSUME NEW c \in caps, revoke_capability_and_commit(c)
        PROVE  /\ Contains(CurrentState'.authority_root, cap)
               /\ cap \notin CurrentState'.revocation_root
    <3>1. c # cap
      BY <2>6
    <3>2. /\ CurrentState'.authority_root = CurrentState.authority_root
          /\ CurrentState'.revocation_root = CurrentState.revocation_root \cup {c}
      BY <2>1, <2>6, NowCurrent DEF revoke_capability_and_commit, revoke_stamp
    <3> QED
      BY <2>2, <3>1, <3>2
  <2> QED
    BY <2>4, <2>5, <2>6 DEF CNext
<1> HIDE DEF OnlyItself
<1>2. CSpec => [][OnlyItself]_cvars
  BY <1>1, CustodyInvariant, PTL DEF CSpec
<1> QED
  BY <1>2 DEF RevokesOnlyItself, OnlyItself
===============================================================================
