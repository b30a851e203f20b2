---------------------------- MODULE Verifier_proofs ----------------------------
(***************************************************************************)
(* The verifier accepts one state per epoch, for any states, proofs,       *)
(* certificates, keys and order of registration.  The invariant needed is  *)
(* only that certificates are those registered and threshold evidence is a *)
(* set of partials with the round's threshold and keys; the rest is what   *)
(* the checks leave no room for.                                           *)
(***************************************************************************)
EXTENDS Verifier, FiniteSetTheorems, TLAPS

------------------------------------------------------------------------------
(***************************************************************************)
(* Threshold rounds (module Tsig) for any number of participants, any      *)
(* threshold and any sequence of partials.                                 *)
(***************************************************************************)
PartialsOK == partials \in Seq(Partial)

(* There are as many indices as keys. *)
LEMMA IndicesCount ==
    ASSUME NEW K, NEW keys \in Seq(K)
    PROVE  IsFiniteSet(Indices(keys)) /\ Cardinality(Indices(keys)) = Len(keys)
<1>1. Len(keys) \in Nat /\ 0 \in Int /\ Len(keys) - 1 \in Int
  OBVIOUS
<1>2. /\ IsFiniteSet(Indices(keys))
      /\ Cardinality(Indices(keys)) = IF 0 > Len(keys) - 1 THEN 0 ELSE Len(keys) - 1 - 0 + 1
  BY <1>1, FS_Interval, Zenon DEF Indices
<1> QED BY <1>1, <1>2

(* valid_count is a number. *)
LEMMA CountedFinite ==
    ASSUME NEW K, NEW keys \in Seq(K), NEW set, NEW state
    PROVE  /\ IsFiniteSet(Counted(state, set, keys))
           /\ valid_count(state, set, keys) \in Nat
<1>1. Counted(state, set, keys) \subseteq Indices(keys)
  BY DEF Counted
<1>2. IsFiniteSet(Counted(state, set, keys))
  BY <1>1, IndicesCount, FS_Subset
<1> QED BY <1>2, FS_CardinalityType DEF valid_count

(***************************************************************************)
(* tsig_sign and ThresholdSignatureSet::add keep the partials well formed. *)
(***************************************************************************)
THEOREM PartialsTyped == Spec => []PartialsOK
<1>1. Init => PartialsOK
  BY DEF Init, PartialsOK
<1>2. PartialsOK /\ [Next]_partials => PartialsOK'
  <2> SUFFICES ASSUME PartialsOK, [Next]_partials PROVE PartialsOK'
    OBVIOUS
  <2>1. CASE UNCHANGED partials
    BY <2>1 DEF PartialsOK
  <2>2. ASSUME NEW state \in State, NEW key \in Key, NEW i \in 0 .. n, add(state, key, i)
        PROVE  PartialsOK'
    <3>1. i \in Nat
      BY KeysAssumption DEF n
    <3>2. tsig_sign(state, key, i) \in Partial
      BY <3>1 DEF tsig_sign, Partial
    <3> QED BY <2>2, <3>2 DEF PartialsOK, add
  <2> QED BY <2>1, <2>2 DEF Next
<1> QED BY <1>1, <1>2, PTL DEF Spec

(* The seen vector: an index counts for one state. *)
LEMMA IndexSpeaksOnce ==
    ASSUME NEW set \in Seq(Partial), NEW keys, NEW s1, NEW s2, s1 # s2
    PROVE  Counted(s1, set, keys) \cap Counted(s2, set, keys) = {}
<1> SUFFICES ASSUME NEW i \in Counted(s1, set, keys), i \in Counted(s2, set, keys)
             PROVE  FALSE
  OBVIOUS
<1>1. PICK k \in DOMAIN set : /\ set[k].signer_index = i
                              /\ IsFirst(set, k)
                              /\ Verifies(s1, set[k], keys)
  BY DEF Counted
<1>2. PICK j \in DOMAIN set : /\ set[j].signer_index = i
                              /\ IsFirst(set, j)
                              /\ Verifies(s2, set[j], keys)
  BY DEF Counted
<1>3. k \in Nat \ {0} /\ j \in Nat \ {0}
  OBVIOUS
<1>4. k = j
  BY <1>1, <1>2, <1>3 DEF IsFirst
<1> QED BY <1>1, <1>2, <1>4 DEF Verifies

(* Two states, one set: a majority cannot have counted for both. *)
LEMMA SetCertifiesOne ==
    ASSUME NEW set \in Seq(Partial), NEW keys \in Seq(Key), NEW t \in Nat, 2 * t > Len(keys),
           NEW s1, NEW s2, tsig_verify(s1, set, t, keys), tsig_verify(s2, set, t, keys)
    PROVE  s1 = s2
<1> SUFFICES ASSUME s1 # s2 PROVE FALSE
  OBVIOUS
<1> DEFINE A == Counted(s1, set, keys)
           B == Counted(s2, set, keys)
<1>1. IsFiniteSet(A) /\ IsFiniteSet(B) /\ Cardinality(A) \in Nat /\ Cardinality(B) \in Nat
  BY CountedFinite DEF valid_count
<1>2. A \cap B = {}
  BY IndexSpeaksOnce
<1>3. A \cup B \subseteq Indices(keys)
  BY DEF Counted
<1>4. Cardinality(A) >= t /\ Cardinality(B) >= t
  BY DEF tsig_verify, valid_count
<1> HIDE DEF A, B
<1>5. Cardinality(A \cup B) = Cardinality(A) + Cardinality(B)
  <2>1. Cardinality(A \cup B) = Cardinality(A) + Cardinality(B) - Cardinality(A \cap B)
    BY <1>1, FS_Union
  <2>2. Cardinality(A \cap B) = 0
    BY <1>2, FS_EmptySet, Zenon
  <2> QED BY <1>1, <2>1, <2>2
<1>6. Cardinality(A \cup B) <= Len(keys)
  BY <1>3, IndicesCount, FS_Subset
<1>7. Len(keys) \in Nat
  OBVIOUS
<1> QED BY <1>1, <1>4, <1>5, <1>6, <1>7

(* One set of partials, one state. *)
LEMMA OneState == PartialsOK => OneStatePerSet
BY SetCertifiesOne, KeysAssumption, ThresholdAssumption DEF PartialsOK, OneStatePerSet, Certifies, n

(* Counted indices name different authorized signers. *)
LEMMA Sound == PartialsOK => ThresholdSound
<1> SUFFICES ASSUME PartialsOK, DistinctKeys, NEW state \in State,
                    Certifies(partials, state)
             PROVE  Cardinality(Signers(partials, state)) >= threshold
  BY DEF ThresholdSound
<1> DEFINE A == Counted(state, partials, authorized_keys)
           S == Signers(partials, state)
           f == [i \in A |-> authorized_keys[i + 1]]
           keys == {authorized_keys[i] : i \in 1 .. n}
           g == [i \in 1 .. n |-> authorized_keys[i]]
<1>1. IsFiniteSet(A) /\ Cardinality(A) \in Nat /\ Cardinality(A) >= threshold
  BY CountedFinite, KeysAssumption DEF Certifies, tsig_verify, valid_count
<1>2. IsFiniteSet(S)
  <2>1. IsFiniteSet(1 .. n)
    BY KeysAssumption, FS_Interval DEF n
  <2>2. IsFiniteSet(keys)
    <3>1. g \in Surjection(1 .. n, keys)
      BY DEF Surjection
    <3> QED BY <2>1, <3>1, FS_Surjection
  <2> QED BY <2>2, FS_Subset DEF Signers
<1>3. ASSUME NEW i \in A PROVE f[i] \in S
  <2>1. PICK k \in DOMAIN partials : /\ partials[k].signer_index = i
                                    /\ Verifies(state, partials[k], authorized_keys)
    BY DEF Counted
  <2>2. i + 1 \in 1 .. n /\ i \in Int
    BY <2>1, KeysAssumption DEF Verifies, Indices, n
  <2>3. authorized_keys[i + 1] = partials[k].key /\ partials[k].state = state
    BY <2>1 DEF Verifies
  <2> QED BY <2>2, <2>3 DEF Signers
<1>4. \A i, j \in A : f[i] = f[j] => i = j
  <2> SUFFICES ASSUME NEW i \in A, NEW j \in A, f[i] = f[j] PROVE i = j
    OBVIOUS
  <2>1. i \in Indices(authorized_keys) /\ j \in Indices(authorized_keys)
    BY DEF Counted
  <2>2. i + 1 \in 1 .. n /\ j + 1 \in 1 .. n /\ i \in Int /\ j \in Int
    BY <2>1, KeysAssumption DEF Indices, n
  <2>3. i + 1 = j + 1
    BY <2>2 DEF DistinctKeys
  <2> QED BY <2>2, <2>3
<1> HIDE DEF A, S
<1>5. f \in Injection(A, S)
  BY <1>3, <1>4 DEF Injection, IsInjective
<1>6. Cardinality(A) <= Cardinality(S)
  BY <1>1, <1>2, <1>5, FS_Injection
<1>7. Cardinality(S) \in Nat
  BY <1>2, FS_CardinalityType
<1>8. Cardinality(S) >= threshold
  BY <1>1, <1>6, <1>7, ThresholdAssumption
<1> QED BY <1>8 DEF S

(***************************************************************************)
(* Acceptance by tsig_verify means t different authorized participants     *)
(* signed that state.                                                      *)
(***************************************************************************)
THEOREM AcceptanceIsSound == Spec => []ThresholdSound
BY PartialsTyped, Sound, PTL

(* What an index has said is not unsaid by what arrives later. *)
LEMMA CountedGrows ==
    ASSUME NEW set \in Seq(Partial), NEW p \in Partial, NEW keys \in Seq(Key), NEW state
    PROVE  Counted(state, set, keys) \subseteq Counted(state, Append(set, p), keys)
<1> SUFFICES ASSUME NEW i \in Counted(state, set, keys)
             PROVE  i \in Counted(state, Append(set, p), keys)
  OBVIOUS
<1>1. PICK k \in DOMAIN set : /\ set[k].signer_index = i
                              /\ IsFirst(set, k)
                              /\ Verifies(state, set[k], keys)
  BY DEF Counted
<1>2. k \in DOMAIN Append(set, p) /\ \A j \in 1 .. k : Append(set, p)[j] = set[j]
  OBVIOUS
<1>3. IsFirst(Append(set, p), k)
  BY <1>1, <1>2 DEF IsFirst
<1>4. k \in 1 .. k
  OBVIOUS
<1> QED BY <1>1, <1>2, <1>3, <1>4 DEF Counted

(* One more partial takes no acceptance away. *)
LEMMA AddedStaysAccepted ==
    ASSUME PartialsOK, NEW p \in Partial, partials' = Append(partials, p),
           NEW state, Certifies(partials, state)
    PROVE  Certifies(partials', state)
<1> DEFINE A == Counted(state, partials, authorized_keys)
           B == Counted(state, partials', authorized_keys)
<1>1. A \subseteq B
  BY CountedGrows, KeysAssumption DEF PartialsOK
<1>2. IsFiniteSet(B) /\ Cardinality(A) \in Nat /\ Cardinality(B) \in Nat
  BY CountedFinite, KeysAssumption DEF valid_count
<1>3. Cardinality(A) <= Cardinality(B)
  BY <1>1, <1>2, FS_Subset
<1>4. 0 < threshold /\ threshold <= Len(authorized_keys) /\ Cardinality(A) >= threshold
  BY DEF Certifies, tsig_verify, valid_count
<1>5. Cardinality(B) >= threshold
  BY <1>2, <1>3, <1>4, ThresholdAssumption
<1> QED BY <1>4, <1>5 DEF Certifies, tsig_verify, valid_count

------------------------------------------------------------------------------
(* The registry of evidence (module Verifier). *)
EvidenceFields == {"epoch_pk", "epoch_root_sig", "epoch_cert", "tsig"}

RoundFields == {"authorized_keys", "threshold", "partials"}

EntriesOK ==
    \A key \in DOMAIN entries :
        /\ IsRecord(entries[key], EvidenceFields)
        /\ entries[key].epoch_cert \in Certificate
        /\ entries[key].tsig # <<>> =>
            /\ entries[key].tsig = <<entries[key].tsig[1]>>
            /\ IsRecord(entries[key].tsig[1], RoundFields)
            /\ entries[key].tsig[1].partials \in Seq(Partial)
            /\ entries[key].tsig[1].threshold = threshold
            /\ entries[key].tsig[1].authorized_keys = authorized_keys

VInv == PartialsOK /\ EntriesOK

(* Well-formed evidence keeps the registry well formed. *)
LEMMA EntryAdded ==
    ASSUME VInv, NEW key, NEW evidence, add_entry(key, evidence),
           IsRecord(evidence, EvidenceFields), evidence.epoch_cert \in Certificate,
           evidence.tsig # <<>> =>
               /\ evidence.tsig = <<evidence.tsig[1]>>
               /\ IsRecord(evidence.tsig[1], RoundFields)
               /\ evidence.tsig[1].partials \in Seq(Partial)
               /\ evidence.tsig[1].threshold = threshold
               /\ evidence.tsig[1].authorized_keys = authorized_keys
    PROVE  VInv'
<1>1. PartialsOK'
  BY DEF VInv, PartialsOK, add_entry
<1>2. EntriesOK'
  <2> SUFFICES ASSUME NEW k \in DOMAIN entries'
               PROVE  /\ IsRecord(entries'[k], EvidenceFields)
                      /\ entries'[k].epoch_cert \in Certificate
                      /\ entries'[k].tsig # <<>> =>
                            /\ entries'[k].tsig = <<entries'[k].tsig[1]>>
                            /\ IsRecord(entries'[k].tsig[1], RoundFields)
                            /\ entries'[k].tsig[1].partials \in Seq(Partial)
                            /\ entries'[k].tsig[1].threshold = threshold
                            /\ entries'[k].tsig[1].authorized_keys = authorized_keys
    BY DEF EntriesOK
  <2>1. /\ DOMAIN entries' = DOMAIN entries \cup {key}
        /\ entries'[k] = IF k = key THEN evidence ELSE entries[k]
    BY DEF add_entry
  <2> QED BY <2>1 DEF VInv, EntriesOK
<1> QED BY <1>1, <1>2 DEF VInv

(* Every step keeps the partials and the registry well formed. *)
LEMMA VInvStep == VInv /\ [VNext]_vvars => VInv'
<1> SUFFICES ASSUME VInv, [VNext]_vvars PROVE VInv'
  OBVIOUS
<1>1. ASSUME NEW p \in Offered, add(p.state, p.key, p.signer_index), UNCHANGED entries
      PROVE  VInv'
  <2>1. tsig_sign(p.state, p.key, p.signer_index) \in Partial
    BY OfferedAssumption DEF tsig_sign, Partial
  <2>2. PartialsOK'
    BY <1>1, <2>1 DEF add, VInv, PartialsOK
  <2> QED BY <1>1, <2>2 DEF VInv, EntriesOK
<1>2. ASSUME NEW key \in RegistryKey, NEW cert \in Certificate, NEW s \in Signature,
             add_evidence(key, s.key, s, cert)
      PROVE  VInv'
  <2> DEFINE e == [epoch_pk |-> s.key, epoch_root_sig |-> s, epoch_cert |-> cert, tsig |-> <<>>]
  <2>1. add_entry(key, e) /\ e.tsig = <<>> /\ e.epoch_cert \in Certificate
    BY <1>2 DEF add_evidence
  <2>2. IsRecord(e, EvidenceFields)
    BY DEF IsRecord, EvidenceFields
  <2> HIDE DEF e
  <2> QED BY <2>1, <2>2, EntryAdded
<1>3. ASSUME NEW key \in RegistryKey, NEW cert \in Certificate,
             add_evidence_tsig(key, cert.epoch_pk, cert, partials, authorized_keys)
      PROVE  VInv'
  <2> DEFINE ts == [authorized_keys |-> authorized_keys, threshold |-> threshold,
                    partials |-> partials]
             e == [epoch_pk |-> cert.epoch_pk, epoch_root_sig |-> NoSignature,
                   epoch_cert |-> cert, tsig |-> <<ts>>]
  <2>1. /\ add_entry(key, e) /\ e.tsig = <<ts>> /\ e.tsig[1] = ts
        /\ e.epoch_cert \in Certificate
    BY <1>3 DEF add_evidence_tsig
  <2>2. ts.partials \in Seq(Partial)
    BY DEF VInv, PartialsOK
  <2>3. ts.threshold = threshold /\ ts.authorized_keys = authorized_keys
    OBVIOUS
  <2>4. IsRecord(e, EvidenceFields) /\ IsRecord(ts, RoundFields)
    BY DEF IsRecord, EvidenceFields, RoundFields
  <2> HIDE DEF ts, e
  <2> QED BY <2>1, <2>2, <2>3, <2>4, EntryAdded
<1>4. CASE UNCHANGED vvars
  BY <1>4 DEF vvars, VInv, PartialsOK, EntriesOK
<1> QED BY <1>1, <1>2, <1>3, <1>4 DEF VNext

(***************************************************************************)
(* The partials and the registry stay well formed, whoever sends and       *)
(* whatever is registered (add_evidence, add_evidence_tsig).               *)
(***************************************************************************)
THEOREM RegistryTyped == VSpec => []VInv
<1>1. VInit => VInv
  BY DEF VInit, Init, VInv, PartialsOK, EntriesOK
<1> QED BY <1>1, VInvStep, PTL DEF VSpec

(* What the certificate chain's signature covers. *)
LEMMA RootsSigned ==
    ASSUME VInv, 2 * threshold > n, NEW key \in DOMAIN entries, NEW s, NEW u,
           RootSigned(entries[key], s), RootSigned(entries[key], u)
    PROVE  Roots(s) = Roots(u)
<1> DEFINE e == entries[key]
<1>1. CASE e.tsig # <<>>
  <2>1. /\ e.tsig[1].partials \in Seq(Partial)
        /\ e.tsig[1].threshold = threshold
        /\ e.tsig[1].authorized_keys = authorized_keys
    BY <1>1 DEF VInv, EntriesOK
  <2>2. /\ tsig_verify(tsig_epoch_signing_message(s), e.tsig[1].partials, threshold, authorized_keys)
        /\ tsig_verify(tsig_epoch_signing_message(u), e.tsig[1].partials, threshold, authorized_keys)
    BY <1>1, <2>1 DEF RootSigned
  <2>3. tsig_epoch_signing_message(s) = tsig_epoch_signing_message(u)
    BY <2>1, <2>2, SetCertifiesOne, KeysAssumption, ThresholdAssumption DEF n
  <2> QED BY <2>3 DEF tsig_epoch_signing_message
<1>2. CASE e.tsig = <<>>
  <2>1. sign(e.epoch_cert.epoch_pk, epoch_root_signing_message(s))
          = sign(e.epoch_cert.epoch_pk, epoch_root_signing_message(u))
    BY <1>2 DEF RootSigned, verify_epoch_root_sig
  <2>2. epoch_root_signing_message(s) = epoch_root_signing_message(u)
    BY <2>1 DEF sign
  <2> QED BY <2>2 DEF epoch_root_signing_message
<1> QED BY <1>1, <1>2

(* A proof puts the state's leaf into the log that T_e commits to. *)
LEMMA LeafInLog ==
    ASSUME NEW s, NEW proof \in Proof, verify_transparency_proof(s, proof)
    PROVE  /\ proof.leaf_index \in DOMAIN s.transparency_root
           /\ s.transparency_root[proof.leaf_index] = transparency_leaf_hash(s)
BY PathsAssumption DEF verify_transparency_proof, merkle_root_from_proof

(* What the signature and the leaf cover is the whole state. *)
LEMMA LeavesAgree ==
    ASSUME NEW s, NEW u, NEW p \in Proof, NEW q \in Proof,
           verify_transparency_proof(s, p), verify_transparency_proof(u, q),
           Roots(s) = Roots(u), KeyOf(s) = KeyOf(u), OneLeafPerEpoch(s.transparency_root)
    PROVE  SameState(s, u)
<1> DEFINE T == s.transparency_root
<1>1. u.transparency_root = T
  BY DEF Roots
<1>2. /\ p.leaf_index \in DOMAIN T /\ T[p.leaf_index] = transparency_leaf_hash(s)
      /\ q.leaf_index \in DOMAIN T /\ T[q.leaf_index] = transparency_leaf_hash(u)
  BY <1>1, LeafInLog
<1>3. s.authority_id = u.authority_id /\ s.epoch = u.epoch
  BY DEF KeyOf
<1>4. p.leaf_index = q.leaf_index
  BY <1>2, <1>3 DEF OneLeafPerEpoch, transparency_leaf_hash
<1>5. s.revocation_count = u.revocation_count
  BY <1>2, <1>4 DEF transparency_leaf_hash
<1> QED BY <1>3, <1>5 DEF SameState

(***************************************************************************)
(* CryptoAuthorityVerifier::verify_state accepts at most one state for an  *)
(* authority's epoch, in every field it hands on but the trust anchor.     *)
(***************************************************************************)
THEOREM OneStateAccepted == VSpec => []AcceptedUnique
<1>1. VInv => AcceptedUnique
  <2> SUFFICES ASSUME VInv, 2 * threshold > n, NEW root_pk \in {<<>>, <<RootPk>>},
                      NEW s \in Covered(root_pk), NEW u \in Covered(root_pk),
                      KeyOf(s) = KeyOf(u), OneLeafPerEpoch(s.transparency_root)
               PROVE  SameState(s, u)
    BY DEF AcceptedUnique
  <2> DEFINE e == entries[KeyOf(s)]
  <2>1. PICK p \in Proof : verify_state(root_pk, s, p)
    BY DEF Covered
  <2>2. PICK q \in Proof : verify_state(root_pk, u, q)
    BY DEF Covered
  <2>3. /\ KeyOf(s) \in DOMAIN entries
        /\ Accepts(root_pk, e, s, p) /\ Accepts(root_pk, e, u, q)
    BY <2>1, <2>2 DEF verify_state
  <2>4. verify_transparency_proof(s, p) /\ verify_transparency_proof(u, q)
    BY <2>3 DEF Accepts
  <2>5. CASE root_pk # <<>>
    <3>1. RootSigned(e, s) /\ RootSigned(e, u)
      BY <2>3, <2>5 DEF Accepts
    <3>2. Roots(s) = Roots(u)
      BY <2>3, <3>1, RootsSigned
    <3> QED BY <2>4, <3>2, LeavesAgree
  <2>6. CASE root_pk = <<>>
    <3>1. sign(e.epoch_pk, authority_state_signing_message(s))
            = sign(e.epoch_pk, authority_state_signing_message(u))
      BY <2>3, <2>6 DEF Accepts
    <3>2. authority_state_signing_message(s) = authority_state_signing_message(u)
      BY <3>1 DEF sign
    <3> QED BY <3>2 DEF authority_state_signing_message, SameState
  <2> QED BY <2>5, <2>6
<1> QED BY <1>1, RegistryTyped, PTL

(***************************************************************************)
(* ThresholdSound, while evidence is being registered: what tsig_verify    *)
(* accepts was signed by t different authorized participants.              *)
(***************************************************************************)
THEOREM RoundIsSound == VSpec => []ThresholdSound
<1>1. VInv => PartialsOK
  BY DEF VInv
<1> QED BY <1>1, RegistryTyped, Sound, PTL

(***************************************************************************)
(* A majority threshold certifies at most one state per set of partials    *)
(* (the seen vector of tsig_verify), whatever is registered meanwhile.     *)
(***************************************************************************)
THEOREM MajorityCertifiesOne == VSpec => []OneStatePerSet
<1>1. VInv => PartialsOK
  BY DEF VInv
<1> QED BY <1>1, RegistryTyped, OneState, PTL

(***************************************************************************)
(* A set that tsig_verify accepts is accepted whatever is added to it, and *)
(* whatever is registered meanwhile.                                       *)
(***************************************************************************)
THEOREM AcceptanceLasts == VSpec => AcceptanceStable
<1>1. VInv /\ [VNext]_vvars
        => [\A state \in State : Certifies(partials, state) => Certifies(partials', state)]_partials
  <2> SUFFICES ASSUME VInv, [VNext]_vvars, partials' # partials,
                      NEW state \in State, Certifies(partials, state)
               PROVE  Certifies(partials', state)
    OBVIOUS
  <2>1. PICK p \in Offered : add(p.state, p.key, p.signer_index)
    BY DEF VNext, vvars, add_evidence, add_evidence_tsig, add_entry
  <2>2. tsig_sign(p.state, p.key, p.signer_index) \in Partial
    BY OfferedAssumption DEF tsig_sign, Partial
  <2> QED BY <2>1, <2>2, AddedStaysAccepted DEF add, VInv
<1> QED BY <1>1, RegistryTyped, PTL DEF VSpec, AcceptanceStable

(***************************************************************************)
(* CertWindow: the window test of verify_state, whose sum saturates, is    *)
(* the plain one for every epoch but U64_MAX, which it refuses.  (The      *)
(* proof shows that the test decides; what it says before the              *)
(* certificate's epoch is not part of the theorem.)                        *)
(***************************************************************************)
THEOREM WindowEnds == VSpec => []CertWindow
<1>1. VInv => CertWindow
  <2> SUFFICES ASSUME VInv, NEW s \in AuthorityState, NEW proof \in Proof,
                      KeyOf(s) \in DOMAIN entries,
                      RootSigned(entries[KeyOf(s)], s),
                      verify_epoch_cert(RootPk, entries[KeyOf(s)].epoch_cert),
                      verify_transparency_proof(s, proof)
               PROVE  verify_state(<<RootPk>>, s, proof)
                      <=> /\ s.epoch < entries[KeyOf(s)].epoch_cert.epoch
                                        + entries[KeyOf(s)].epoch_cert.validity_window
                          /\ s.epoch # U64_MAX
    BY Zenon DEF CertWindow
  <2> DEFINE cert == entries[KeyOf(s)].epoch_cert
  <2>1. cert \in Certificate
    BY DEF VInv, EntriesOK
  <2> HIDE DEF cert
  <2>2. NotExpired(cert, s) <=> s.epoch < cert.epoch + cert.validity_window /\ s.epoch # U64_MAX
    BY <2>1, EpochsAssumption DEF NotExpired, saturating_add
  <2>3. <<RootPk>> # <<>> /\ <<RootPk>>[1] = RootPk
    OBVIOUS
  <2>4. verify_state(<<RootPk>>, s, proof) <=> NotExpired(cert, s)
    BY <2>3 DEF verify_state, Accepts, cert
  <2> QED
    BY <2>2, <2>4 DEF cert
<1> QED BY <1>1, RegistryTyped, PTL

------------------------------------------------------------------------------
(* With as many valid indices as partials, every partial is one of them. *)
LEMMA NoneToSpare ==
    ASSUME NEW S, NEW set \in Seq(S), NEW K, NEW keys \in Seq(K), NEW state,
           valid_count(state, set, keys) >= Len(set)
    PROVE  \A k \in DOMAIN set : IsFirst(set, k) /\ Verifies(state, set[k], keys)
<1> SUFFICES ASSUME NEW k \in DOMAIN set, ~(IsFirst(set, k) /\ Verifies(state, set[k], keys))
             PROVE  FALSE
  OBVIOUS
<1> DEFINE A == Counted(state, set, keys)
           D == 1 .. Len(set)
           E == D \ {k}
           Good(i, j) == /\ set[j].signer_index = i
                         /\ IsFirst(set, j)
                         /\ Verifies(state, set[j], keys)
           f == [i \in A |-> CHOOSE j \in D : Good(i, j)]
<1>1. Len(set) \in Nat /\ DOMAIN set = D
  OBVIOUS
<1>2. IsFiniteSet(A) /\ Cardinality(A) \in Nat /\ Cardinality(A) >= Len(set)
  BY CountedFinite DEF valid_count
<1>3. ASSUME NEW i \in A PROVE f[i] \in E /\ set[f[i]].signer_index = i
  <2>1. \E j \in D : Good(i, j)
    BY <1>1 DEF Counted
  <2>2. f[i] \in D /\ Good(i, f[i])
    BY <2>1, Zenon
  <2>3. f[i] # k
    BY <2>2
  <2> QED BY <2>2, <2>3
<1>4. IsFiniteSet(E) /\ Cardinality(E) \in Nat /\ Cardinality(E) < Len(set)
  <2>1. IsFiniteSet(D) /\ Cardinality(D) = Len(set)
    <3>1. 1 \in Int /\ Len(set) \in Int
      BY <1>1
    <3>2. IsFiniteSet(D) /\ Cardinality(D) = IF 1 > Len(set) THEN 0 ELSE Len(set) - 1 + 1
      BY <3>1, FS_Interval, Zenon
    <3> QED BY <1>1, <3>2
  <2>2. k \in D
    BY <1>1
  <2> HIDE DEF D
  <2>3. IsFiniteSet(E) /\ Cardinality(E) = Cardinality(D) - 1
    BY <2>1, <2>2, FS_RemoveElement, Zenon
  <2> QED BY <1>1, <2>1, <2>3, FS_CardinalityType
<1> HIDE DEF A, E
<1>5. f \in Injection(A, E)
  <2>1. f \in [A -> E]
    BY <1>3
  <2>2. ASSUME NEW i \in A, NEW j \in A, f[i] = f[j] PROVE i = j
    BY <1>3, <2>2, Zenon
  <2> HIDE DEF f
  <2> QED BY <2>1, <2>2 DEF Injection, IsInjective
<1>6. Cardinality(A) <= Cardinality(E)
  BY <1>4, <1>5, FS_Injection
<1> QED BY <1>1, <1>2, <1>4, <1>6

(* The same of a set that tsig_verify accepts with no partial to spare. *)
LEMMA AllSpeak ==
    ASSUME NEW S, NEW set \in Seq(S), NEW K, NEW keys \in Seq(K), NEW state,
           NEW t \in Nat, t = Len(set), tsig_verify(state, set, t, keys)
    PROVE  \A k \in DOMAIN set : IsFirst(set, k) /\ Verifies(state, set[k], keys)
BY NoneToSpare DEF tsig_verify

(* A certificate with another epoch or window under the same signature is refused. *)
LEMMA CertBinds ==
    ASSUME NEW root, NEW cert, NEW other, verify_epoch_cert(root, cert),
           verify_epoch_cert(root, other), other.signature = cert.signature
    PROVE  other.epoch = cert.epoch /\ other.validity_window = cert.validity_window
<1>1. sign(root, epoch_cert_signing_message(other.epoch_pk, other.epoch, other.validity_window))
        = sign(root, epoch_cert_signing_message(cert.epoch_pk, cert.epoch, cert.validity_window))
  BY DEF verify_epoch_cert
<1>2. epoch_cert_signing_message(other.epoch_pk, other.epoch, other.validity_window)
        = epoch_cert_signing_message(cert.epoch_pk, cert.epoch, cert.validity_window)
  BY <1>1 DEF sign
<1> QED BY <1>2 DEF epoch_cert_signing_message

(* Setting a field to the value it has changes nothing. *)
LEMMA SameField ==
    ASSUME NEW r, NEW fields, NEW f \in fields, IsRecord(r, fields)
    PROVE  [r EXCEPT ![f] = r[f]] = r
BY DEF IsRecord

(* What acceptance with an offline root key takes. *)
LEMMA AcceptParts ==
    ASSUME NEW e, NEW s, NEW proof, Accepts(<<RootPk>>, e, s, proof)
    PROVE  /\ verify_epoch_cert(RootPk, e.epoch_cert)
           /\ RootSigned(e, s)
           /\ verify_transparency_proof(s, proof)
<1>1. <<RootPk>> # <<>> /\ <<RootPk>>[1] = RootPk
  OBVIOUS
<1> QED BY <1>1, Zenon DEF Accepts

(* A round that decides, in evidence that carries one. *)
LEMMA RoundDecides ==
    ASSUME NEW e, NEW s, NEW ts, e.tsig = <<ts>>, RootSigned(e, s)
    PROVE  tsig_verify(tsig_epoch_signing_message(s), ts.partials, ts.threshold, ts.authorized_keys)
<1>1. e.tsig # <<>> /\ e.tsig[1] = ts
  OBVIOUS
<1> QED BY <1>1, Zenon DEF RootSigned

(* The changes to the threshold. *)
LEMMA ThresholdChanged ==
    ASSUME NEW ts, IsRecord(ts, RoundFields), ts.authorized_keys \in Seq(Key), NEW state,
           NEW t, t = 0 \/ t = Len(ts.authorized_keys) + 1, NEW u, u = [ts EXCEPT !.threshold = t]
    PROVE  ~tsig_verify(state, u.partials, u.threshold, u.authorized_keys)
<1>1. u.threshold = t /\ u.authorized_keys = ts.authorized_keys
  BY DEF IsRecord, RoundFields
<1>2. Len(ts.authorized_keys) \in Nat
  OBVIOUS
<1> QED BY <1>1, <1>2 DEF tsig_verify

(* The second partial under the index of the first. *)
LEMMA IndexRepeated ==
    ASSUME NEW ts, IsRecord(ts, RoundFields), ts.partials \in Seq(Partial),
           ts.authorized_keys \in Seq(Key), ts.threshold \in Nat,
           Len(ts.partials) = ts.threshold, ts.threshold > 1, NEW state, NEW u,
           u = [ts EXCEPT !.partials[2].signer_index = ts.partials[1].signer_index]
    PROVE  ~tsig_verify(state, u.partials, u.threshold, u.authorized_keys)
<1> DEFINE set == ts.partials
           two == [set[2] EXCEPT !.signer_index = set[1].signer_index]
           new == [set EXCEPT ![2] = two]
<1>1. u.threshold = ts.threshold /\ u.authorized_keys = ts.authorized_keys /\ u.partials = new
  BY DEF IsRecord, RoundFields
<1>2. 1 \in DOMAIN set /\ 2 \in DOMAIN set /\ set[1] \in Partial /\ set[2] \in Partial
  OBVIOUS
<1>3. two \in Partial /\ two.signer_index = set[1].signer_index
  BY <1>2, Zenon DEF Partial
<1> HIDE DEF two
<1>4. new \in Seq(Partial) /\ Len(new) = Len(set) /\ new[1] = set[1] /\ new[2] = two
  BY <1>2, <1>3
<1> HIDE DEF new, set
<1> SUFFICES ASSUME tsig_verify(state, new, ts.threshold, ts.authorized_keys) PROVE FALSE
  BY <1>1, Zenon
<1>5. 2 \in DOMAIN new /\ 1 \in 1 .. 2 - 1
  BY <1>4 DEF set
<1>6. Len(new) = ts.threshold
  BY <1>4 DEF set
<1>7. IsFirst(new, 2)
  BY <1>4, <1>5, <1>6, AllSpeak
<1> QED BY <1>3, <1>4, <1>5, <1>7 DEF IsFirst

(* The second partial over something that is no state. *)
LEMMA PartialChanged ==
    ASSUME NEW ts, IsRecord(ts, RoundFields), ts.partials \in Seq(Partial),
           ts.authorized_keys \in Seq(Key), ts.threshold \in Nat,
           Len(ts.partials) = ts.threshold, ts.threshold > 1, NEW s, NEW u,
           u = [ts EXCEPT !.partials[2].state = <<"changed">>]
    PROVE  ~tsig_verify(tsig_epoch_signing_message(s), u.partials, u.threshold, u.authorized_keys)
<1> DEFINE set == ts.partials
           two == [set[2] EXCEPT !.state = <<"changed">>]
           new == [set EXCEPT ![2] = two]
<1>1. u.threshold = ts.threshold /\ u.authorized_keys = ts.authorized_keys /\ u.partials = new
  BY DEF IsRecord, RoundFields
<1>2. 2 \in DOMAIN set /\ set[2] \in Partial
  OBVIOUS
<1>3. two.state = <<"changed">>
  BY <1>2 DEF Partial
<1> HIDE DEF two
<1>4. new \in Seq(Partial \cup {two}) /\ Len(new) = Len(set) /\ new[2] = two
  BY <1>2
<1> HIDE DEF new, set
<1> SUFFICES ASSUME tsig_verify(tsig_epoch_signing_message(s), new, ts.threshold, ts.authorized_keys)
             PROVE  FALSE
  BY <1>1, Zenon
<1>5. 2 \in DOMAIN new /\ Len(new) = ts.threshold
  BY <1>4 DEF set
<1>6. Verifies(tsig_epoch_signing_message(s), new[2], ts.authorized_keys)
  BY <1>4, <1>5, AllSpeak
<1>7. <<"changed">> = tsig_epoch_signing_message(s)
  BY <1>3, <1>4, <1>6, Zenon DEF Verifies
<1>8. 2 \in DOMAIN tsig_epoch_signing_message(s)
  BY DEF tsig_epoch_signing_message
<1>9. 2 \notin DOMAIN <<"changed">>
  OBVIOUS
<1> QED BY <1>7, <1>8, <1>9, Zenon

(* Another key in the place of the second partial's signer. *)
LEMMA KeyChanged ==
    ASSUME NEW ts, IsRecord(ts, RoundFields), ts.partials \in Seq(Partial),
           ts.authorized_keys \in Seq(Key), ts.threshold \in Nat,
           Len(ts.partials) = ts.threshold, ts.threshold > 1, NEW state, NEW u,
           u = [ts EXCEPT !.authorized_keys[ts.partials[2].signer_index + 1] = "changed"],
           tsig_verify(state, ts.partials, ts.threshold, ts.authorized_keys),
           tsig_verify(state, u.partials, u.threshold, u.authorized_keys)
    PROVE  u = ts
<1> DEFINE set  == ts.partials
           keys == ts.authorized_keys
           i    == set[2].signer_index + 1
           new  == [keys EXCEPT ![i] = "changed"]
<1>1. /\ u.threshold = ts.threshold /\ u.authorized_keys = new /\ u.partials = set
      /\ u = [ts EXCEPT !.authorized_keys = new]
  BY DEF IsRecord, RoundFields
<1>2. 2 \in DOMAIN set
  OBVIOUS
<1>3. Verifies(state, set[2], keys)
  BY <1>2, AllSpeak
<1>4. i \in DOMAIN keys /\ set[2].key = keys[i]
  BY <1>3 DEF Verifies, Indices
<1>5. new \in Seq(Key \cup {"changed"}) /\ new[i] = "changed"
  BY <1>4
<1>6. Verifies(state, set[2], new)
  <2> HIDE DEF new, set
  <2>1. set \in Seq(Partial) /\ ts.threshold = Len(set)
    BY DEF set
  <2>2. tsig_verify(state, set, ts.threshold, new)
    BY <1>1
  <2> QED BY <1>2, <1>5, <2>1, <2>2, AllSpeak
<1>7. keys[i] = "changed"
  BY <1>4, <1>5, <1>6 DEF Verifies
<1>8. new = keys
  BY <1>7
<1> QED
  <2>1. u = [ts EXCEPT !.authorized_keys = ts.authorized_keys]
    BY <1>1, <1>8
  <2>2. "authorized_keys" \in RoundFields
    BY DEF RoundFields
  <2> QED BY <2>1, <2>2, SameField, Zenon

(* Another epoch, or another window, in the certificate. *)
LEMMA CertChanged ==
    ASSUME NEW e, IsRecord(e, EvidenceFields), e.epoch_cert \in Certificate,
           NEW f \in {"epoch", "validity_window"}, NEW v, NEW u,
           u = [e EXCEPT !.epoch_cert = [e.epoch_cert EXCEPT ![f] = v]],
           verify_epoch_cert(RootPk, e.epoch_cert), verify_epoch_cert(RootPk, u.epoch_cert)
    PROVE  u = e
<1> DEFINE cert  == e.epoch_cert
           other == [cert EXCEPT ![f] = v]
           fields == {"epoch_pk", "epoch", "validity_window", "signature"}
<1>1. IsRecord(cert, fields) /\ f \in fields
  BY RecordsAssumption
<1>2. u.epoch_cert = other
  BY DEF IsRecord, EvidenceFields
<1>3. other.signature = cert.signature /\ other[f] = v
  BY <1>1 DEF IsRecord
<1>4. other[f] = cert[f]
  <2> HIDE DEF cert, other
  <2>1. other.epoch = cert.epoch /\ other.validity_window = cert.validity_window
    BY <1>2, <1>3, CertBinds DEF cert
  <2> QED BY <2>1
<1>5. other = cert
  <2>1. other = [cert EXCEPT ![f] = cert[f]]
    BY <1>3, <1>4
  <2> HIDE DEF cert, other, fields
  <2> QED BY <1>1, <2>1, SameField, Zenon
<1>6. u = [e EXCEPT !.epoch_cert = e.epoch_cert]
  BY <1>5
<1>7. "epoch_cert" \in EvidenceFields
  BY DEF EvidenceFields
<1> QED BY <1>6, <1>7, SameField, Zenon

(* Another previous hash in the state. *)
LEMMA StateChanged ==
    ASSUME NEW ts, ts.partials \in Seq(Partial), ts.authorized_keys \in Seq(Key),
           ts.threshold \in Nat, Len(ts.partials) = ts.threshold, ts.threshold > 1,
           NEW s \in AuthorityState, NEW v, NEW u, u = [s EXCEPT !.prev_epoch_hash = v],
           tsig_verify(tsig_epoch_signing_message(s), ts.partials, ts.threshold, ts.authorized_keys),
           tsig_verify(tsig_epoch_signing_message(u), ts.partials, ts.threshold, ts.authorized_keys)
    PROVE  u = s
<1> DEFINE fields == {"authority_root", "revocation_root", "transparency_root", "epoch",
                      "authority_id", "revocation_count", "prev_epoch_hash"}
<1>1. IsRecord(s, fields) /\ "prev_epoch_hash" \in fields
  BY RecordsAssumption
<1>2. 1 \in DOMAIN ts.partials
  OBVIOUS
<1>3. /\ Verifies(tsig_epoch_signing_message(s), ts.partials[1], ts.authorized_keys)
      /\ Verifies(tsig_epoch_signing_message(u), ts.partials[1], ts.authorized_keys)
  BY <1>2, AllSpeak
<1>4. tsig_epoch_signing_message(s) = tsig_epoch_signing_message(u)
  BY <1>3 DEF Verifies
<1>5. Roots(s) = Roots(u)
  BY <1>4 DEF tsig_epoch_signing_message
<1>6. s.prev_epoch_hash = u.prev_epoch_hash
  BY <1>5 DEF Roots
<1>7. u.prev_epoch_hash = v
  BY <1>1 DEF IsRecord
<1>8. u = [s EXCEPT !.prev_epoch_hash = s.prev_epoch_hash]
  BY <1>6, <1>7
<1> HIDE DEF fields
<1> QED BY <1>1, <1>8, SameField, Zenon

(* Another leaf in the proof. *)
LEMMA LeafChanged ==
    ASSUME NEW s, NEW proof \in Proof, NEW leaf, NEW u, u = [proof EXCEPT !.leaf_hash = leaf],
           verify_transparency_proof(s, proof), verify_transparency_proof(s, u)
    PROVE  u = proof
<1> DEFINE fields == {"leaf_hash", "leaf_index", "siblings"}
<1>1. IsRecord(proof, fields) /\ "leaf_hash" \in fields
  BY RecordsAssumption
<1>2. u.leaf_hash = leaf
  BY <1>1 DEF IsRecord
<1>3. u.leaf_hash = proof.leaf_hash
  BY Zenon DEF verify_transparency_proof
<1>4. u = [proof EXCEPT !.leaf_hash = proof.leaf_hash]
  BY <1>2, <1>3
<1> HIDE DEF fields
<1> QED BY <1>1, <1>4, SameField, Zenon

(***************************************************************************)
(* verify_state refuses threshold evidence without a signature to spare    *)
(* once the threshold, a partial, a key, the certificate, the state or the *)
(* proof is another: for any keys, certificates, states and logs.          *)
(***************************************************************************)
THEOREM NoChangeAccepted == VSpec => []ChangesRejected
<1>1. VInv => ChangesRejected
  <2> SUFFICES ASSUME VInv, NEW key \in DOMAIN entries, NEW s \in AuthorityState,
                      NEW proof \in Proof, KeyOf(s) = key, entries[key].tsig # <<>>,
                      Len(entries[key].tsig[1].partials) = threshold, threshold > 1,
                      verify_state(<<RootPk>>, s, proof),
                      NEW c \in Changed(entries[key], s, proof),
                      Accepts(<<RootPk>>, c[1], c[2], c[3])
               PROVE  c = <<entries[key], s, proof>>
    BY Zenon DEF ChangesRejected
  <2> DEFINE e  == entries[key]
             ts == e.tsig[1]
  <2>1. /\ IsRecord(e, EvidenceFields) /\ e.epoch_cert \in Certificate
        /\ e.tsig = <<ts>> /\ IsRecord(ts, RoundFields)
        /\ ts.partials \in Seq(Partial)
        /\ ts.threshold = threshold /\ ts.authorized_keys = authorized_keys
    BY Zenon DEF VInv, EntriesOK
  <2>2. /\ ts.authorized_keys \in Seq(Key) /\ ts.threshold \in Nat
        /\ Len(ts.partials) = ts.threshold /\ ts.threshold > 1
    BY <2>1, KeysAssumption, ThresholdAssumption
  <2>3. Accepts(<<RootPk>>, e, s, proof)
    BY Zenon DEF verify_state
  <2>4. /\ verify_epoch_cert(RootPk, e.epoch_cert)
        /\ RootSigned(e, s)
        /\ verify_transparency_proof(s, proof)
    BY <2>3, AcceptParts, Zenon
  <2>5. tsig_verify(tsig_epoch_signing_message(s), ts.partials, ts.threshold, ts.authorized_keys)
    BY <2>1, <2>4, RoundDecides, Zenon
  <2>6. /\ verify_epoch_cert(RootPk, c[1].epoch_cert)
        /\ RootSigned(c[1], c[2])
        /\ verify_transparency_proof(c[2], c[3])
    BY AcceptParts, Zenon
  <2>7. ASSUME NEW u, c = <<WithTsig(e, u), s, proof>>
        PROVE  /\ tsig_verify(tsig_epoch_signing_message(s), u.partials, u.threshold, u.authorized_keys)
               /\ u = ts => c = <<e, s, proof>>
    <3> DEFINE w == WithTsig(e, u)
    <3>1. c[1] = w /\ c[2] = s
      BY <2>7
    <3>2. w.tsig = <<u>>
      BY <2>1 DEF WithTsig, IsRecord, EvidenceFields
    <3>3. RootSigned(w, s)
      BY <2>6, <3>1, Zenon
    <3>4. ASSUME u = ts PROVE w = e
      <4>1. w = [e EXCEPT !.tsig = e.tsig]
        BY <2>1, <3>4 DEF WithTsig
      <4>2. "tsig" \in EvidenceFields
        BY DEF EvidenceFields
      <4> HIDE DEF w, e
      <4> QED BY <2>1, <4>1, <4>2, SameField, Zenon
    <3> HIDE DEF w
    <3> QED BY <2>7, <3>2, <3>3, <3>4, RoundDecides, Zenon DEF w
  <2> HIDE DEF ts, e
  <2>8. ASSUME NEW t, t = 0 \/ t = Len(ts.authorized_keys) + 1,
               c = <<WithTsig(e, [ts EXCEPT !.threshold = t]), s, proof>>
        PROVE  c = <<e, s, proof>>
    BY <2>1, <2>2, <2>7, <2>8, ThresholdChanged, Zenon
  <2>9. ASSUME c = <<WithTsig(e, [ts EXCEPT !.partials[2].signer_index
                                        = ts.partials[1].signer_index]), s, proof>>
        PROVE  c = <<e, s, proof>>
    BY <2>1, <2>2, <2>7, <2>9, IndexRepeated, Zenon
  <2>10. ASSUME c = <<WithTsig(e, [ts EXCEPT !.partials[2].state = <<"changed">>]), s, proof>>
         PROVE  c = <<e, s, proof>>
    BY <2>1, <2>2, <2>7, <2>10, PartialChanged, Zenon
  <2>11. ASSUME c = <<WithTsig(e, [ts EXCEPT !.authorized_keys[ts.partials[2].signer_index + 1]
                                        = "changed"]), s, proof>>
         PROVE  c = <<e, s, proof>>
    BY <2>1, <2>2, <2>5, <2>7, <2>11, KeyChanged, Zenon
  <2>12. ASSUME NEW f \in {"epoch", "validity_window"}, NEW v,
                c = <<[e EXCEPT !.epoch_cert = [e.epoch_cert EXCEPT ![f] = v]], s, proof>>
         PROVE  c = <<e, s, proof>>
    <3> DEFINE u == [e EXCEPT !.epoch_cert = [e.epoch_cert EXCEPT ![f] = v]]
    <3>1. c[1] = u
      BY <2>12
    <3>2. verify_epoch_cert(RootPk, u.epoch_cert)
      BY <2>6, <3>1, Zenon
    <3>3. u = e
      BY <2>1, <2>4, <3>2, CertChanged, Zenon
    <3> HIDE DEF u
    <3> QED BY <2>12, <3>3, Zenon DEF u
  <2>13. ASSUME c = <<e, [s EXCEPT !.prev_epoch_hash = "changed"], proof>>
         PROVE  c = <<e, s, proof>>
    <3> DEFINE u == [s EXCEPT !.prev_epoch_hash = "changed"]
    <3>1. c[1] = e /\ c[2] = u
      BY <2>13
    <3>2. RootSigned(e, u)
      BY <2>6, <3>1, Zenon
    <3>3. tsig_verify(tsig_epoch_signing_message(u), ts.partials, ts.threshold, ts.authorized_keys)
      BY <2>1, <3>2, RoundDecides, Zenon
    <3>4. u = s
      BY <2>1, <2>2, <2>5, <3>3, StateChanged, Zenon
    <3> HIDE DEF u
    <3> QED BY <2>13, <3>4, Zenon DEF u
  <2>14. ASSUME NEW leaf, c = <<e, s, [proof EXCEPT !.leaf_hash = leaf]>>
         PROVE  c = <<e, s, proof>>
    <3> DEFINE u == [proof EXCEPT !.leaf_hash = leaf]
    <3>1. c[2] = s /\ c[3] = u
      BY <2>14
    <3>2. verify_transparency_proof(s, u)
      BY <2>6, <3>1, Zenon
    <3>3. u = proof
      BY <2>4, <3>2, LeafChanged, Zenon
    <3> HIDE DEF u
    <3> QED BY <2>14, <3>3, Zenon DEF u
  <2>15. c = <<e, s, proof>>
    BY <2>8, <2>9, <2>10, <2>11, <2>12, <2>13, <2>14, Zenon DEF Changed, ts, e
  <2> QED BY <2>15 DEF e
<1> QED BY <1>1, RegistryTyped, PTL
================================================================================
