-------------------------------- MODULE Engine --------------------------------
(***************************************************************************)
(* The two-gate engine (engine.rs) and the verifier it asks (verify.rs):   *)
(* sealing, rewrapping for later epochs, opening, verifying and resealing  *)
(* objects while the authority publishes epochs.                           *)
(*                                                                         *)
(* The authority appears as the ledger it implements (module Authority     *)
(* refines EpochLedger).  The Merkle roots R_e and V_e of a state are the  *)
(* list and the set they commit to, T_e is the length of the log it was    *)
(* computed from, a signature is the statement that was signed, and a      *)
(* ciphertext opens under the key and associated data it was made with.    *)
(* Inclusion proofs, non-revocation witnesses and issuance signatures are  *)
(* asked of an honest authority when needed: one exists exactly when the   *)
(* verification functions accept one.                                      *)
(***************************************************************************)
EXTENDS EpochLedger, FiniteSets, Kem

CONSTANTS
    Cert,           \* EpochKeyCerts: epoch_pk, epoch, validity_window
    Recipient,      \* recipient key pairs: key, pq_public, pq_secret
    Publishable,    \* ledger records the authority may publish
    TemporalPolicy, \* temporal policies in use
    ReqRights,      \* rights a seal request may require
    MaxLog,         \* bound on published epochs
    MaxObjects,     \* bound on objects
    MaxSize         \* bound on epochs and objects together

VARIABLES
    evidence,   \* CryptoAuthorityVerifier::evidence_registry, by epoch
    objects     \* KyriotesCsk2Objects, in the order they were sealed

vars == <<ledger, evidence, objects>>

None == <<>>    \* [0u8; 32] where a stamp may be absent

------------------------------------------------------------------------------
(***************************************************************************)
(* Authority states: record i as committed when the log had n entries.     *)
(***************************************************************************)
StateOf(log, i, n) ==
    [epoch |-> log[i].epoch, authority_root |-> log[i].active,
     revocation_root |-> log[i].revoked, transparency_root |-> n]

ProofOf(i, n) == [leaf_index |-> i, log |-> n]

(* Mutant of verify_transparency_proof: only the current root is good enough. *)
VerifiesCurrentRoot(log, state, proof) ==
    /\ proof.log = Len(log)
    /\ proof.log = state.transparency_root
    /\ StateOf(log, proof.leaf_index, proof.log) = state

verify_transparency_proof(log, state, proof) ==
    /\ proof.log = state.transparency_root
    /\ proof.leaf_index <= proof.log
    /\ StateOf(log, proof.leaf_index, proof.log) = state

(***************************************************************************)
(* CryptoAuthorityVerifier with a root key: the certificate has not run    *)
(* out, the epoch key signed these roots, and the log contains the state.  *)
(***************************************************************************)
verify_epoch_root_sig(state) == evidence[state.epoch].epoch_root_sig = state

verify_state(log, state, proof) ==
    /\ state.epoch \in DOMAIN evidence
    /\ LET cert == evidence[state.epoch].epoch_cert
       IN  state.epoch < cert.epoch + cert.validity_window
    /\ verify_epoch_root_sig(state)
    /\ verify_transparency_proof(log, state, proof)

(***************************************************************************)
(* validate_capability, with cert the certificate of the issuance proof.   *)
(***************************************************************************)
InWindow(epoch, cap) == cap.epoch_start <= epoch /\ epoch <= cap.epoch_end

verify_capability_issuance(cap, cert) ==
    /\ cert.validity_window > 0
    /\ InWindow(cert.epoch, cap)

verify_capability_inclusion(cap, root) == \E i \in DOMAIN root : root[i] = cap

(* Mutant of verify_non_revocation: not checked. *)
RevocationIgnored(cap, root) == TRUE

verify_non_revocation(cap, root) == cap \notin root

validate_capability(cap, cert, state, req) ==
    /\ cap.delegation_depth > 0 <=> cap.parent_stamp # None
    /\ verify_capability_inclusion(cap, state.authority_root)
    /\ verify_non_revocation(cap, state.revocation_root)
    /\ verify_capability_issuance(cap, cert)
    /\ cap.object_id = req.object_id
    /\ req.required_rights \subseteq cap.rights
    /\ cap.policy_hash = req.policy_hash
    /\ InWindow(req.epoch, cap)
    /\ req.epoch = state.epoch

(***************************************************************************)
(* core/temporal.rs.                                                       *)
(***************************************************************************)
accepts(policy, e_open, e_seal) ==
    \/ policy.kind = "Historical" /\ policy.epoch = e_seal
    \/ policy.kind = "Current" /\ e_open >= e_seal
    \/ policy.kind = "Window" /\ policy.start <= e_open /\ e_open <= policy.end
    \/ policy.kind = "ResealRequired" /\ e_open >= e_seal

required_wrapper_epoch(policy, e_open, e_seal) ==
    IF \/ policy.kind = "Historical"
       \/ policy.kind = "ResealRequired" /\ e_open <= policy.after
    THEN e_seal
    ELSE e_open

(***************************************************************************)
(* The wrapper's key depends on the recipient's shared secret and, through *)
(* the context and the salt, on the state, the capability and the object's *)
(* header.                                                                 *)
(***************************************************************************)
context_hash(object, state, cap) ==
    <<object.object_id, object.required_rights, object.policy_hash, state, cap,
      object.temporal_policy>>

derive_kek(ss_h, ctx) == <<ss_h, ctx>>

(* The header fields and the roots it lists besides are those of ctx. *)
authority_aad(ctx, kem_ct_classical, kem_ct_pq) == <<ctx, kem_ct_classical, kem_ct_pq>>

(* Mutant of payload_aad: the payload is not tied to its seal epoch. *)
PayloadAadWithoutEpoch(object) ==
    <<object.object_id, object.required_rights, object.policy_hash>>

(* What the payload is encrypted under, besides its key. *)
payload_aad(object) ==
    <<object.object_id, object.required_rights, object.policy_hash, object.seal_epoch>>

WrapperFor(object, recipient, cap, state, proof, dek) ==
    LET kem == kem_encaps(recipient)
        ctx == context_hash(object, state, cap)
        kek == derive_kek(hybrid_secret(kem.ss_classical, kem.ct_pq, kem.ss_pq), ctx)
        aad == authority_aad(ctx, kem.ct_classical, kem.ct_pq)
    IN  [epoch |-> state.epoch, kem_ct_classical |-> kem.ct_classical,
         kem_ct_pq |-> kem.ct_pq, context_hash |-> ctx,
         capability_stamp |-> cap, transparency_proof |-> proof,
         wrapped_dek |-> [kek |-> kek, aad |-> aad, dek |-> dek]]

WrapperIndices(object, epoch) ==
    {k \in DOMAIN object.wrappers : object.wrappers[k].epoch = epoch}

FirstIndex(object, epoch) ==
    CHOOSE k \in WrapperIndices(object, epoch) :
        \A j \in WrapperIndices(object, epoch) : k <= j

FindWrapper(object, epoch) == object.wrappers[FirstIndex(object, epoch)]

(* The key a recipient derives for a wrapper. *)
KekFor(recipient, object, cap, state, wrapper) ==
    LET kem == kem_decaps(recipient, wrapper.kem_ct_classical, wrapper.kem_ct_pq)
    IN  derive_kek(hybrid_secret(kem.ss_classical, wrapper.kem_ct_pq, kem.ss_pq),
                   context_hash(object, state, cap))

(* Mutant of unwrap_dek_for_epoch: the wrapper is not tied to a capability. *)
UnwrapsForAnyCapability(recipient, object, cap, state, wrapper) ==
    /\ wrapper.epoch = state.epoch
    /\ wrapper.wrapped_dek.kek[1]
          = KekFor(recipient, object, wrapper.capability_stamp, state, wrapper)[1]

unwrap_dek_for_epoch(recipient, object, cap, state, wrapper) ==
    /\ wrapper.epoch = state.epoch
    /\ wrapper.capability_stamp = cap
    /\ wrapper.context_hash = context_hash(object, state, cap)
    /\ wrapper.wrapped_dek.kek = KekFor(recipient, object, cap, state, wrapper)
    /\ wrapper.wrapped_dek.aad = authority_aad(context_hash(object, state, cap),
                                               wrapper.kem_ct_classical, wrapper.kem_ct_pq)

open_request_for_object(object, epoch) ==
    [object_id |-> object.object_id, required_rights |-> object.required_rights,
     policy_hash |-> object.policy_hash, epoch |-> epoch]

(***************************************************************************)
(* open_with_verifier, as the condition under which it returns a plaintext *)
(* (the payload key and the associated data have to be those the payload   *)
(* was encrypted under).                                                   *)
(***************************************************************************)
select_required_wrapper(object, state) ==
    /\ accepts(object.temporal_policy, state.epoch, object.seal_epoch)
    /\ required_wrapper_epoch(object.temporal_policy, state.epoch, object.seal_epoch)
          = state.epoch
    /\ WrapperIndices(object, state.epoch) # {}

open_verified(recipient, object, cap, cert, state, wrapper) ==
    /\ validate_capability(cap, cert, state, open_request_for_object(object, state.epoch))
    /\ unwrap_dek_for_epoch(recipient, object, cap, state, wrapper)
    /\ wrapper.wrapped_dek.dek = object.dek
    /\ object.payload_aad = payload_aad(object)

open_with_verifier(recipient, object, cap, cert, state) ==
    /\ select_required_wrapper(object, state)
    /\ LET wrapper == FindWrapper(object, state.epoch)
       IN  /\ verify_state(ledger, state, wrapper.transparency_proof)
           /\ open_verified(recipient, object, cap, cert, state, wrapper)

(* Mutant of verify_verified: it insists on the seal epoch. *)
VerifiesSealEpoch(object, cap, cert, state) ==
    /\ accepts(object.temporal_policy, state.epoch, object.seal_epoch)
    /\ object.seal_epoch = state.epoch
    /\ validate_capability(cap, cert, state, open_request_for_object(object, state.epoch))

verify_verified(object, cap, cert, state) ==
    /\ accepts(object.temporal_policy, state.epoch, object.seal_epoch)
    /\ required_wrapper_epoch(object.temporal_policy, state.epoch, object.seal_epoch)
          = state.epoch
    /\ validate_capability(cap, cert, state, open_request_for_object(object, state.epoch))

verify_with_verifier(object, cap, cert, state, proof) ==
    verify_state(ledger, state, proof) /\ verify_verified(object, cap, cert, state)

------------------------------------------------------------------------------
(* The bounds. *)
RoomForEpoch  == Len(ledger) < MaxLog /\ Len(ledger) + Len(objects) < MaxSize
RoomForObject == Len(objects) < MaxObjects /\ Len(ledger) + Len(objects) < MaxSize

EngineInit ==
    /\ ledger = <<>>
    /\ evidence = <<>>
    /\ objects = <<>>

(***************************************************************************)
(* AuthorityEvidenceRegistry::add replaces what the epoch had.             *)
(***************************************************************************)
add(state, cert) ==
    [e \in DOMAIN evidence \cup {state.epoch} |->
        IF e = state.epoch
        THEN [epoch_root_sig |-> state, epoch_cert |-> cert]
        ELSE evidence[e]]

(***************************************************************************)
(* rotate_epoch_full and EpochRotation::into_verifier: the epoch is        *)
(* committed, signed with the T_e it got under a certificate for it, and   *)
(* the evidence registered.                                                *)
(***************************************************************************)
rotate_epoch_full(r, cert) ==
    /\ RoomForEpoch
    /\ cert.epoch = r.epoch
    /\ Publish(r)
    /\ evidence' = add(StateOf(ledger', Len(ledger'), Len(ledger')), cert)
    /\ UNCHANGED objects

(***************************************************************************)
(* An epoch the log has is committed again, bound to the root of the log   *)
(* as it is by now, signed, and the new signature registered.              *)
(***************************************************************************)
add_evidence(i, cert) ==
    /\ evidence' = add(StateOf(ledger, i, Len(ledger)), cert)
    /\ UNCHANGED <<ledger, objects>>

(***************************************************************************)
(* seal_verified: a fresh payload key and one wrapper, for the seal epoch. *)
(* What dek names is the key and the nonce of the payload's ciphertext.    *)
(* The version, the suite and the two roots are written here and never     *)
(* read again.                                                             *)
(***************************************************************************)
NewObject(dek, recipient, cap, state, proof, req, policy) ==
    LET header == [version |-> 1, suite |-> "CSK2",
                   object_id |-> req.object_id, required_rights |-> req.required_rights,
                   policy_hash |-> req.policy_hash,
                   seal_epoch |-> state.epoch, temporal_policy |-> policy,
                   authority_root |-> state.authority_root,
                   revocation_root |-> state.revocation_root,
                   dek |-> dek, payload_aad |-> <<>>, wrappers |-> <<>>]
    IN  [header EXCEPT !.payload_aad = payload_aad(header),
                       !.wrappers = <<WrapperFor(header, recipient, cap, state, proof, dek)>>]

Request(cap, rights, epoch) ==
    [object_id |-> cap.object_id, required_rights |-> rights,
     policy_hash |-> cap.policy_hash, epoch |-> epoch]

CanSeal(log, cap, cert, i, n, rights) ==
    LET state == StateOf(log, i, n)
    IN  /\ verify_state(log, state, ProofOf(i, n))
        /\ validate_capability(cap, cert, state, Request(cap, rights, state.epoch))

Sealed(log, recipient, cap, i, n, rights, policy) ==
    LET state == StateOf(log, i, n)
    IN  Append(objects, NewObject(Len(objects) + 1, recipient, cap, state, ProofOf(i, n),
                                  Request(cap, rights, state.epoch), policy))

seal_with_verifier(recipient, cap, cert, i, n, rights, policy) ==
    /\ RoomForObject
    /\ CanSeal(ledger, cap, cert, i, n, rights)
    /\ objects' = Sealed(ledger, recipient, cap, i, n, rights, policy)
    /\ UNCHANGED <<ledger, evidence>>

(***************************************************************************)
(* The "and_commit" forms commit first.  A new epoch has no evidence yet,  *)
(* and an old one may be signed for another T_e: the call then fails and   *)
(* the commit stays.                                                       *)
(***************************************************************************)
commit_state(r) ==
    \/ (\E i \in DOMAIN ledger : ledger[i] = r) /\ UNCHANGED ledger
    \/ RoomForEpoch /\ Publish(r)

IndexOf(log, r) == CHOOSE i \in DOMAIN log : log[i] = r

seal_and_commit(r, recipient, cap, cert, rights, policy) ==
    /\ RoomForObject
    /\ commit_state(r)
    /\ LET i == IndexOf(ledger', r)
           n == Len(ledger')
       IN  \/ /\ CanSeal(ledger', cap, cert, i, n, rights)
              /\ objects' = Sealed(ledger', recipient, cap, i, n, rights, policy)
           \/ /\ ~CanSeal(ledger', cap, cert, i, n, rights)
              /\ UNCHANGED objects
    /\ UNCHANGED evidence

(***************************************************************************)
(* add_epoch_wrapper: the capability is validated for the source epoch     *)
(* only; for the target epoch its validity window alone is looked at.  A   *)
(* wrapper the object has for the target epoch is replaced where it is.    *)
(***************************************************************************)
(* Mutant of Rewrapped: always appended. *)
RewrappedAtEnd(object, wrapper) == [object EXCEPT !.wrappers = Append(@, wrapper)]

Rewrapped(object, wrapper) ==
    IF WrapperIndices(object, wrapper.epoch) # {}
    THEN [object EXCEPT !.wrappers[FirstIndex(object, wrapper.epoch)] = wrapper]
    ELSE [object EXCEPT !.wrappers = Append(@, wrapper)]

(* Mutant of RewrapTarget: the target may be earlier than the source. *)
RewrapAnywhere(cap, from, to) == InWindow(to.epoch, cap)

RewrapTarget(cap, from, to) == to.epoch > from.epoch /\ InWindow(to.epoch, cap)

CanRewrap(log, recipient, object, cap, cert, from, to, to_proof) ==
    /\ WrapperIndices(object, from.epoch) # {}
    /\ LET wrapper == FindWrapper(object, from.epoch)
       IN  /\ verify_state(log, from, wrapper.transparency_proof)
           /\ verify_state(log, to, to_proof)
           /\ validate_capability(cap, cert, from, open_request_for_object(object, from.epoch))
           /\ unwrap_dek_for_epoch(recipient, object, cap, from, wrapper)
    /\ RewrapTarget(cap, from, to)

Rewrap(k, recipient_new, cap, from, to, to_proof) ==
    LET dek == FindWrapper(objects[k], from.epoch).wrapped_dek.dek
    IN  objects' = [objects EXCEPT ![k] =
            Rewrapped(@, WrapperFor(@, recipient_new, cap, to, to_proof, dek))]

add_epoch_wrapper_with_verifier(k, recipient, recipient_new, cap, cert, from, i, n) ==
    LET to == StateOf(ledger, i, n)
    IN  /\ CanRewrap(ledger, recipient, objects[k], cap, cert, from, to, ProofOf(i, n))
        /\ Rewrap(k, recipient_new, cap, from, to, ProofOf(i, n))
        /\ UNCHANGED <<ledger, evidence>>

add_epoch_wrapper_and_commit(r, k, recipient, recipient_new, cap, cert, from) ==
    /\ commit_state(r)
    /\ LET i     == IndexOf(ledger', r)
           to    == StateOf(ledger', i, Len(ledger'))
           proof == ProofOf(i, Len(ledger'))
       IN  \/ /\ CanRewrap(ledger', recipient, objects[k], cap, cert, from, to, proof)
              /\ Rewrap(k, recipient_new, cap, from, to, proof)
           \/ /\ ~CanRewrap(ledger', recipient, objects[k], cap, cert, from, to, proof)
              /\ UNCHANGED objects
    /\ UNCHANGED evidence

(***************************************************************************)
(* open_and_reseal: what was opened is sealed again with a fresh key, for  *)
(* a new recipient, under a state, a request and a policy of the caller's  *)
(* choice.                                                                 *)
(***************************************************************************)
open_and_reseal_with_verifier(k, recipient, recipient_new, cap, cert, open_state, i, n, rights, policy) ==
    /\ RoomForObject
    /\ open_with_verifier(recipient, objects[k], cap, cert, open_state)
    /\ CanSeal(ledger, cap, cert, i, n, rights)
    /\ objects' = Sealed(ledger, recipient_new, cap, i, n, rights, policy)
    /\ UNCHANGED <<ledger, evidence>>

open_and_reseal_and_commit(r, k, recipient, recipient_new, cap, cert, open_state, rights, policy) ==
    /\ RoomForObject
    /\ commit_state(r)
    /\ LET i  == IndexOf(ledger', r)
           n  == Len(ledger')
           ok == /\ open_with_verifier(recipient, objects[k], cap, cert, open_state)
                 /\ CanSeal(ledger', cap, cert, i, n, rights)
       IN  \/ /\ ok
              /\ objects' = Sealed(ledger', recipient_new, cap, i, n, rights, policy)
           \/ ~ok /\ UNCHANGED objects
    /\ UNCHANGED evidence

------------------------------------------------------------------------------
(* The states verify_state can accept: one per epoch with evidence. *)
SignedStates == {evidence[e].epoch_root_sig : e \in DOMAIN evidence}

Commits ==
    \E r \in Publishable :
        \/ \E cert \in Cert : rotate_epoch_full(r, cert)
        \/ \E recipient \in Recipient, cap \in Capability, cert \in Cert,
              rights \in ReqRights, policy \in TemporalPolicy :
              seal_and_commit(r, recipient, cap, cert, rights, policy)
        \/ \E k \in DOMAIN objects, recipient, recipient_new \in Recipient,
              cap \in Capability, cert \in Cert, from \in SignedStates :
              \/ add_epoch_wrapper_and_commit(r, k, recipient, recipient_new, cap, cert, from)
              \/ \E rights \in ReqRights, policy \in TemporalPolicy :
                    open_and_reseal_and_commit(r, k, recipient, recipient_new, cap, cert,
                                               from, rights, policy)

Uses ==
    \E i, n \in DOMAIN ledger, cap \in Capability, cert \in Cert, recipient \in Recipient :
        \/ \E rights \in ReqRights, policy \in TemporalPolicy :
              seal_with_verifier(recipient, cap, cert, i, n, rights, policy)
        \/ \E k \in DOMAIN objects, recipient_new \in Recipient, from \in SignedStates :
              \/ add_epoch_wrapper_with_verifier(k, recipient, recipient_new, cap, cert,
                                                 from, i, n)
              \/ \E rights \in ReqRights, policy \in TemporalPolicy :
                    open_and_reseal_with_verifier(k, recipient, recipient_new, cap, cert,
                                                  from, i, n, rights, policy)

EngineNext ==
    \/ Commits
    \/ Uses
    \/ \E i \in DOMAIN ledger, cert \in Cert : add_evidence(i, cert)

EngineSpec == EngineInit /\ [][EngineNext]_vars

------------------------------------------------------------------------------
Opens(object, recipient, cap, state) ==
    \E cert \in Cert : open_with_verifier(recipient, object, cap, cert, state)

(***************************************************************************)
(* A capability opens nothing at an epoch at or after one that published   *)
(* its revocation: the wrapper made by a rewrap into an epoch in which the *)
(* capability was already revoked stays shut, and so does every older      *)
(* wrapper under a later state.                                            *)
(***************************************************************************)
RevokedNeverOpens ==
    \A k \in DOMAIN objects, recipient \in Recipient, cap \in Capability,
       state \in SignedStates :
        Opens(objects[k], recipient, cap, state)
        => \A i \in DOMAIN ledger : ledger[i].epoch <= state.epoch => cap \notin ledger[i].revoked

(***************************************************************************)
(* Whatever sequence of seals, rewraps, replacements and reseals made it,  *)
(* an object has one wrapper per epoch, the first for its seal epoch and   *)
(* the others for later ones, all for one capability and all holding the   *)
(* key its payload is encrypted under.                                     *)
(***************************************************************************)
WrappersCoherent ==
    \A k \in DOMAIN objects :
        LET object == objects[k]
        IN  /\ object.wrappers[1].epoch = object.seal_epoch
            /\ \A j \in DOMAIN object.wrappers :
                  /\ j > 1 => object.wrappers[j].epoch > object.seal_epoch
                  /\ object.wrappers[j].capability_stamp = object.wrappers[1].capability_stamp
                  /\ object.wrappers[j].wrapped_dek.dek = object.dek
                  /\ \A m \in DOMAIN object.wrappers :
                        object.wrappers[j].epoch = object.wrappers[m].epoch => j = m

(***************************************************************************)
(* An object opens at no epoch before its seal epoch, though a Window or a *)
(* Historical policy does not compare the two.                             *)
(***************************************************************************)
NeverBeforeSeal ==
    \A k \in DOMAIN objects, recipient \in Recipient, cap \in Capability,
       state \in SignedStates :
        Opens(objects[k], recipient, cap, state) => state.epoch >= objects[k].seal_epoch

(***************************************************************************)
(* One capability opens an object, the one it was sealed under: wrappers   *)
(* carry its stamp from rewrap to rewrap, so that neither the parent nor a *)
(* delegate of it opens the object, whatever their rights.                 *)
(***************************************************************************)
OneCapabilityOpens ==
    \A k \in DOMAIN objects, recipient \in Recipient, cap \in Capability,
       state \in SignedStates :
        Opens(objects[k], recipient, cap, state)
        => /\ objects[k].wrappers[1].capability_stamp = cap
           /\ InWindow(objects[k].seal_epoch, cap)

(***************************************************************************)
(* What opens also verifies: verify_with_verifier, given the transparency  *)
(* proof of the wrapper, accepts whatever open_with_verifier opens.        *)
(***************************************************************************)
OpenImpliesVerify ==
    \A k \in DOMAIN objects, recipient \in Recipient, cap \in Capability,
       cert \in Cert, state \in SignedStates :
        open_with_verifier(recipient, objects[k], cap, cert, state)
        => verify_with_verifier(objects[k], cap, cert, state,
                FindWrapper(objects[k], state.epoch).transparency_proof)

(***************************************************************************)
(* Nothing that happens elsewhere takes an open away: it stops working     *)
(* only when the evidence or the wrapper of its own epoch is replaced, not *)
(* because the log grew, other epochs were rewrapped or re-signed, or the  *)
(* capability was revoked later on.                                        *)
(***************************************************************************)
OpenSurvives ==
    [][vars' # vars =>
       \A k \in DOMAIN objects, recipient \in Recipient, cap \in Capability,
          state \in SignedStates :
        /\ Opens(objects[k], recipient, cap, state)
        /\ evidence'[state.epoch] = evidence[state.epoch]
        /\ FindWrapper(objects[k], state.epoch)' = FindWrapper(objects[k], state.epoch)
        => Opens(objects[k], recipient, cap, state)']_vars

------------------------------------------------------------------------------
(***************************************************************************)
(* Up to the epoch of a ResealRequired policy the seal-epoch wrapper is    *)
(* enough: "e_open <= e_after -> use the original seal-epoch wrapper (no   *)
(* reseal needed)", tests/kyriotes_csk2_reseal_required_e2e.rs:5.          *)
(***************************************************************************)
ResealNotNeeded ==
    \A k \in DOMAIN objects, recipient \in Recipient, cap \in Capability,
       state, seal \in SignedStates, i, n \in DOMAIN ledger :
        LET object == objects[k]
        IN  /\ object.temporal_policy.kind = "ResealRequired"
            /\ seal.epoch = object.seal_epoch
            /\ Opens(object, recipient, cap, seal)
            /\ verify_state(ledger, state, ProofOf(i, n))
            /\ object.seal_epoch < state.epoch /\ state.epoch <= object.temporal_policy.after
            /\ \E cert \in Cert : validate_capability(cap, cert, state,
                                    open_request_for_object(object, state.epoch))
            => Opens(object, recipient, cap, state)
===============================================================================
