------------------------------ MODULE Lifecycle ------------------------------
(***************************************************************************)
(* One object through the whole system, after the lifecycle harness        *)
(* (fuzz/fuzz_targets/fuzz_cross_system_lifecycle_stress.rs): it is sealed *)
(* at epoch 1 and then rewrapped, resealed from one recipient to another,  *)
(* opened and verified, with compromise notices or without, while the      *)
(* authority rotates epochs and revokes the capability.  The holder keeps  *)
(* one CapabilityProof, drawn at epoch 1, throughout.                      *)
(*                                                                         *)
(* Engine's operators ask an honest authority for proofs as they need      *)
(* them; here every use also has to fit the proof that is held.            *)
(***************************************************************************)
EXTENDS Engine, HeldProof

CONSTANTS
    Cap,                \* the capability; Capability = {Cap}
    VALIDITY_WINDOW,    \* of every certificate
    NoticeKey,          \* epoch keys a notice may name
    NoticeEpoch,        \* compromise boundaries a notice may give
    MaxNotices          \* bound on notices received

(***************************************************************************)
(* The capability grants the request of the first seal at epoch 1, whose   *)
(* certificate has not run out, and no identifier is a value that a change *)
(* of the stored object puts in its place.  Each recipient has a key pair  *)
(* of its own.                                                             *)
(***************************************************************************)
ASSUME CapAssumption ==
    /\ Cap \in Capability
    /\ Cap.epoch_start \in Nat /\ Cap.epoch_end \in Nat
    /\ InWindow(1, Cap)
    /\ Cap.delegation_depth > 0 <=> Cap.parent_stamp # None
    /\ "READ" \in Cap.rights
    /\ VALIDITY_WINDOW \in Nat \ {0}

ASSUME IdsAssumption ==
    "id" \in DOMAIN Cap /\ Cap.id # 0 /\ Cap.object_id # "x" /\ Cap.policy_hash # "x"

ASSUME RecipientAssumption ==
    /\ \A r, s \in Recipient : r.key = s.key => r = s
    /\ \A r \in Recipient : r.pq_public \in BOOLEAN /\ r.pq_secret \in BOOLEAN

ASSUME NoticeAssumption == NoticeEpoch \subseteq Nat

VARIABLES
    held,       \* the CapabilityProof
    owner,      \* the recipient the object is sealed to
    notices     \* CompromiseNotices received, in order

lvars == <<ledger, evidence, objects, held, owner, notices>>

------------------------------------------------------------------------------
(* The epoch key of epoch e is called e. *)
CertFor(e) == [epoch_pk |-> e, epoch |-> e, validity_window |-> VALIDITY_WINDOW]

Now == Len(ledger)

state_for_epoch(e) ==
    LET i == CHOOSE i \in DOMAIN ledger : ledger[i].epoch = e
    IN  StateOf(ledger, i, i)

CurrentState == StateOf(ledger, Now, Now)

Object == objects[1]

first_wrapper_epoch(object) == object.wrappers[1].epoch

IssuanceCert == held.issuance.epoch_cert

SealRequest(state) == Request(Cap, {"READ"}, state.epoch)

OpensAs(object, recipient, state) ==
    /\ open_with_verifier(recipient, object, Cap, IssuanceCert, state)
    /\ ProofFits(held, Cap, state)

Opens1(recipient, state) == OpensAs(Object, recipient, state)

Verifies1(state, proof) ==
    /\ verify_with_verifier(Object, Cap, IssuanceCert, state, proof)
    /\ ProofFits(held, Cap, state)

------------------------------------------------------------------------------
(***************************************************************************)
(* Compromise notices.  A signature of the offline root is the message it  *)
(* signed; a broken one (NoSignature) is over no message.                  *)
(***************************************************************************)
NoSignature == <<>>

compromise_notice_signing_message(epoch_pk, epoch, recovery_authority_root) ==
    <<"COMPROMISE", epoch_pk, epoch, recovery_authority_root>>

issue_compromise_notice(epoch_pk, epoch, recovery_authority_root) ==
    [compromised_epoch_pk |-> epoch_pk,
     compromised_epoch |-> epoch,
     recovery_authority_root |-> recovery_authority_root,
     signature |-> compromise_notice_signing_message(epoch_pk, epoch, recovery_authority_root)]

verify_compromise_notice(notice) ==
    notice.signature
        = compromise_notice_signing_message(notice.compromised_epoch_pk, notice.compromised_epoch,
                                            notice.recovery_authority_root)

(* Mutant of check_epoch_not_compromised: the boundary epoch still passes. *)
AfterBoundaryOnly(epoch, epoch_pk, notice) ==
    ~(epoch_pk = notice.compromised_epoch_pk /\ epoch > notice.compromised_epoch)

check_epoch_not_compromised(epoch, epoch_pk, notice) ==
    ~(epoch_pk = notice.compromised_epoch_pk /\ epoch >= notice.compromised_epoch)

enforce_compromise_notices(state, epoch_pk, received) ==
    \A k \in DOMAIN received :
        /\ verify_compromise_notice(received[k])
        /\ check_epoch_not_compromised(state.epoch, epoch_pk, received[k])

open_with_compromise_check_and_verifier(recipient, state) ==
    /\ Opens1(recipient, state)
    /\ enforce_compromise_notices(state, IssuanceCert.epoch_pk, notices)

verify_with_compromise_check_and_verifier(state, proof) ==
    /\ Verifies1(state, proof)
    /\ enforce_compromise_notices(state, IssuanceCert.epoch_pk, notices)

------------------------------------------------------------------------------
(***************************************************************************)
(* The capability is issued, the first epoch is committed, signed and      *)
(* registered, the proof is drawn and the object is sealed.                *)
(***************************************************************************)
LifecycleInit ==
    /\ ledger = <<[epoch |-> 1, active |-> <<Cap>>, revoked |-> {}]>>
    /\ evidence = [e \in {1} |-> [epoch_root_sig |-> CurrentState, epoch_cert |-> CertFor(1)]]
    /\ held = capability_proof(Cap, <<Cap>>, {}, <<Cap>>, CertFor(1))
    /\ owner \in Recipient
    /\ objects = <<NewObject(1, owner, Cap, CurrentState, ProofOf(1, 1),
                             SealRequest(CurrentState), [kind |-> "Current"])>>
    /\ notices = <<>>

(* An epoch is committed, signed and its evidence registered. *)
NewEpoch(r) ==
    /\ Now < MaxLog
    /\ Publish(r)
    /\ evidence' = add(StateOf(ledger', Now + 1, Now + 1), CertFor(r.epoch))
    /\ UNCHANGED <<objects, held, owner, notices>>

rotate == NewEpoch([ledger[Now] EXCEPT !.epoch = @ + 1])

revoke == NewEpoch([ledger[Now] EXCEPT !.epoch = @ + 1, !.revoked = @ \cup {Cap}])

rewrap ==
    LET from == state_for_epoch(first_wrapper_epoch(Object))
    IN  /\ from.epoch # CurrentState.epoch
        /\ ProofFits(held, Cap, from)
        /\ CanRewrap(ledger, owner, Object, Cap, IssuanceCert, from, CurrentState,
                     ProofOf(Now, Now))
        /\ Rewrap(1, owner, Cap, from, CurrentState, ProofOf(Now, Now))
        /\ UNCHANGED <<ledger, evidence, held, owner, notices>>

(* The payload key of the new object is another than that of the old one. *)
reseal(recipient_new) ==
    /\ Opens1(owner, state_for_epoch(first_wrapper_epoch(Object)))
    /\ CanSeal(ledger, Cap, IssuanceCert, Now, Now, {"READ"})
    /\ ProofFits(held, Cap, CurrentState)
    /\ objects' = <<NewObject(3 - Object.dek, recipient_new, Cap, CurrentState,
                              ProofOf(Now, Now), SealRequest(CurrentState),
                              [kind |-> "Current"])>>
    /\ owner' = recipient_new
    /\ UNCHANGED <<ledger, evidence, held, notices>>

(* A notice of the root arrives; its signature may have been damaged. *)
receive_notice(epoch_pk, epoch, damaged) ==
    LET issued == issue_compromise_notice(epoch_pk, epoch, CurrentState.authority_root)
    IN  /\ Len(notices) < MaxNotices
        /\ notices' = Append(notices, IF damaged THEN [issued EXCEPT !.signature = NoSignature]
                                                 ELSE issued)
        /\ UNCHANGED <<ledger, evidence, objects, held, owner>>

LifecycleNext ==
    \/ rotate
    \/ revoke
    \/ rewrap
    \/ \E recipient_new \in Recipient : reseal(recipient_new)
    \/ \E epoch_pk \in NoticeKey, epoch \in NoticeEpoch, damaged \in BOOLEAN :
          receive_notice(epoch_pk, epoch, damaged)

LifecycleSpec == LifecycleInit /\ [][LifecycleNext]_lvars

------------------------------------------------------------------------------
(***************************************************************************)
(* Whatever was rotated, rewrapped, resealed and revoked, in any order,    *)
(* exactly one recipient opens the object, the one it was last sealed to,  *)
(* at exactly the epochs that have a wrapper and had not revoked the       *)
(* capability; and never without the ML-KEM secret if the key it was       *)
(* sealed to has an ML-KEM half.  The rotations do not outdate the proof   *)
(* drawn at epoch 1, the revocation does.                                  *)
(***************************************************************************)
OwnerOpens ==
    \A i \in DOMAIN ledger, recipient \in Recipient :
        Opens1(recipient, StateOf(ledger, i, i))
        <=> /\ recipient = owner
            /\ owner.pq_public => owner.pq_secret
            /\ WrapperIndices(Object, ledger[i].epoch) # {}
            /\ Cap \notin ledger[i].revoked

(***************************************************************************)
(* Changes to a stored object, those of the fuzz target of open            *)
(* (fuzz/fuzz_targets/fuzz_verify_and_open.rs:200): to one field of the    *)
(* header or the payload, and to one field of wrapper k.  "x", 0 and <<>>  *)
(* are values the field never has.                                         *)
(***************************************************************************)
HeaderChanges(object) ==
    {[object EXCEPT !.object_id = "x"],
     [object EXCEPT !.required_rights = @ \cup {"WRITE"}],
     [object EXCEPT !.policy_hash = "x"],
     [object EXCEPT !.seal_epoch = @ + 1],
     [object EXCEPT !.temporal_policy = [kind |-> "Historical", epoch |-> object.seal_epoch]],
     [object EXCEPT !.dek = 0]}

WrapperChanges(object, k) ==
    {[object EXCEPT !.wrappers[k] = w] : w \in
        LET wrapper == object.wrappers[k]
        IN  {[wrapper EXCEPT !.epoch = @ + 1],
             [wrapper EXCEPT !.kem_ct_classical = <<"changed">>],
             [wrapper EXCEPT !.kem_ct_pq = <<"changed">>],
             [wrapper EXCEPT !.wrapped_dek.kek = <<>>],
             [wrapper EXCEPT !.context_hash = <<>>],
             [wrapper EXCEPT !.capability_stamp.id = 0]}}

(***************************************************************************)
(* A stored object whose identifier, rights, policy hash, seal epoch,      *)
(* temporal policy or payload was changed opens at no epoch and for        *)
(* nobody; one in which a field of a wrapper was changed does not open at  *)
(* the epoch of the wrapper (the transparency proof is not among those     *)
(* changes).  Rewrapping makes this more than the context hash of the      *)
(* wrapper: the seal epoch is in no context hash, and moving it opens at   *)
(* the later wrappers unless the payload itself is tied to it (payload_aad *)
(* in engine.rs).  Nothing is said of the version, the suite and the roots *)
(* of the header, which open_with_verifier does not read.                  *)
(***************************************************************************)
ChangedNeverOpens ==
    \A i \in DOMAIN ledger, recipient \in Recipient :
        LET state == StateOf(ledger, i, i)
        IN  /\ \A object \in HeaderChanges(Object) : ~OpensAs(object, recipient, state)
            /\ \A k \in WrapperIndices(Object, state.epoch) :
                  \A object \in WrapperChanges(Object, k) : ~OpensAs(object, recipient, state)

(***************************************************************************)
(* A notice takes away the opens and verifications made with a proof       *)
(* issued under the key it names, at and after its epoch and for good, and *)
(* a notice the root did not sign takes away all.  A notice takes away     *)
(* nothing at the epochs before its boundary ("Historical opens at epochs  *)
(* strictly earlier than the declared compromise boundary are still        *)
(* allowed", engine.rs, check_epoch_not_compromised), and nothing that has *)
(* no part of the key it names.  Of a notice that names the key of the     *)
(* seal epoch or of the epoch opened at, and not that of the issuance      *)
(* proof, nothing is said (NamesEpochKey).                                 *)
(***************************************************************************)
NamesEpochKey(state) ==
    \E k \in DOMAIN notices :
        /\ notices[k].compromised_epoch_pk
              \in {CertFor(Object.seal_epoch).epoch_pk, CertFor(state.epoch).epoch_pk}
        /\ notices[k].compromised_epoch <= state.epoch

NoticeScope ==
    [][\A i \in DOMAIN ledger :
        LET state == StateOf(ledger, i, i)
            Hits  == \E k \in DOMAIN notices' : k > Len(notices)
                        /\ \/ ~verify_compromise_notice(notices'[k])
                           \/ /\ notices'[k].compromised_epoch_pk = held.issuance.epoch_cert.epoch_pk
                              /\ notices'[k].compromised_epoch <= state.epoch
            StillVerifies == /\ verify_with_compromise_check_and_verifier(state, ProofOf(i, i))
                             /\ ~Hits
                             /\ Object.seal_epoch' <= state.epoch
            StillOpens == open_with_compromise_check_and_verifier(owner, state) /\ ~Hits
        IN  /\ verify_with_compromise_check_and_verifier(state, ProofOf(i, i))' => StillVerifies
            /\ StillVerifies /\ ~NamesEpochKey(state)'
               => verify_with_compromise_check_and_verifier(state, ProofOf(i, i))'
            /\ Object' = Object =>
               /\ open_with_compromise_check_and_verifier(owner, state)' => StillOpens
               /\ StillOpens /\ ~NamesEpochKey(state)'
                  => open_with_compromise_check_and_verifier(owner, state)']_lvars

------------------------------------------------------------------------------
(***************************************************************************)
(* Once add_epoch_wrapper has succeeded, verification at the epoch it      *)
(* added succeeds: the assertion of the harness after every rewrap,        *)
(* "assert!(verify_with_verifier(...).is_ok())",                           *)
(* fuzz/fuzz_targets/fuzz_cross_system_lifecycle_stress.rs:300.            *)
(***************************************************************************)
RewrappedVerifies ==
    WrapperIndices(Object, CurrentState.epoch) # {}
    => Verifies1(CurrentState, ProofOf(Now, Now))
===============================================================================
