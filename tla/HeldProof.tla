------------------------------ MODULE HeldProof ------------------------------
(***************************************************************************)
(* A CapabilityProof (model.rs) as a holder keeps it: an inclusion path, a *)
(* non-revocation witness and an issuance signature, each computed from    *)
(* the tree as it was when the proof was drawn.  A path or a witness       *)
(* hashes up to the root of the tree it was drawn from and, with ideal     *)
(* hashing, to no other; so each part carries what it was drawn from.  A   *)
(* signature is the message that was signed.                               *)
(***************************************************************************)

(* Mutant of capability_issuance_signing_message: the root is not covered. *)
IssuanceWithoutRoot(cap, authority_root, epoch) == <<"CAPABILITY-ISSUE", cap, epoch>>

capability_issuance_signing_message(cap, authority_root, epoch) ==
    <<"CAPABILITY-ISSUE", cap, authority_root, epoch>>

capability_proof(cap, active, revoked, signed_root, cert) ==
    [inclusion |-> active,
     non_revocation |-> [stamp |-> cap, revoked |-> revoked],
     issuance |-> [sig |-> capability_issuance_signing_message(cap, signed_root, cert.epoch),
                   epoch_cert |-> cert]]

(* The part of verify_capability_issuance that looks at the signature. *)
SignedFor(issuance, cap, state) ==
    issuance.sig
        = capability_issuance_signing_message(cap, state.authority_root, issuance.epoch_cert.epoch)

(* Mutant of ProofFits: the witness may have been drawn from another V_e. *)
FitsAnyWitness(proof, cap, state) ==
    /\ proof.inclusion = state.authority_root
    /\ proof.non_revocation.stamp = cap
    /\ SignedFor(proof.issuance, cap, state)

(***************************************************************************)
(* The checks of validate_capability that compare a held proof with the    *)
(* state it is used under: the path and the witness must hash to R_e and   *)
(* V_e, the witness must be about the stamp of this capability, and the    *)
(* issuance signature must be over its leaf and over R_e.                  *)
(***************************************************************************)
ProofFits(proof, cap, state) ==
    /\ proof.inclusion = state.authority_root
    /\ proof.non_revocation.stamp = cap
    /\ proof.non_revocation.revoked = state.revocation_root
    /\ SignedFor(proof.issuance, cap, state)
===============================================================================
