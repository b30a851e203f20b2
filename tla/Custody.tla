-------------------------------- MODULE Custody --------------------------------
(***************************************************************************)
(* Capabilities in their holders' hands: they are delegated (module        *)
(* Delegation), issued and revoked, and each holder keeps paths, witnesses *)
(* and issuance signatures that the authority computed at one epoch or     *)
(* another, and puts a CapabilityProof together from them.                 *)
(*                                                                         *)
(* The tree is the one of the latest published state: the authority issues *)
(* and revokes through the "and_commit" operations, each for a new epoch.  *)
(* What a holder may have kept is everything that could be drawn from a    *)
(* published state, so it needs no variable.                               *)
(***************************************************************************)
EXTENDS Delegation, HeldProof, SequencesExt

CONSTANT MaxStates      \* bound on published states

VARIABLE states         \* states published, one per epoch from 0

cvars == <<caps, states>>

CurrentState == Last(states)

NextEpoch == CurrentState.epoch + 1

------------------------------------------------------------------------------
(* AuthorityCapabilityTree::add_capability. *)
add_capability(leaves, cap) ==
    IF Contains(leaves, cap) THEN leaves ELSE Append(leaves, cap)

(* Mutant of revoke_stamp: the capabilities delegated from it go with it. *)
RevokesChildren(revoked, cap) ==
    revoked \cup {c \in caps : c = cap \/ c.parent_stamp = capability_stamp(cap)}

revoke_stamp(revoked, cap) == revoked \cup {cap}

InWindow(epoch, cap) == cap.epoch_start <= epoch /\ epoch <= cap.epoch_end

Publish(authority_root, revocation_root) ==
    /\ Len(states) < MaxStates
    /\ states' = Append(states, [epoch |-> NextEpoch, authority_root |-> authority_root,
                                 revocation_root |-> revocation_root])
    /\ UNCHANGED caps

issue_capability_and_commit(cap) ==
    /\ InWindow(NextEpoch, cap)
    /\ Publish(add_capability(CurrentState.authority_root, cap), CurrentState.revocation_root)

revoke_capability_and_commit(cap) ==
    /\ Contains(CurrentState.authority_root, cap)
    /\ Publish(CurrentState.authority_root, revoke_stamp(CurrentState.revocation_root, cap))

------------------------------------------------------------------------------
(***************************************************************************)
(* What the authority computes from a published state: a path for a listed *)
(* capability, a witness for an unrevoked one, and a signature by the      *)
(* epoch's key.                                                            *)
(***************************************************************************)
inclusion_proof(cap, state) == Contains(state.authority_root, cap)

non_revocation_witness(cap, state) == cap \notin state.revocation_root

sign_capability_issuance(cap, state) ==
    /\ Contains(state.authority_root, cap)
    /\ InWindow(state.epoch, cap)

(* The proofs of cap put together from parts of published states. *)
KeptProof(cap, i, w, s) ==
    capability_proof(cap, i.authority_root, w.revocation_root, s.authority_root,
                     [epoch |-> s.epoch])

Published == {states[k] : k \in DOMAIN states}

Kept(cap) ==
    {KeptProof(cap, i, w, s) :
        i \in {i \in Published : inclusion_proof(cap, i)},
        w \in {w \in Published : non_revocation_witness(cap, w)},
        s \in {s \in Published : sign_capability_issuance(cap, s)}}

(* validate_capability, for a request of the capability's own rights. *)
validate_capability(cap, proof, state) ==
    /\ cap.delegation_depth > 0 <=> cap.parent_stamp # Zero
    /\ ProofFits(proof, cap, state)
    /\ InWindow(proof.issuance.epoch_cert.epoch, cap)
    /\ InWindow(state.epoch, cap)

CInit ==
    /\ Init
    /\ states = <<[epoch |-> 0, authority_root |-> <<>>, revocation_root |-> {}]>>

CNext ==
    \/ Next /\ UNCHANGED states
    \/ \E cap \in caps : issue_capability_and_commit(cap) \/ revoke_capability_and_commit(cap)

CSpec == CInit /\ [][CNext]_cvars

------------------------------------------------------------------------------
(***************************************************************************)
(* However a holder mixes a path, a witness and a signature of different   *)
(* epochs, the proof validates only under states in which the capability   *)
(* is listed and not revoked.                                              *)
(***************************************************************************)
KeptProofSound ==
    \A cap \in caps, state \in Published : \A proof \in Kept(cap) :
        validate_capability(cap, proof, state) =>
            /\ Contains(state.authority_root, cap)
            /\ cap \notin state.revocation_root

(***************************************************************************)
(* An issuance signature is outdated by the next capability that is issued *)
(* to anyone: a fresh path and a fresh witness do not help, the signature  *)
(* has to be made again, over the tree as it now is.                       *)
(***************************************************************************)
SignatureOutdated ==
    \A cap \in caps, state, s \in Published :
        /\ sign_capability_issuance(cap, s)
        /\ validate_capability(cap, KeptProof(cap, state, state, s), state)
        => \A between \in Published :
              s.epoch <= between.epoch /\ between.epoch <= state.epoch =>
                  between.authority_root = state.authority_root

(* A proof drawn anew from the current state. *)
Usable(cap) ==
    /\ inclusion_proof(cap, CurrentState)
    /\ non_revocation_witness(cap, CurrentState)
    /\ sign_capability_issuance(cap, CurrentState)
    /\ validate_capability(cap, KeptProof(cap, CurrentState, CurrentState, CurrentState), CurrentState)

(***************************************************************************)
(* A capability stays usable, with a proof drawn anew, until it is itself  *)
(* revoked or its window ends: a revocation does not reach the             *)
(* capabilities delegated from the revoked one, nor anybody else's.        *)
(***************************************************************************)
RevokesOnlyItself ==
    [][\A cap \in caps :
          Usable(cap) /\ ~Usable(cap)' =>
              \/ revoke_capability_and_commit(cap)
              \/ ~InWindow(CurrentState.epoch, cap)']_cvars
================================================================================
