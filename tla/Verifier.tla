------------------------------- MODULE Verifier -------------------------------
(***************************************************************************)
(* CryptoAuthorityVerifier (verify.rs): evidence for an epoch, a single    *)
(* signature or the partials collected so far by a threshold round (module *)
(* Tsig), is registered under the authority and the epoch, and states are  *)
(* verified against it, with an offline root key or in the legacy way.     *)
(*                                                                         *)
(* What Tsig calls a state is here the message that is signed.  A          *)
(* signature is a key and a message, and T_e is the list of leaves it      *)
(* commits to.  The root_pk field of a state is the caller's trust anchor: *)
(* neither a signature nor the log covers it, and it is left out.          *)
(***************************************************************************)
EXTENDS Tsig

CONSTANTS
    AuthorityState, \* states that may be presented
    Proof,          \* transparency proofs that may be presented
    Certificate,    \* EpochKeyCerts that may be registered
    Signature,      \* single signatures that may be registered
    Offered,        \* partials that the participants send
    RegistryKey,    \* pairs of an authority and an epoch
    MaxEntries,     \* bound on registered pairs
    RootPk,         \* the offline root's key
    U64_MAX         \* the largest epoch

ASSUME OfferedAssumption == Offered \subseteq Partial

ASSUME PathsAssumption == \A proof \in Proof : proof.leaf_index \in DOMAIN proof.siblings

ASSUME EpochsAssumption ==
    /\ U64_MAX \in Nat
    /\ \A s \in AuthorityState : s.epoch \in 0 .. U64_MAX
    /\ \A cert \in Certificate :
          cert.epoch \in 0 .. U64_MAX /\ cert.validity_window \in 0 .. U64_MAX

IsRecord(r, fields) == r = [f \in fields |-> r[f]]

ASSUME RecordsAssumption ==
    /\ \A s \in AuthorityState :
          IsRecord(s, {"authority_root", "revocation_root", "transparency_root", "epoch",
                       "authority_id", "revocation_count", "prev_epoch_hash"})
    /\ \A proof \in Proof : IsRecord(proof, {"leaf_hash", "leaf_index", "siblings"})
    /\ \A cert \in Certificate :
          IsRecord(cert, {"epoch_pk", "epoch", "validity_window", "signature"})

VARIABLE entries    \* AuthorityEvidenceRegistry: evidence by RegistryKey

vvars == <<partials, entries>>

------------------------------------------------------------------------------
(***************************************************************************)
(* The messages.  Each has a label of its own.                             *)
(***************************************************************************)
Roots(s) ==
    [authority_root |-> s.authority_root, revocation_root |-> s.revocation_root,
     transparency_root |-> s.transparency_root, epoch |-> s.epoch,
     prev_epoch_hash |-> s.prev_epoch_hash]

epoch_root_signing_message(s) == <<"EPOCH-ROOT", Roots(s)>>

tsig_epoch_signing_message(s) == <<"TSIG-EPOCH", Roots(s)>>

authority_state_signing_message(s) ==
    <<"AUTHORITY-STATE", Roots(s), s.authority_id, s.revocation_count>>

(* Mutant of epoch_cert_signing_message: the epoch is not covered. *)
CertMessageWithoutEpoch(epoch_pk, epoch, validity_window) ==
    <<"EPOCH-KEY", epoch_pk, validity_window>>

epoch_cert_signing_message(epoch_pk, epoch, validity_window) ==
    <<"EPOCH-KEY", epoch_pk, epoch, validity_window>>

sign(key, message) == [key |-> key, message |-> message]

issue_epoch_cert(root, epoch_pk, epoch, validity_window) ==
    [epoch_pk |-> epoch_pk, epoch |-> epoch, validity_window |-> validity_window,
     signature |-> sign(root, epoch_cert_signing_message(epoch_pk, epoch, validity_window))]

(***************************************************************************)
(* What the verifier checks.                                               *)
(***************************************************************************)
verify_epoch_cert(root_pk, cert) ==
    cert.signature
        = sign(root_pk, epoch_cert_signing_message(cert.epoch_pk, cert.epoch, cert.validity_window))

(* Mutant of saturating_add: the sum wraps around. *)
wrapping_add(a, b) == (a + b) % (U64_MAX + 1)

saturating_add(a, b) == IF a + b > U64_MAX THEN U64_MAX ELSE a + b

NotExpired(cert, s) == s.epoch < saturating_add(cert.epoch, cert.validity_window)

verify_epoch_root_sig(epoch_pk, s, signature) ==
    signature = sign(epoch_pk, epoch_root_signing_message(s))

(* The threshold signature when the evidence has one, else the single one. *)
RootSigned(evidence, s) ==
    IF evidence.tsig # <<>>
    THEN LET ts == evidence.tsig[1]
         IN  tsig_verify(tsig_epoch_signing_message(s), ts.partials, ts.threshold, ts.authorized_keys)
    ELSE verify_epoch_root_sig(evidence.epoch_cert.epoch_pk, s, evidence.epoch_root_sig)

transparency_leaf_hash(s) ==
    [authority_root |-> s.authority_root, revocation_root |-> s.revocation_root,
     epoch |-> s.epoch, authority_id |-> s.authority_id,
     revocation_count |-> s.revocation_count]

(* A path fixes every leaf but its own, whose place the index gives. *)
merkle_root_from_proof(proof) ==
    [proof.siblings EXCEPT ![proof.leaf_index] = proof.leaf_hash]

(* Mutant of verify_transparency_proof: the leaf may be another state's. *)
VerifiesRootOnly(s, proof) == merkle_root_from_proof(proof) = s.transparency_root

verify_transparency_proof(s, proof) ==
    /\ proof.leaf_hash = transparency_leaf_hash(s)
    /\ merkle_root_from_proof(proof) = s.transparency_root

(* root_pk is an Option: a sequence of at most one key. *)
Accepts(root_pk, evidence, s, proof) ==
    /\ \/ /\ root_pk # <<>>
          /\ verify_epoch_cert(root_pk[1], evidence.epoch_cert)
          /\ NotExpired(evidence.epoch_cert, s)
          /\ RootSigned(evidence, s)
       \/ /\ root_pk = <<>>
          /\ evidence.epoch_root_sig = sign(evidence.epoch_pk, authority_state_signing_message(s))
    /\ verify_transparency_proof(s, proof)

KeyOf(s) == <<s.authority_id, s.epoch>>

verify_state(root_pk, s, proof) ==
    /\ KeyOf(s) \in DOMAIN entries
    /\ Accepts(root_pk, entries[KeyOf(s)], s, proof)

------------------------------------------------------------------------------
(* AuthorityEvidenceRegistry::add: evidence for the same pair is replaced. *)
add_entry(key, evidence) ==
    /\ Cardinality(DOMAIN entries \cup {key}) <= MaxEntries
    /\ entries' = [k \in DOMAIN entries \cup {key} |-> IF k = key THEN evidence ELSE entries[k]]
    /\ UNCHANGED partials

add_evidence(key, epoch_pk, epoch_root_sig, epoch_cert) ==
    add_entry(key, [epoch_pk |-> epoch_pk, epoch_root_sig |-> epoch_root_sig,
                    epoch_cert |-> epoch_cert, tsig |-> <<>>])

(* The unused signature is [0u8; 64]: nobody's. *)
NoSignature == sign("nobody", <<"none">>)

add_evidence_tsig(key, epoch_pk, epoch_cert, tsig_set, keys) ==
    add_entry(key, [epoch_pk |-> epoch_pk, epoch_root_sig |-> NoSignature,
                    epoch_cert |-> epoch_cert,
                    tsig |-> <<[authorized_keys |-> keys, threshold |-> threshold,
                                partials |-> tsig_set]>>])

VInit ==
    /\ Init
    /\ entries = <<>>

VNext ==
    \/ \E p \in Offered : add(p.state, p.key, p.signer_index) /\ UNCHANGED entries
    \/ \E key \in RegistryKey, cert \in Certificate :
          \/ \E s \in Signature : add_evidence(key, s.key, s, cert)
          \/ add_evidence_tsig(key, cert.epoch_pk, cert, partials, authorized_keys)

VSpec == VInit /\ [][VNext]_vvars

------------------------------------------------------------------------------
(* An honest log has one leaf for an authority's epoch. *)
OneLeafPerEpoch(leaves) ==
    \A i, j \in DOMAIN leaves :
        leaves[i].authority_id = leaves[j].authority_id /\ leaves[i].epoch = leaves[j].epoch
            => i = j

Covered(root_pk) ==
    {s \in AuthorityState : \E proof \in Proof : verify_state(root_pk, s, proof)}

SameState(s, u) ==
    /\ Roots(s) = Roots(u)
    /\ s.authority_id = u.authority_id
    /\ s.revocation_count = u.revocation_count

(***************************************************************************)
(* Whatever was registered, and with either kind of verifier, at most one  *)
(* state of an authority's epoch is accepted, in every field: what the     *)
(* signature leaves out (the authority's name and the revocation count)    *)
(* the leaf covers, and what the leaf leaves out (T_e and the previous     *)
(* epoch's hash) the signature covers.  It takes a log with one leaf per   *)
(* epoch and, for threshold evidence, a majority.                          *)
(***************************************************************************)
AcceptedUnique ==
    2 * threshold > n =>
        \A root_pk \in {<<>>, <<RootPk>>} : \A s, u \in Covered(root_pk) :
            KeyOf(s) = KeyOf(u) /\ OneLeafPerEpoch(s.transparency_root) => SameState(s, u)

(***************************************************************************)
(* The certificate's window, at the edge of the epochs' range: of the      *)
(* signed and logged states those from the certificate's epoch to the end  *)
(* of the window, computed without overflow, are accepted, and none beyond *)
(* it; except that the very last epoch is refused under every certificate. *)
(* Of a state before the certificate's epoch nothing is said.              *)
(***************************************************************************)
CertWindow ==
    \A s \in AuthorityState, proof \in Proof :
        KeyOf(s) \in DOMAIN entries =>
            LET evidence == entries[KeyOf(s)]
                cert     == evidence.epoch_cert
            IN  /\ RootSigned(evidence, s)
                /\ verify_epoch_cert(RootPk, cert)
                /\ verify_transparency_proof(s, proof)
                => LET before_end == /\ s.epoch < cert.epoch + cert.validity_window
                                     /\ s.epoch # U64_MAX
                   IN  /\ verify_state(<<RootPk>>, s, proof) => before_end
                       /\ cert.epoch <= s.epoch /\ before_end => verify_state(<<RootPk>>, s, proof)

(***************************************************************************)
(* The changes of the test "fuzz_tsig_cert_chain_semantic" to evidence, a  *)
(* state or a proof that were accepted.                                    *)
(***************************************************************************)
WithTsig(evidence, ts) == [evidence EXCEPT !.tsig = <<ts>>]

Changed(evidence, s, proof) ==
    LET ts     == evidence.tsig[1]
        second == ts.partials[2].signer_index
        on(e)  == <<e, s, proof>>
    IN  {on(WithTsig(evidence, [ts EXCEPT !.threshold = 0])),
         on(WithTsig(evidence, [ts EXCEPT !.threshold = Len(ts.authorized_keys) + 1])),
         on(WithTsig(evidence, [ts EXCEPT !.partials[2].signer_index = ts.partials[1].signer_index])),
         on(WithTsig(evidence, [ts EXCEPT !.partials[2].state = <<"changed">>])),
         on(WithTsig(evidence, [ts EXCEPT !.authorized_keys[second + 1] = "changed"])),
         on([evidence EXCEPT !.epoch_cert.epoch = saturating_add(@, 1)]),
         on([evidence EXCEPT !.epoch_cert.validity_window = 0]),
         <<evidence, [s EXCEPT !.prev_epoch_hash = "changed"], proof>>,
         <<evidence, s, [proof EXCEPT !.leaf_hash.revocation_count = @ + 1]>>}

(***************************************************************************)
(* Threshold evidence with no signature to spare stops being accepted when *)
(* any one of those things is changed, whatever it was before (the         *)
(* assertion of fuzz/fuzz_targets/fuzz_tsig_cert_chain_semantic.rs:270).   *)
(* Something set to the value it has is not changed: a window of 0 may be  *)
(* set to 0, and an epoch of U64_MAX saturates.                            *)
(***************************************************************************)
ChangesRejected ==
    \A key \in DOMAIN entries, s \in AuthorityState, proof \in Proof :
        LET evidence == entries[key]
        IN  /\ KeyOf(s) = key
            /\ evidence.tsig # <<>>
            /\ Len(evidence.tsig[1].partials) = threshold
            /\ threshold > 1
            /\ verify_state(<<RootPk>>, s, proof)
            => \A c \in Changed(evidence, s, proof) :
                   c # <<evidence, s, proof>> => ~Accepts(<<RootPk>>, c[1], c[2], c[3])
===============================================================================
