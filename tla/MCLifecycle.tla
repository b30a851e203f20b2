----------------------------- MODULE MCLifecycle -----------------------------
(***************************************************************************)
(* Epochs 1 to 4, one capability, and three recipients: one with both      *)
(* halves of a hybrid key pair, one classical, and one that has published  *)
(* an ML-KEM key it no longer holds the secret of.  Notices name the key   *)
(* of epoch 1, under which the held proof was issued, or that of epoch 2.  *)
(***************************************************************************)
EXTENDS Lifecycle

MCCap ==
    [id |-> 1, object_id |-> "o", policy_hash |-> "p", rights |-> {"READ", "DECRYPT"},
     epoch_start |-> 1, epoch_end |-> 4, delegation_depth |-> 0, parent_stamp |-> <<>>]

MCCapability == {MCCap}

MCRecipient ==
    {generate("a"), classical_only(generate("b")), [generate("c") EXCEPT !.pq_secret = FALSE]}

MCCert == {CertFor(e) : e \in 1 .. MaxLog}

MCPublishable ==
    [epoch : 1 .. MaxLog, active : {<<MCCap>>}, revoked : {{}, {MCCap}}]

MCPolicy == {[kind |-> "Current"]}

MCRights == {{"READ"}}
==============================================================================
