------------------------------ MODULE MCEngine ------------------------------
(***************************************************************************)
(* One capability issued directly and one delegated from it, for epoch 1   *)
(* only.  Up to three of the epochs 1 to 4 are published; the certificate  *)
(* of epoch 1 has run out at epoch 4.  LongPolicies, OneCapability, MCCert *)
(* and MCPublishable are for an object that may be opened up to epoch 3.   *)
(***************************************************************************)
EXTENDS Engine, TLC

CONSTANTS r1, r2

Direct ==
    [id |-> 1, object_id |-> "o", policy_hash |-> "p", rights |-> {"open", "reseal"},
     epoch_start |-> 1, epoch_end |-> 4, delegation_depth |-> 0, parent_stamp |-> <<>>]

Delegated ==
    [id |-> 2, object_id |-> "o", policy_hash |-> "p", rights |-> {"open"},
     epoch_start |-> 1, epoch_end |-> 1, delegation_depth |-> 1, parent_stamp |-> <<"stamp", 1>>]

TwoCapabilities == {Direct, Delegated}

PublishableTwo ==
    LET RecordAt(e, v) == [epoch |-> e, active |-> <<Direct, Delegated>>, revoked |-> v]
    IN  {RecordAt(e, {}) : e \in 1 .. 4} \cup {RecordAt(e, {Direct}) : e \in 2 .. 3}

OneCert == {[epoch_pk |-> 1, epoch |-> 1, validity_window |-> 3]}

ShortPolicies ==
    {[kind |-> "Historical", epoch |-> 1], [kind |-> "ResealRequired", after |-> 1],
     [kind |-> "Window", start |-> 1, end |-> 2]}

OpenRights == {{"open"}}

Recipients == {generate(r1), generate(r2)}

Symmetry == Permutations({r1, r2})

------------------------------------------------------------------------------
OneRecipient == {generate(r1)}

OneCapability == {Direct}

MCPublishable ==
    {[epoch |-> e, active |-> <<Direct>>, revoked |-> v] : e \in 1 .. 3, v \in {{}, {Direct}}}

MCCert ==
    {[epoch_pk |-> 1, epoch |-> 1, validity_window |-> 3],
     [epoch_pk |-> 2, epoch |-> 2, validity_window |-> 1]}

LongPolicies ==
    {[kind |-> "Current"], [kind |-> "ResealRequired", after |-> 2],
     [kind |-> "Window", start |-> 2, end |-> 3]}
=============================================================================
