------------------------------- MODULE MCWire -------------------------------
(***************************************************************************)
(* Cells have five values, so that all four policy tags and one unknown    *)
(* one occur.  Objects vary in one respect at a time around one with a     *)
(* classical wrapper; they are decoded under the three profiles, whole,    *)
(* cut short at every cell, extended, and with any one cell changed.       *)
(* Threshold signature sets are also replaced by every short input.        *)
(***************************************************************************)
EXTENDS Wire

MCMagic == <<2>>

H == <<1>>

W ==
    [epoch |-> 1, kem_ct_classical |-> H, kem_ct_pq |-> <<>>, wrap_nonce |-> H,
     wrapped_dek |-> <<3>>, context_hash |-> H, capability_stamp |-> H, leaf_hash |-> H,
     leaf_index |-> 0, sibling_hashes |-> <<H>>]

O ==
    [version |-> 1, suite |-> <<2>>, object_id |-> <<3>>, required_rights |-> 1,
     policy_hash |-> H, seal_epoch |-> 1, temporal_policy |-> [tag |-> 2, args |-> <<>>],
     authority_root |-> H, revocation_root |-> H, payload_nonce |-> H,
     payload_ciphertext |-> <<4>>, wrappers |-> <<W>>]

Strings == {<<>>, <<1, 0>>, <<0, 1, 2>>}

OtherPolicies ==
    {[tag |-> 1, args |-> <<3>>], [tag |-> 3, args |-> <<0, 4>>], [tag |-> 4, args |-> <<2>>]}

Objects ==
    {O} \cup {[O EXCEPT !.suite = s] : s \in Strings}
        \cup {[O EXCEPT !.object_id = s] : s \in Strings}
        \cup {[O EXCEPT !.payload_ciphertext = s] : s \in Strings}
        \cup {[O EXCEPT !.temporal_policy = p] : p \in OtherPolicies}
        \cup {[O EXCEPT !.wrappers = ws] : ws \in {<<>>, <<W, W>>, <<W, W, W>>}}
        \cup {[O EXCEPT !.wrappers[1].kem_ct_pq = ct] : ct \in {<<4, 4>>, <<0, 1, 2>>}}
        \cup {[O EXCEPT !.wrappers[1].sibling_hashes = p] : p \in {<<>>, <<H, H>>, <<H, H, H>>}}

(* Whether every length and count of an object is within limits. *)
ObjectFits(o, l) ==
    /\ Len(o.suite) <= l.max_suite_len
    /\ Len(o.object_id) <= l.max_object_id_len
    /\ Len(o.payload_ciphertext) <= l.max_payload_ciphertext_len
    /\ Len(o.wrappers) <= l.max_wrappers
    /\ \A k \in DOMAIN o.wrappers :
          /\ Len(o.wrappers[k].kem_ct_pq) <= l.max_wrapped_dek_len
          /\ Len(o.wrappers[k].wrapped_dek) <= l.max_wrapped_dek_len
          /\ Len(o.wrappers[k].sibling_hashes) <= l.max_transparency_siblings

Profiles == {decode_profile_from_env_value(v) : v \in {"embed", "server", "unset"}}

ObjectJobs ==
    {Job(Encode(encode_kyriotes_csk2_object(o)), decode_kyriotes_csk2_object_with_limits(l),
         encode_kyriotes_csk2_object(o), "none", ObjectFits(o, l)) : o \in Objects, l \in Profiles}

Caps ==
    [version : {1}, subject : {<<>>, <<0, 1>>, <<0, 1, 2>>}, object_id : {<<3>>, <<2, 2, 2>>},
     rights : {3}, policy_hash : {H}, epoch_start : {0}, epoch_end : {4},
     delegation_depth : {2}, parent_stamp : {H}, nonce : {<<1, 4>>}]

CapabilityJobs ==
    {Job(Encode(encode_capability(c)), decode_capability_with_limits(2, 2), encode_capability(c),
         "none", Len(c.subject) <= 2 /\ Len(c.object_id) <= 2) : c \in Caps}

Partial(i) == [signer_index |-> i, sig |-> <<i, 3>>]

Sets ==
    [threshold : {0, 2}, partials : {<<>>, <<Partial(0)>>, <<Partial(1), Partial(1)>>,
                                     <<Partial(0), Partial(1), Partial(4)>>}]

SetJobs ==
    {Job(Encode(encode_threshold_signature_set(s)), decode_threshold_signature_set_with_max(max),
         encode_threshold_signature_set(s), "none", Len(s.partials) <= max) :
        s \in Sets, max \in {1, 2}}

Whole == ObjectJobs \cup CapabilityJobs \cup SetJobs

Altered(j, input, how) == [j EXCEPT !.input = input, !.altered = how]

Truncated(j) == {Altered(j, SubSeq(j.input, 1, k), "truncated") : k \in 0 .. Len(j.input) - 1}

Extended(j) ==
    {Altered(j, j.input \o more, "extended") : more \in {<<0>>, <<4, 4>>, <<1, 0>>, j.input}}

Changed(j) ==
    {Altered(j, [j.input EXCEPT ![k] = (@ + d) % Word], "changed") :
        k \in DOMAIN j.input, d \in {1, 3}}

Arbitrary ==
    {Job(input, decode_threshold_signature_set_with_max(2), <<>>, "arbitrary", FALSE) :
        input \in UNION {[1 .. n -> Cell] : n \in 0 .. 5}}

(* The whole jobs that are altered: all but the largest objects. *)
Cuttable == {j \in Whole : Len(j.input) <= 45}

MCJobs ==
    Whole \cup Arbitrary
          \cup UNION {Truncated(j) \cup Extended(j) \cup Changed(j) : j \in Cuttable}
==============================================================================
