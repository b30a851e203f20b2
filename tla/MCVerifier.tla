------------------------------ MODULE MCVerifier ------------------------------
(***************************************************************************)
(* Two of three participants, four partials: enough for two quorums.  The  *)
(* states differ from Base in one field each, or are of the last epoch;    *)
(* the partials are over Base and over the state with another previous     *)
(* hash, which has the same leaf.  The certificates end beyond the range   *)
(* of epochs, have expired, or begin too late.                             *)
(***************************************************************************)
EXTENDS Verifier, TLC

CONSTANTS k1, k2, k3

MCKey == {k1, k2, k3}
MCKeys == <<k1, k2, k3>>

LeafOf(epoch, count) ==
    [authority_root |-> "R", revocation_root |-> "V", epoch |-> epoch,
     authority_id |-> "main", revocation_count |-> count]

ShortLog == <<LeafOf(5, 0), LeafOf(6, 1)>>
LongLog == <<LeafOf(5, 0), LeafOf(6, 1), LeafOf(7, 1)>>
CountLog == <<LeafOf(5, 0), LeafOf(6, 2)>>

Base ==
    [authority_root |-> "R", revocation_root |-> "V", transparency_root |-> ShortLog,
     epoch |-> 6, authority_id |-> "main", revocation_count |-> 1, prev_epoch_hash |-> "P"]

OtherPrev == [Base EXCEPT !.prev_epoch_hash = "Q"]
OtherCount == [Base EXCEPT !.revocation_count = 2]
LaterLog == [Base EXCEPT !.transparency_root = LongLog]
LastEpoch == [LaterLog EXCEPT !.epoch = 7]

MCAuthorityState == {Base, OtherPrev, OtherCount, LaterLog, LastEpoch}

MCProof ==
    {[leaf_hash |-> log[i], leaf_index |-> i, siblings |-> log] :
        log \in {ShortLog, LongLog}, i \in 2 .. 2}
    \cup {[leaf_hash |-> LeafOf(7, 1), leaf_index |-> 3, siblings |-> LongLog],
          [leaf_hash |-> LeafOf(6, 2), leaf_index |-> 2, siblings |-> CountLog]}

MCState == {tsig_epoch_signing_message(s) : s \in MCAuthorityState}

Sent(s, key, i) == tsig_sign(tsig_epoch_signing_message(s), key, i)

MCOffered ==
    {Sent(Base, k1, 0), Sent(Base, k2, 1), Sent(Base, k2, 0), Sent(Base, k1, 3),
     Sent(OtherPrev, k2, 1), Sent(OtherPrev, k3, 2)}

MCSignature ==
    {sign(k1, epoch_root_signing_message(Base)), sign(k1, epoch_root_signing_message(LastEpoch)),
     sign(k1, authority_state_signing_message(Base))}

MCCertificate ==
    {issue_epoch_cert("root", k1, 6, 3), issue_epoch_cert("root", k1, 5, 1),
     issue_epoch_cert("root", k1, 7, 1)}

MCRegistryKey == {<<"main", 6>>, <<"main", 7>>}
===============================================================================
