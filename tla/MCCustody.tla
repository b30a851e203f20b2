------------------------------- MODULE MCCustody -------------------------------
(***************************************************************************)
(* One capability that may be delegated and one that may not, neither with *)
(* every right; three delegations, one more than a chain may have, some of *)
(* which end or begin while the authority publishes four epochs.           *)
(***************************************************************************)
EXTENDS Custody

MCRights == {"READ", "DELEGATE"}

MCDirect ==
    {[object_id |-> "o", policy_hash |-> "p", rights |-> {"DELEGATE"},
      epoch_start |-> 1, epoch_end |-> 3, delegation_depth |-> 0, parent_stamp |-> <<>>,
      nonce |-> 0],
     [object_id |-> "o", policy_hash |-> "p", rights |-> {"READ"},
      epoch_start |-> 0, epoch_end |-> 2, delegation_depth |-> 0, parent_stamp |-> <<>>,
      nonce |-> 1]}
================================================================================
