----------------------------- MODULE MCAuthority -----------------------------
(* Two capabilities, one of which expires before the last epoch. *)
EXTENDS Authority

MCCapability ==
    {[id |-> 1, epoch_start |-> 0, epoch_end |-> 2],
     [id |-> 2, epoch_start |-> 1, epoch_end |-> 9]}
==============================================================================
