--------------------------- MODULE MCAsyncAuthority ---------------------------
(***************************************************************************)
(* Two capabilities, so that a second revocation can overtake the first;   *)
(* both can be issued at epoch 0 only, and revoked at any time.            *)
(* No action and no property reads the commits and the issuance proofs     *)
(* handed out, or the T_e of the state the caller holds: states that       *)
(* differ in nothing else are one.                                         *)
(***************************************************************************)
EXTENDS AsyncAuthority, TLC

CONSTANTS c1, c2

MCCapability == [id : {c1, c2}, epoch_start : {0}, epoch_end : {0}]

Symmetry == Permutations({c1, c2})

ReadState ==
    <<entries, leaf_hashes, revoked_stamps, certs,
      [current EXCEPT !.transparency_root = Zero], inflight, awaiting, asked>>
===============================================================================
