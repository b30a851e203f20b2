-------------------------- MODULE MCCapabilityTree --------------------------
(***************************************************************************)
(* Four capabilities issued and five stamps revoked in every order, and    *)
(* witnesses asked for those and for stamps before, between and after      *)
(* them.  Lists of five have lone nodes on two levels of their tree.       *)
(***************************************************************************)
EXTENDS CapabilityTree

MCCapability == 1 .. 4
MCRevocable == {2, 4, 6, 8, 10}
MCStamp == 1 .. 11
==============================================================================
