----------------------------- MODULE EpochLedger -----------------------------
(***************************************************************************)
(* What an authority promises its recipients, and nothing about how: a     *)
(* list of published epochs in which epochs only go up, a capability once  *)
(* listed stays listed, and a capability once revoked stays revoked        *)
(* ("A revocation inserted at epoch e_r must remain detectable at every    *)
(* subsequent epoch", src/src/kyriotes_csk2/model.rs:218).                 *)
(***************************************************************************)
EXTENDS Integers, Sequences

CONSTANT Capability

VARIABLE ledger

Record == [epoch : Nat, active : Seq(Capability), revoked : SUBSET Capability]

Extends(later, earlier) ==
    /\ earlier.epoch < later.epoch
    /\ earlier.revoked \subseteq later.revoked
    /\ Len(earlier.active) <= Len(later.active)
    /\ \A i \in 1 .. Len(earlier.active) : later.active[i] = earlier.active[i]

Publish(r) ==
    /\ r \in Record
    /\ \A i \in DOMAIN ledger : Extends(r, ledger[i])
    /\ ledger' = Append(ledger, r)

Init == ledger = <<>>

Next ==
    /\ Len(ledger') > Len(ledger)
    /\ Publish(ledger'[Len(ledger')])

Spec == Init /\ [][Next]_ledger
==============================================================================
