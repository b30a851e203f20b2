------------------------------ MODULE Delegation ------------------------------
(***************************************************************************)
(* delegate_capability (engine.rs): holders pass on part of a capability,  *)
(* and those who receive it may pass on part of that.  caps holds every    *)
(* capability made so far; the subject is chosen freely, the version       *)
(* copied, and neither plays a part.                                       *)
(***************************************************************************)
EXTENDS Integers, FiniteSets

CONSTANTS
    Direct,                 \* capabilities the authority issued directly
    Rights,                 \* the rights bits, "DELEGATE" among them
    Epoch,                  \* ends of the windows asked for
    MAX_DELEGATION_DEPTH,   \* 255 in the code
    MaxCaps                 \* bound on capabilities made

ASSUME DepthAssumption == MAX_DELEGATION_DEPTH \in Nat

ASSUME EpochAssumption == Epoch \subseteq Int

Zero == <<>>    \* [0u8; 32]

VARIABLE caps

capability_stamp(cap) == <<"stamp", cap>>

(* What the issuing authority hands out (issue_capability). *)
DirectlyIssued(cap) ==
    /\ cap.rights \subseteq Rights
    /\ cap.epoch_start \in Int /\ cap.epoch_end \in Int
    /\ cap.delegation_depth = 0
    /\ cap.parent_stamp = Zero

(* Types. *)
TypeOK ==
    \A cap \in caps : /\ cap.rights \subseteq Rights
                      /\ cap.epoch_start \in Int /\ cap.epoch_end \in Int
                      /\ cap.delegation_depth \in Nat

ASSUME DirectAssumption == \A cap \in Direct : DirectlyIssued(cap)

------------------------------------------------------------------------------
contains_all(rights, required) == required \subseteq rights

Delegated(parent_cap, new_rights, new_epoch_start, new_epoch_end, nonce) ==
    [object_id        |-> parent_cap.object_id,
     policy_hash      |-> parent_cap.policy_hash,
     rights           |-> new_rights,
     epoch_start      |-> new_epoch_start,
     epoch_end        |-> new_epoch_end,
     delegation_depth |-> parent_cap.delegation_depth + 1,
     parent_stamp     |-> capability_stamp(parent_cap),
     nonce            |-> nonce]

(* Mutants of MayDelegate: rights unchecked; the depth off by one. *)
MayDelegateAnyRights(parent_cap, new_rights, new_epoch_start, new_epoch_end) ==
    /\ contains_all(parent_cap.rights, {"DELEGATE"})
    /\ parent_cap.epoch_start <= new_epoch_start /\ new_epoch_end <= parent_cap.epoch_end
    /\ new_epoch_start <= new_epoch_end
    /\ parent_cap.delegation_depth < MAX_DELEGATION_DEPTH

MayDelegateTooDeep(parent_cap, new_rights, new_epoch_start, new_epoch_end) ==
    /\ contains_all(parent_cap.rights, {"DELEGATE"})
    /\ contains_all(parent_cap.rights, new_rights)
    /\ parent_cap.epoch_start <= new_epoch_start /\ new_epoch_end <= parent_cap.epoch_end
    /\ new_epoch_start <= new_epoch_end
    /\ parent_cap.delegation_depth <= MAX_DELEGATION_DEPTH

MayDelegate(parent_cap, new_rights, new_epoch_start, new_epoch_end) ==
    /\ contains_all(parent_cap.rights, {"DELEGATE"})
    /\ contains_all(parent_cap.rights, new_rights)
    /\ parent_cap.epoch_start <= new_epoch_start /\ new_epoch_end <= parent_cap.epoch_end
    /\ new_epoch_start <= new_epoch_end
    /\ parent_cap.delegation_depth < MAX_DELEGATION_DEPTH

delegate_capability(parent_cap, new_rights, new_epoch_start, new_epoch_end) ==
    /\ Cardinality(caps) < MaxCaps
    /\ MayDelegate(parent_cap, new_rights, new_epoch_start, new_epoch_end)
    /\ caps' = caps \cup {Delegated(parent_cap, new_rights, new_epoch_start,
                                    new_epoch_end, Cardinality(caps))}

Init == caps = Direct

Next ==
    \E parent_cap \in caps, new_rights \in SUBSET Rights, start, end \in Epoch :
        delegate_capability(parent_cap, new_rights, start, end)

Spec == Init /\ [][Next]_caps

------------------------------------------------------------------------------
(***************************************************************************)
(* However long the chain, a capability gives no right, no epoch and no    *)
(* object that a directly issued one does not give, and under no other     *)
(* policy: "Each successive delegation may only narrow rights and epoch    *)
(* windows relative to its parent.  The policy_hash and object_id are      *)
(* inherited unchanged from the root capability" (Spec-Sheet:86).          *)
(***************************************************************************)
WithinARoot ==
    \A cap \in caps : \E root \in Direct :
        /\ cap.object_id = root.object_id /\ cap.policy_hash = root.policy_hash
        /\ cap.rights \subseteq root.rights
        /\ root.epoch_start <= cap.epoch_start /\ cap.epoch_end <= root.epoch_end
        /\ cap.delegation_depth = 0 => cap = root

(***************************************************************************)
(* Every delegated capability can be traced: its parent_stamp is the stamp *)
(* of a capability one level up that had the right to delegate, the level  *)
(* never passes MAX_DELEGATION_DEPTH ("A delegated capability cannot       *)
(* exceed the delegation depth bound", docs/SWDD.md:726), and the depth    *)
(* and stamp fit together as validate_capability demands.                  *)
(***************************************************************************)
ChainTraceable ==
    \A cap \in caps :
        /\ cap.delegation_depth <= MAX_DELEGATION_DEPTH
        /\ cap.delegation_depth > 0 <=> cap.parent_stamp # Zero
        /\ cap.delegation_depth > 0 =>
              \E parent \in caps :
                 /\ cap.parent_stamp = capability_stamp(parent)
                 /\ parent.delegation_depth + 1 = cap.delegation_depth
                 /\ "DELEGATE" \in parent.rights
===============================================================================
