--------------------------------- MODULE Tsig ---------------------------------
(***************************************************************************)
(* Threshold epoch signatures (tsig.rs).  Participants sign the epoch      *)
(* state each has in hand, under the index each was given; partials reach  *)
(* the set in any order, repeated, or with a wrong index, and a            *)
(* participant may sign again when the state changes (T_e is known only    *)
(* after the commit).                                                      *)
(***************************************************************************)
EXTENDS Integers, Sequences, FiniteSets

CONSTANTS
    Key,                \* participants' key pairs
    State,              \* epoch states that may be signed
    authorized_keys,    \* the n authorized keys, in order
    threshold,          \* t
    MaxPartials         \* bound on partials collected

ASSUME KeysAssumption == authorized_keys \in Seq(Key)

ASSUME ThresholdAssumption == threshold \in Nat

VARIABLE partials   \* ThresholdSignatureSet::partials

n == Len(authorized_keys)

(***************************************************************************)
(* tsig_sign and ThresholdSignatureSet::add.  A signature is the key and   *)
(* the state it was made over.                                             *)
(***************************************************************************)
tsig_sign(state, key, signer_index) ==
    [signer_index |-> signer_index, key |-> key, state |-> state]

add(state, key, signer_index) ==
    /\ Len(partials) < MaxPartials
    /\ partials' = Append(partials, tsig_sign(state, key, signer_index))

Init == partials = <<>>

Next ==
    \E state \in State, key \in Key, i \in 0 .. n : add(state, key, i)

Spec == Init /\ [][Next]_partials

------------------------------------------------------------------------------
(***************************************************************************)
(* tsig_verify: the set of partials, its threshold t and the authorized    *)
(* keys are its arguments.                                                 *)
(***************************************************************************)
Indices(keys) == 0 .. Len(keys) - 1

Verifies(state, partial, keys) ==
    /\ partial.signer_index \in Indices(keys)
    /\ partial.key = keys[partial.signer_index + 1]
    /\ partial.state = state

(* The first partial that claims index i, as the seen vector makes it. *)
IsFirst(set, k) == \A j \in 1 .. k - 1 : set[j].signer_index # set[k].signer_index

(* Mutant of Counted: the last partial of a signer replaces the earlier ones. *)
CountedLast(state, set, keys) ==
    {i \in Indices(keys) :
        \E k \in DOMAIN set : /\ set[k].signer_index = i
                              /\ \A j \in k + 1 .. Len(set) : set[j].signer_index # i
                              /\ Verifies(state, set[k], keys)}

Counted(state, set, keys) ==
    {i \in Indices(keys) :
        \E k \in DOMAIN set : /\ set[k].signer_index = i
                              /\ IsFirst(set, k)
                              /\ Verifies(state, set[k], keys)}

(* Mutant of valid_count: no seen vector, every valid partial counts. *)
CountsPartials(state, set, keys) ==
    Cardinality({k \in DOMAIN set : Verifies(state, set[k], keys)})

valid_count(state, set, keys) == Cardinality(Counted(state, set, keys))

(* Mutant of tsig_verify: off by one. *)
VerifiesOneShort(state, set, t, keys) ==
    /\ 0 < t /\ t <= Len(keys)
    /\ valid_count(state, set, keys) + 1 >= t

tsig_verify(state, set, t, keys) ==
    /\ 0 < t /\ t <= Len(keys)
    /\ valid_count(state, set, keys) >= t

(* A set verified as its round was set up. *)
Certifies(set, state) == tsig_verify(state, set, threshold, authorized_keys)

------------------------------------------------------------------------------
Partial == [signer_index : Nat, key : Key, state : State]

(* The authorized participants whose signature over state is in the set. *)
Signers(set, state) ==
    {authorized_keys[i] : i \in 1 .. n} \cap
    {set[k].key : k \in {k \in DOMAIN set : set[k].state = state}}

DistinctKeys ==
    \A i, j \in 1 .. n : authorized_keys[i] = authorized_keys[j] => i = j

(***************************************************************************)
(* If the authorized keys are distinct (which tsig_verify leaves to its    *)
(* caller), a set it accepts for a state holds signatures over that very   *)
(* state by t different authorized participants, however partials were     *)
(* repeated or misindexed.                                                 *)
(***************************************************************************)
ThresholdSound ==
    DistinctKeys =>
        \A state \in State :
            Certifies(partials, state) => Cardinality(Signers(partials, state)) >= threshold

(***************************************************************************)
(* When t is a majority one set never verifies for two states.  The seen   *)
(* vector of tsig_verify is set before a partial is verified, so that the  *)
(* first partial of an index speaks for it, valid or not, and a            *)
(* participant that signed two states counts for one of them.  This is a   *)
(* property of the code, not of its comment: if the first valid partial    *)
(* counted (FirstValidCounts below), such a participant would count for    *)
(* whichever state is verified.                                            *)
(***************************************************************************)
OneStatePerSet ==
    2 * threshold > n =>
        \A s1, s2 \in State :
            Certifies(partials, s1) /\ Certifies(partials, s2) => s1 = s2

(***************************************************************************)
(* A set that has reached its threshold stays valid whatever arrives late. *)
(***************************************************************************)
AcceptanceStable ==
    [][\A state \in State : Certifies(partials, state) => Certifies(partials', state)]_partials

------------------------------------------------------------------------------
(* The indices for which some valid partial is in the set. *)
ValidIndices(state, set, keys) ==
    {i \in Indices(keys) :
        \E k \in DOMAIN set : set[k].signer_index = i /\ Verifies(state, set[k], keys)}

(***************************************************************************)
(* A set with valid partials under t indices verifies: "If multiple        *)
(* partial signatures claim the same signer_index, only the first valid    *)
(* one counts toward the threshold" (src/src/kyriotes_csk2/tsig.rs:132).   *)
(***************************************************************************)
FirstValidCounts ==
    0 < threshold /\ threshold <= n =>
        \A state \in State :
            Cardinality(ValidIndices(state, partials, authorized_keys)) >= threshold
            => Certifies(partials, state)
===============================================================================
