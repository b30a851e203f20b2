---------------------------- MODULE Engine_proofs ----------------------------
(***************************************************************************)
(* The engine's properties for every set of capabilities, certificates,    *)
(* recipients, policies and rights, and any number of epochs and objects.  *)
(*                                                                         *)
(* The inductive invariant has three parts.  The log is ordered: each      *)
(* record extends all that come before it.  Every signature in the         *)
(* registry is filed under the epoch it signs and is over a record of the  *)
(* log.  And every object is Coherent: besides what WrappersCoherent says, *)
(* its transparency proofs point into the log and it was sealed within the *)
(* window of the capability its wrappers carry.                            *)
(*                                                                         *)
(* The second half is about the lifecycle of one object; its theorems use  *)
(* the assumptions of module Lifecycle, those on the engine use none.      *)
(***************************************************************************)
EXTENDS Lifecycle, TLAPS

IsASeq(s) == s \in Seq({s[i] : i \in DOMAIN s})

LedgerOrdered(log) ==
    /\ log \in Seq(Record)
    /\ \A i, j \in DOMAIN log : i < j => Extends(log[j], log[i])

EvidenceSigned(registry, log) ==
    \A e \in DOMAIN registry : \E i \in DOMAIN log, n \in Nat :
        /\ registry[e].epoch_root_sig = StateOf(log, i, n)
        /\ e = log[i].epoch

OneWrapperPerEpoch(object) ==
    \A j, m \in DOMAIN object.wrappers :
        object.wrappers[j].epoch = object.wrappers[m].epoch => j = m

HeaderFields ==
    {"version", "suite", "object_id", "required_rights", "policy_hash", "seal_epoch",
     "temporal_policy", "authority_root", "revocation_root", "dek", "payload_aad", "wrappers"}

GoodWrapper(object, j, log) ==
    LET wrapper == object.wrappers[j]
    IN  /\ wrapper.epoch \in Nat
        /\ wrapper.transparency_proof.leaf_index \in DOMAIN log
        /\ j > 1 => wrapper.epoch > object.seal_epoch
        /\ wrapper.capability_stamp = object.wrappers[1].capability_stamp
        /\ wrapper.wrapped_dek.dek = object.dek

Coherent(object, log) ==
    /\ HeaderFields = DOMAIN object
    /\ object = [f \in DOMAIN object |-> object[f]]
    /\ object.seal_epoch \in Nat
    /\ IsASeq(object.wrappers)
    /\ 1 \in DOMAIN object.wrappers
    /\ object.wrappers[1].epoch = object.seal_epoch
    /\ InWindow(object.seal_epoch, object.wrappers[1].capability_stamp)
    /\ OneWrapperPerEpoch(object)
    /\ \A j \in DOMAIN object.wrappers : GoodWrapper(object, j, log)

ObjectsCoherent(list, log) ==
    /\ IsASeq(list)
    /\ \A k \in DOMAIN list : Coherent(list[k], log)

EngineInv ==
    /\ LedgerOrdered(ledger)
    /\ EvidenceSigned(evidence, ledger)
    /\ ObjectsCoherent(objects, ledger)

------------------------------------------------------------------------------
(* Appending to a sequence keeps its elements and adds one. *)
LEMMA Appended ==
    ASSUME NEW s, IsASeq(s), NEW x
    PROVE  /\ IsASeq(Append(s, x))
           /\ Len(s) \in Nat
           /\ DOMAIN s = 1 .. Len(s)
           /\ DOMAIN Append(s, x) = 1 .. Len(s) + 1
           /\ Append(s, x)[Len(s) + 1] = x
           /\ \A i \in DOMAIN s : Append(s, x)[i] = s[i]
<1> DEFINE S == {s[i] : i \in DOMAIN s}
           A == Append(s, x)
           T == S \cup {x}
<1>1. s \in Seq(S)
  BY DEF IsASeq
<1>2. s \in Seq(T)
  BY <1>1
<1>3. x \in T
  OBVIOUS
<1> HIDE DEF S, T
<1>4. /\ A \in Seq(T)
      /\ Len(s) \in Nat
      /\ DOMAIN s = 1 .. Len(s)
      /\ DOMAIN A = 1 .. Len(s) + 1
      /\ Len(A) = Len(s) + 1
      /\ A[Len(s) + 1] = x
      /\ \A i \in DOMAIN s : A[i] = s[i]
  BY <1>2, <1>3
<1> HIDE DEF A
<1>5. A \in Seq({A[i] : i \in DOMAIN A})
  BY <1>4
<1> QED
  BY <1>4, <1>5 DEF IsASeq, A

(* Replacing an element of a sequence leaves a sequence. *)
LEMMA Replaced ==
    ASSUME NEW s, IsASeq(s), NEW k \in DOMAIN s, NEW x
    PROVE  /\ IsASeq([s EXCEPT ![k] = x])
           /\ DOMAIN [s EXCEPT ![k] = x] = DOMAIN s
           /\ [s EXCEPT ![k] = x][k] = x
           /\ \A i \in DOMAIN s : i # k => [s EXCEPT ![k] = x][i] = s[i]
<1> DEFINE S == {s[i] : i \in DOMAIN s}
           A == [s EXCEPT ![k] = x]
           T == S \cup {x}
<1>1. s \in Seq(S)
  BY DEF IsASeq
<1>2. s \in Seq(T) /\ x \in T
  BY <1>1
<1> HIDE DEF S, T
<1>3. A \in Seq(T) /\ DOMAIN A = DOMAIN s /\ A[k] = x /\ \A i \in DOMAIN s : i # k => A[i] = s[i]
  BY <1>2
<1> HIDE DEF A
<1>4. A \in Seq({A[i] : i \in DOMAIN A})
  BY <1>3
<1> QED
  BY <1>3, <1>4 DEF IsASeq, A

(* Publishing keeps the log ordered and what it says of old epochs. *)
LEMMA Published ==
    ASSUME NEW log, LedgerOrdered(log), NEW r \in Record,
           \A i \in DOMAIN log : Extends(r, log[i])
    PROVE  /\ LedgerOrdered(Append(log, r))
           /\ DOMAIN log \subseteq DOMAIN Append(log, r)
           /\ \A i \in DOMAIN log : Append(log, r)[i] = log[i]
           /\ \A i \in DOMAIN log : \A n : StateOf(Append(log, r), i, n) = StateOf(log, i, n)
           /\ Len(Append(log, r)) \in DOMAIN Append(log, r)
           /\ Append(log, r)[Len(Append(log, r))] = r
<1> DEFINE A == Append(log, r)
<1>1. /\ log \in Seq(Record)
      /\ A \in Seq(Record)
      /\ Len(log) \in Nat
      /\ DOMAIN log = 1 .. Len(log)
      /\ DOMAIN A = 1 .. Len(log) + 1
      /\ Len(A) = Len(log) + 1
      /\ A[Len(log) + 1] = r
      /\ \A i \in DOMAIN log : A[i] = log[i]
  BY DEF LedgerOrdered
<1> HIDE DEF A
<1>2. ASSUME NEW i \in DOMAIN A, NEW j \in DOMAIN A, i < j
      PROVE  Extends(A[j], A[i])
  <2>1. CASE j \in DOMAIN log
    <3>1. i \in DOMAIN log
      BY <1>1, <1>2, <2>1
    <3> QED
      BY <1>1, <1>2, <2>1, <3>1 DEF LedgerOrdered
  <2>2. CASE j = Len(log) + 1
    <3>1. i \in DOMAIN log
      BY <1>1, <1>2, <2>2
    <3> QED
      BY <1>1, <2>2, <3>1
  <2> QED
    BY <1>1, <2>1, <2>2
<1>3. LedgerOrdered(A)
  BY <1>1, <1>2 DEF LedgerOrdered
<1>4. ASSUME NEW i \in DOMAIN log, NEW n PROVE StateOf(A, i, n) = StateOf(log, i, n)
  BY <1>1 DEF StateOf
<1>5. DOMAIN log \subseteq DOMAIN A /\ Len(A) \in DOMAIN A
  BY <1>1
<1> QED
  BY <1>1, <1>3, <1>4, <1>5 DEF A

------------------------------------------------------------------------------
(* The epoch of a state of the log is a number. *)
LEMMA StateEpoch ==
    ASSUME NEW log, LedgerOrdered(log), NEW i \in DOMAIN log, NEW n
    PROVE  StateOf(log, i, n).epoch \in Nat /\ StateOf(log, i, n).epoch = log[i].epoch
<1>1. log[i] \in Record
  BY DEF LedgerOrdered
<1> QED
  BY <1>1 DEF StateOf, Record

(* An object has at most one wrapper for an epoch: FindWrapper finds it. *)
LEMMA Found ==
    ASSUME NEW object, NEW log, Coherent(object, log), NEW epoch,
           WrapperIndices(object, epoch) # {}
    PROVE  /\ FirstIndex(object, epoch) \in DOMAIN object.wrappers
           /\ FindWrapper(object, epoch) = object.wrappers[FirstIndex(object, epoch)]
           /\ FindWrapper(object, epoch).epoch = epoch
           /\ WrapperIndices(object, epoch) = {FirstIndex(object, epoch)}
<1> DEFINE W == WrapperIndices(object, epoch)
<1>1. PICK k \in W : TRUE
  OBVIOUS
<1>2. IsASeq(object.wrappers)
  BY DEF Coherent
<1>3. DOMAIN object.wrappers = 1 .. Len(object.wrappers) /\ Len(object.wrappers) \in Nat
  BY <1>2, Appended
<1>4. W = {k}
  BY <1>1 DEF WrapperIndices, Coherent, OneWrapperPerEpoch
<1>5. k \in Int
  BY <1>1, <1>3 DEF WrapperIndices
<1>6. \E i \in W : \A j \in W : i <= j
  BY <1>4, <1>5
<1>7. FirstIndex(object, epoch) \in W
  BY <1>6 DEF FirstIndex
<1>8. FirstIndex(object, epoch) = k
  BY <1>4, <1>7
<1> QED
  BY <1>4, <1>7, <1>8 DEF WrapperIndices, FindWrapper

(* A log that grows does not make an object incoherent. *)
LEMMA CoherentLater ==
    ASSUME NEW object, NEW log, NEW later, DOMAIN log \subseteq DOMAIN later,
           Coherent(object, log)
    PROVE  Coherent(object, later)
BY DEF Coherent, GoodWrapper

(* A wrapper that is looked up is one of the object's. *)
LEMMA FoundAmong ==
    ASSUME NEW object, NEW log, Coherent(object, log), NEW epoch,
           WrapperIndices(object, epoch) # {}
    PROVE  \E j \in DOMAIN object.wrappers : FindWrapper(object, epoch) = object.wrappers[j]
BY Found

(* The wrapper made by the seal comes first. *)
LEMMA FirstOrLater ==
    ASSUME NEW object, NEW log, Coherent(object, log), NEW j \in DOMAIN object.wrappers
    PROVE  j = 1 \/ j > 1
BY Appended DEF Coherent

(* What seal_with_verifier makes is coherent. *)
LEMMA SealCoherent ==
    ASSUME NEW log, LedgerOrdered(log), NEW i \in DOMAIN log, NEW n, NEW cap, NEW cert,
           NEW rights, NEW policy, NEW dek, NEW recipient,
           CanSeal(log, cap, cert, i, n, rights)
    PROVE  Coherent(NewObject(dek, recipient, cap, StateOf(log, i, n), ProofOf(i, n),
                              Request(cap, rights, StateOf(log, i, n).epoch), policy), log)
<1> DEFINE state  == StateOf(log, i, n)
           req    == Request(cap, rights, state.epoch)
           header == [version |-> 1, suite |-> "CSK2",
                      object_id |-> req.object_id, required_rights |-> req.required_rights,
                      policy_hash |-> req.policy_hash,
                      seal_epoch |-> state.epoch, temporal_policy |-> policy,
                      authority_root |-> state.authority_root,
                      revocation_root |-> state.revocation_root,
                      dek |-> dek, payload_aad |-> <<>>, wrappers |-> <<>>]
           w      == WrapperFor(header, recipient, cap, state, ProofOf(i, n), dek)
           object == [header EXCEPT !.payload_aad = payload_aad(header), !.wrappers = <<w>>]
<1>1. NewObject(dek, recipient, cap, state, ProofOf(i, n), req, policy) = object
  BY Zenon DEF NewObject
<1>2. state.epoch \in Nat
  BY StateEpoch
<1>3. InWindow(state.epoch, cap)
  BY Zenon DEF CanSeal, validate_capability, Request
<1>4. /\ w.epoch = state.epoch
      /\ w.capability_stamp = cap
      /\ w.transparency_proof.leaf_index = i
      /\ w.wrapped_dek.dek = dek
  BY Zenon DEF WrapperFor, ProofOf
<1> HIDE DEF w, state, req
<1>5. /\ object.wrappers = <<w>>
      /\ object.seal_epoch = state.epoch
      /\ object.dek = dek
      /\ HeaderFields = DOMAIN object
      /\ object = [f \in DOMAIN object |-> object[f]]
  BY ZenonT(30) DEF HeaderFields
<1> HIDE DEF object
<1>6. /\ DOMAIN object.wrappers = {1}
      /\ object.wrappers[1] = w
      /\ IsASeq(object.wrappers)
  BY <1>5 DEF IsASeq
<1>7. \A j \in DOMAIN object.wrappers : GoodWrapper(object, j, log)
  BY <1>2, <1>4, <1>5, <1>6 DEF GoodWrapper
<1>8. OneWrapperPerEpoch(object)
  BY <1>6 DEF OneWrapperPerEpoch
<1>9. Coherent(object, log)
  BY <1>2, <1>3, <1>4, <1>5, <1>6, <1>7, <1>8 DEF Coherent
<1> QED
  BY <1>1, <1>9 DEF state, req

(* What add_epoch_wrapper makes of a coherent object is coherent. *)
LEMMA RewrapCoherent ==
    ASSUME NEW log, LedgerOrdered(log), NEW object, Coherent(object, log),
           NEW i \in DOMAIN log, NEW n, NEW from, NEW cap, NEW cert,
           NEW recipient, NEW recipient_new, NEW dek,
           CanRewrap(log, recipient, object, cap, cert, from, StateOf(log, i, n), ProofOf(i, n)),
           dek = FindWrapper(object, from.epoch).wrapped_dek.dek
    PROVE  Coherent(Rewrapped(object, WrapperFor(object, recipient_new, cap,
                                        StateOf(log, i, n), ProofOf(i, n), dek)), log)
<1> DEFINE to   == StateOf(log, i, n)
           w    == WrapperFor(object, recipient_new, cap, to, ProofOf(i, n), dek)
           old  == FindWrapper(object, from.epoch)
           made == Rewrapped(object, w)
<1>1. to.epoch \in Nat
  BY StateEpoch
<1>2. /\ w.epoch = to.epoch
      /\ w.capability_stamp = cap
      /\ w.transparency_proof.leaf_index = i
      /\ w.wrapped_dek.dek = dek
  BY DEF WrapperFor, ProofOf
<1>3. /\ WrapperIndices(object, from.epoch) # {}
      /\ old.capability_stamp = cap
      /\ to.epoch > from.epoch
  BY Zenon DEF CanRewrap, unwrap_dek_for_epoch, RewrapTarget
<1>4. PICK m \in DOMAIN object.wrappers : old = object.wrappers[m] /\ old.epoch = from.epoch
  BY <1>3, Found, Zenon
<1>5. /\ old.epoch \in Nat
      /\ old.epoch >= object.seal_epoch
      /\ object.wrappers[1].capability_stamp = cap
      /\ dek = object.dek
  <2>1. GoodWrapper(object, m, log) /\ object.wrappers[1].epoch = object.seal_epoch
    BY <1>4 DEF Coherent
  <2>2. DOMAIN object.wrappers = 1 .. Len(object.wrappers) /\ Len(object.wrappers) \in Nat
    BY Appended DEF Coherent
  <2>3. m = 1 \/ m > 1
    BY <2>2
  <2>4. object.seal_epoch \in Nat
    BY DEF Coherent
  <2> HIDE DEF old, to
  <2> QED
    BY <1>3, <1>4, <2>1, <2>3, <2>4 DEF GoodWrapper, old
<1>6. object.seal_epoch \in Nat
  BY DEF Coherent
<1> HIDE DEF w, to, old
<1>7. w.epoch > object.seal_epoch
  BY <1>1, <1>2, <1>3, <1>4, <1>5, <1>6
<1> SUFFICES Coherent(made, log)
  BY Zenon DEF w, to
<1>8. CASE WrapperIndices(object, w.epoch) # {}
  <2> DEFINE k == FirstIndex(object, w.epoch)
  <2>1. k \in DOMAIN object.wrappers /\ WrapperIndices(object, w.epoch) = {k}
    BY <1>8, Found
  <2>2. object.wrappers[k].epoch = w.epoch
    BY <2>1 DEF WrapperIndices
  <2>3. k # 1
    BY <1>6, <1>7, <2>2 DEF Coherent
  <2>4. made = [object EXCEPT !.wrappers = [object.wrappers EXCEPT ![k] = w]]
    BY <1>8 DEF Rewrapped
  <2> HIDE DEF k, made
  <2>5. /\ made.wrappers = [object.wrappers EXCEPT ![k] = w]
        /\ made.seal_epoch = object.seal_epoch
        /\ made.dek = object.dek
        /\ DOMAIN made = DOMAIN object
        /\ made = [f \in DOMAIN made |-> made[f]]
    BY <2>4 DEF Coherent, HeaderFields
  <2>6. /\ IsASeq(made.wrappers)
        /\ DOMAIN made.wrappers = DOMAIN object.wrappers
        /\ made.wrappers[k] = w
        /\ \A j \in DOMAIN object.wrappers : j # k => made.wrappers[j] = object.wrappers[j]
    BY <2>1, <2>5, Replaced DEF Coherent
  <2>7. OneWrapperPerEpoch(made)
    BY <2>1, <2>2, <2>6 DEF Coherent, OneWrapperPerEpoch
  <2>8. made.wrappers[1] = object.wrappers[1] /\ 1 \in DOMAIN made.wrappers
    BY <2>3, <2>6 DEF Coherent
  <2>9. ASSUME NEW j \in DOMAIN made.wrappers PROVE GoodWrapper(made, j, log)
    <3>1. CASE j = k
      BY <1>1, <1>2, <1>5, <1>7, <2>5, <2>6, <2>8, <3>1 DEF GoodWrapper
    <3>2. CASE j # k
      BY <2>5, <2>6, <2>8, <3>2 DEF GoodWrapper, Coherent
    <3> QED
      BY <3>1, <3>2
  <2>10. Coherent(made, log)
    BY <2>5, <2>6, <2>7, <2>8, <2>9 DEF Coherent
  <2> QED
    BY <2>10
<1>9. CASE WrapperIndices(object, w.epoch) = {}
  <2> DEFINE len == Len(object.wrappers)
  <2>1. made = [object EXCEPT !.wrappers = Append(object.wrappers, w)]
    BY <1>9 DEF Rewrapped
  <2> HIDE DEF made
  <2>2. /\ made.wrappers = Append(object.wrappers, w)
        /\ made.seal_epoch = object.seal_epoch
        /\ made.dek = object.dek
        /\ DOMAIN made = DOMAIN object
        /\ made = [f \in DOMAIN made |-> made[f]]
    BY <2>1, ZenonT(30) DEF Coherent, HeaderFields
  <2>3. /\ IsASeq(made.wrappers)
        /\ len \in Nat
        /\ DOMAIN object.wrappers = 1 .. len
        /\ DOMAIN made.wrappers = 1 .. len + 1
        /\ made.wrappers[len + 1] = w
        /\ \A j \in DOMAIN object.wrappers : made.wrappers[j] = object.wrappers[j]
    BY <2>2, Appended DEF Coherent
  <2> HIDE DEF len
  <2>4. \A j \in DOMAIN object.wrappers : object.wrappers[j].epoch # w.epoch
    BY <1>9 DEF WrapperIndices
  <2>5. \A j \in DOMAIN made.wrappers : j \in DOMAIN object.wrappers \/ j = len + 1
    BY <2>3
  <2>6. OneWrapperPerEpoch(made)
    BY <2>3, <2>4, <2>5, ZenonT(40) DEF Coherent, OneWrapperPerEpoch
  <2>7. made.wrappers[1] = object.wrappers[1] /\ 1 \in DOMAIN made.wrappers
    <3>1. 1 \in DOMAIN object.wrappers
      BY DEF Coherent
    <3>2. 1 \in 1 .. len + 1
      BY <2>3, SMTT(30)
    <3> QED
      BY <2>3, <3>1, <3>2, Zenon
  <2>8. ASSUME NEW j \in DOMAIN made.wrappers PROVE GoodWrapper(made, j, log)
    <3>1. CASE j = len + 1
      BY <1>1, <1>2, <1>5, <1>7, <2>2, <2>3, <2>7, <3>1 DEF GoodWrapper
    <3>2. CASE j \in DOMAIN object.wrappers
      BY <2>2, <2>3, <2>7, <3>2 DEF GoodWrapper, Coherent
    <3> QED
      BY <2>5, <3>1, <3>2
  <2>9. Coherent(made, log)
    BY <2>2, <2>3, <2>6, <2>7, <2>8 DEF Coherent
  <2> QED
    BY <2>9
<1> QED
  BY <1>8, <1>9, Zenon

------------------------------------------------------------------------------
(* later is log, or log with more records. *)
Grown(log, later) ==
    /\ LedgerOrdered(later)
    /\ DOMAIN log \subseteq DOMAIN later
    /\ \A i \in DOMAIN log : later[i] = log[i]

(* Publish lets the log grow. *)
LEMMA PublishGrows ==
    ASSUME LedgerOrdered(ledger), NEW r, Publish(r)
    PROVE  /\ Grown(ledger, ledger')
           /\ Len(ledger') \in DOMAIN ledger'
           /\ Len(ledger') \in Nat
           /\ ledger'[Len(ledger')] = r
<1>1. r \in Record /\ (\A i \in DOMAIN ledger : Extends(r, ledger[i])) /\ ledger' = Append(ledger, r)
  BY DEF Publish
<1>2. Len(ledger') \in Nat
  BY <1>1 DEF LedgerOrdered
<1> QED
  BY <1>1, <1>2, Published, Zenon DEF Grown

(* The commit of a state leaves its record in the log. *)
LEMMA CommitGrows ==
    ASSUME LedgerOrdered(ledger), NEW r, commit_state(r)
    PROVE  Grown(ledger, ledger') /\ IndexOf(ledger', r) \in DOMAIN ledger'
<1>1. Grown(ledger, ledger') /\ \E i \in DOMAIN ledger' : ledger'[i] = r
  <2>1. CASE (\E i \in DOMAIN ledger : ledger[i] = r) /\ UNCHANGED ledger
    BY <2>1 DEF Grown
  <2>2. CASE Publish(r)
    BY <2>2, PublishGrows
  <2> QED
    BY <2>1, <2>2 DEF commit_state
<1> QED
  BY <1>1 DEF IndexOf

(* What was signed stays signed as the log grows. *)
LEMMA EvidenceLater ==
    ASSUME NEW log, NEW later, Grown(log, later), NEW registry, EvidenceSigned(registry, log)
    PROVE  EvidenceSigned(registry, later)
<1> SUFFICES ASSUME NEW e \in DOMAIN registry
             PROVE  \E i \in DOMAIN later, n \in Nat :
                        registry[e].epoch_root_sig = StateOf(later, i, n) /\ e = later[i].epoch
  BY DEF EvidenceSigned
<1>1. PICK i \in DOMAIN log, n \in Nat :
          registry[e].epoch_root_sig = StateOf(log, i, n) /\ e = log[i].epoch
  BY DEF EvidenceSigned
<1>2. i \in DOMAIN later /\ later[i] = log[i]
  BY DEF Grown
<1>3. StateOf(later, i, n) = StateOf(log, i, n)
  BY <1>2 DEF StateOf
<1> QED
  BY <1>1, <1>2, <1>3

(* AuthorityEvidenceRegistry::add files a signature under its epoch. *)
LEMMA EvidenceAdded ==
    ASSUME NEW log, LedgerOrdered(log), EvidenceSigned(evidence, log),
           NEW i \in DOMAIN log, NEW n \in Nat, NEW cert
    PROVE  EvidenceSigned(add(StateOf(log, i, n), cert), log)
<1> DEFINE state    == StateOf(log, i, n)
           registry == add(state, cert)
<1>1. state.epoch = log[i].epoch
  BY StateEpoch
<1>2. /\ DOMAIN registry = DOMAIN evidence \cup {state.epoch}
      /\ registry[state.epoch].epoch_root_sig = state
      /\ \A e \in DOMAIN evidence : e # state.epoch => registry[e] = evidence[e]
  BY DEF add
<1> HIDE DEF registry
<1>3. ASSUME NEW e \in DOMAIN registry
      PROVE  \E j \in DOMAIN log, m \in Nat :
                 registry[e].epoch_root_sig = StateOf(log, j, m) /\ e = log[j].epoch
  <2>1. CASE e = state.epoch
    BY <1>1, <1>2, <2>1
  <2>2. CASE e # state.epoch
    BY <1>2, <2>2 DEF EvidenceSigned
  <2> QED
    BY <2>1, <2>2
<1>4. EvidenceSigned(registry, log)
  BY <1>3, Zenon DEF EvidenceSigned
<1> QED
  BY <1>4 DEF registry

(* Objects stay coherent as the log grows. *)
LEMMA ObjectsLater ==
    ASSUME NEW log, NEW later, Grown(log, later), NEW list, ObjectsCoherent(list, log)
    PROVE  ObjectsCoherent(list, later)
BY CoherentLater DEF Grown, ObjectsCoherent

(* Sealing adds a coherent object. *)
LEMMA SealKeeps ==
    ASSUME NEW log, LedgerOrdered(log), ObjectsCoherent(objects, log),
           NEW i \in DOMAIN log, NEW n, NEW cap, NEW cert, NEW rights, NEW policy,
           NEW recipient, CanSeal(log, cap, cert, i, n, rights)
    PROVE  ObjectsCoherent(Sealed(log, recipient, cap, i, n, rights, policy), log)
<1> DEFINE object == NewObject(Len(objects) + 1, recipient, cap, StateOf(log, i, n), ProofOf(i, n),
                               Request(cap, rights, StateOf(log, i, n).epoch), policy)
           list   == Append(objects, object)
<1>1. Sealed(log, recipient, cap, i, n, rights, policy) = list
  BY Zenon DEF Sealed
<1>2. Coherent(object, log)
  BY SealCoherent
<1> HIDE DEF object
<1>3. /\ IsASeq(list)
      /\ Len(objects) \in Nat
      /\ DOMAIN objects = 1 .. Len(objects)
      /\ DOMAIN list = 1 .. Len(objects) + 1
      /\ list[Len(objects) + 1] = object
      /\ \A k \in DOMAIN objects : list[k] = objects[k]
  BY Appended DEF ObjectsCoherent
<1> HIDE DEF list
<1>4. \A k \in DOMAIN list : k \in DOMAIN objects \/ k = Len(objects) + 1
  BY <1>3
<1>5. \A k \in DOMAIN list : Coherent(list[k], log)
  BY <1>2, <1>3, <1>4, Zenon DEF ObjectsCoherent
<1> QED
  BY <1>1, <1>3, <1>5, Zenon DEF ObjectsCoherent

(* Rewrapping leaves every object coherent. *)
LEMMA RewrapKeeps ==
    ASSUME NEW log, LedgerOrdered(log), ObjectsCoherent(objects, log),
           NEW i \in DOMAIN log, NEW n, NEW k \in DOMAIN objects, NEW from, NEW cap, NEW cert,
           NEW recipient, NEW recipient_new,
           CanRewrap(log, recipient, objects[k], cap, cert, from, StateOf(log, i, n), ProofOf(i, n)),
           Rewrap(k, recipient_new, cap, from, StateOf(log, i, n), ProofOf(i, n))
    PROVE  ObjectsCoherent(objects', log)
<1> DEFINE dek  == FindWrapper(objects[k], from.epoch).wrapped_dek.dek
           made == Rewrapped(objects[k], WrapperFor(objects[k], recipient_new, cap,
                                StateOf(log, i, n), ProofOf(i, n), dek))
<1>1. objects' = [objects EXCEPT ![k] = made]
  BY Zenon DEF Rewrap
<1>2. Coherent(objects[k], log)
  BY DEF ObjectsCoherent
<1>3. Coherent(made, log)
  BY <1>2, RewrapCoherent
<1> HIDE DEF made
<1>4. /\ IsASeq(objects')
      /\ DOMAIN objects' = DOMAIN objects
      /\ objects'[k] = made
      /\ \A m \in DOMAIN objects : m # k => objects'[m] = objects[m]
  BY <1>1, Replaced, ZenonT(30) DEF ObjectsCoherent
<1> QED
  BY <1>3, <1>4, Zenon DEF ObjectsCoherent

------------------------------------------------------------------------------
(* Nothing is published, signed or sealed at first. *)
LEMMA EngineInvInit == EngineInit => EngineInv
<1> SUFFICES ASSUME EngineInit PROVE EngineInv
  OBVIOUS
<1>1. ledger = <<>> /\ evidence = <<>> /\ objects = <<>>
  BY DEF EngineInit
<1>2. LedgerOrdered(ledger)
  BY <1>1 DEF LedgerOrdered
<1>3. EvidenceSigned(evidence, ledger)
  BY <1>1 DEF EvidenceSigned
<1>4. ObjectsCoherent(objects, ledger)
  BY <1>1 DEF ObjectsCoherent, IsASeq
<1> QED
  BY <1>2, <1>3, <1>4 DEF EngineInv

(* The calls that commit an epoch preserve the invariant. *)
LEMMA CommitsKeep == EngineInv /\ Commits => EngineInv'
<1> SUFFICES ASSUME EngineInv, NEW r \in Publishable,
                    \/ \E cert \in Cert : rotate_epoch_full(r, cert)
                    \/ \E recipient \in Recipient, cap \in Capability, cert \in Cert,
                          rights \in ReqRights, policy \in TemporalPolicy :
                          seal_and_commit(r, recipient, cap, cert, rights, policy)
                    \/ \E k \in DOMAIN objects, recipient, recipient_new \in Recipient,
                          cap \in Capability, cert \in Cert, from \in SignedStates :
                          \/ add_epoch_wrapper_and_commit(r, k, recipient, recipient_new,
                                                          cap, cert, from)
                          \/ \E rights \in ReqRights, policy \in TemporalPolicy :
                                open_and_reseal_and_commit(r, k, recipient, recipient_new, cap,
                                                           cert, from, rights, policy)
             PROVE  EngineInv'
  BY Zenon DEF Commits
<1>1. LedgerOrdered(ledger) /\ EvidenceSigned(evidence, ledger) /\ ObjectsCoherent(objects, ledger)
  BY DEF EngineInv
<1>2. ASSUME NEW cert \in Cert, rotate_epoch_full(r, cert)
      PROVE  EngineInv'
  <2> DEFINE n == Len(ledger')
  <2>1. Publish(r) /\ objects' = objects /\ evidence' = add(StateOf(ledger', n, n), cert)
    BY <1>2, Zenon DEF rotate_epoch_full
  <2>2. Grown(ledger, ledger') /\ n \in DOMAIN ledger' /\ n \in Nat
    BY <1>1, <2>1, PublishGrows
  <2> HIDE DEF n
  <2>3. EvidenceSigned(evidence, ledger') /\ LedgerOrdered(ledger')
    BY <1>1, <2>2, EvidenceLater DEF Grown
  <2>4. EvidenceSigned(evidence', ledger')
    BY <2>1, <2>2, <2>3, EvidenceAdded
  <2>5. ObjectsCoherent(objects', ledger')
    BY <1>1, <2>1, <2>2, ObjectsLater
  <2> QED
    BY <2>3, <2>4, <2>5 DEF EngineInv
<1>3. ASSUME commit_state(r), evidence' = evidence,
             ObjectsCoherent(objects, ledger') => ObjectsCoherent(objects', ledger')
      PROVE  EngineInv'
  <2>1. Grown(ledger, ledger')
    BY <1>1, <1>3, CommitGrows
  <2>2. LedgerOrdered(ledger') /\ EvidenceSigned(evidence', ledger')
    BY <1>1, <1>3, <2>1, EvidenceLater DEF Grown
  <2>3. ObjectsCoherent(objects', ledger')
    BY <1>1, <1>3, <2>1, ObjectsLater
  <2> QED
    BY <2>2, <2>3 DEF EngineInv
<1> DEFINE i == IndexOf(ledger', r)
           n == Len(ledger')
<1>4. commit_state(r) => LedgerOrdered(ledger') /\ i \in DOMAIN ledger'
  BY <1>1, CommitGrows DEF Grown
<1>5. ASSUME NEW recipient \in Recipient, NEW cap \in Capability, NEW cert \in Cert,
             NEW rights \in ReqRights, NEW policy \in TemporalPolicy,
             seal_and_commit(r, recipient, cap, cert, rights, policy)
      PROVE  EngineInv'
  <2>1. /\ commit_state(r)
        /\ evidence' = evidence
        /\ \/ /\ CanSeal(ledger', cap, cert, i, n, rights)
              /\ objects' = Sealed(ledger', recipient, cap, i, n, rights, policy)
           \/ objects' = objects
    BY <1>5 DEF seal_and_commit
  <2> HIDE DEF i, n
  <2> QED
    BY <1>3, <1>4, <2>1, SealKeeps
<1>6. ASSUME NEW k \in DOMAIN objects, NEW recipient \in Recipient,
             NEW recipient_new \in Recipient, NEW cap \in Capability, NEW cert \in Cert,
             NEW from \in SignedStates,
             add_epoch_wrapper_and_commit(r, k, recipient, recipient_new, cap, cert, from)
      PROVE  EngineInv'
  <2>1. /\ commit_state(r)
        /\ evidence' = evidence
        /\ \/ /\ CanRewrap(ledger', recipient, objects[k], cap, cert, from,
                            StateOf(ledger', i, n), ProofOf(i, n))
              /\ Rewrap(k, recipient_new, cap, from, StateOf(ledger', i, n), ProofOf(i, n))
           \/ objects' = objects
    BY <1>6 DEF add_epoch_wrapper_and_commit
  <2> HIDE DEF i, n
  <2> QED
    BY <1>3, <1>4, <2>1, RewrapKeeps
<1>7. ASSUME NEW k \in DOMAIN objects, NEW recipient \in Recipient,
             NEW recipient_new \in Recipient, NEW cap \in Capability, NEW cert \in Cert,
             NEW from \in SignedStates, NEW rights \in ReqRights, NEW policy \in TemporalPolicy,
             open_and_reseal_and_commit(r, k, recipient, recipient_new, cap, cert, from,
                                        rights, policy)
      PROVE  EngineInv'
  <2>1. /\ commit_state(r)
        /\ evidence' = evidence
        /\ \/ /\ CanSeal(ledger', cap, cert, i, n, rights)
              /\ objects' = Sealed(ledger', recipient_new, cap, i, n, rights, policy)
           \/ objects' = objects
    BY <1>7 DEF open_and_reseal_and_commit
  <2> HIDE DEF i, n
  <2> QED
    BY <1>3, <1>4, <2>1, SealKeeps
<1> QED
  BY <1>2, <1>5, <1>6, <1>7, ZenonT(40)

(* The calls made under states that are already in the log do too. *)
LEMMA UsesKeep == EngineInv /\ Uses => EngineInv'
<1> SUFFICES ASSUME EngineInv, NEW i \in DOMAIN ledger, NEW n \in DOMAIN ledger,
                    NEW cap \in Capability, NEW cert \in Cert, NEW recipient \in Recipient,
                    \/ \E rights \in ReqRights, policy \in TemporalPolicy :
                          seal_with_verifier(recipient, cap, cert, i, n, rights, policy)
                    \/ \E k \in DOMAIN objects, recipient_new \in Recipient,
                          from \in SignedStates :
                          \/ add_epoch_wrapper_with_verifier(k, recipient, recipient_new, cap,
                                                             cert, from, i, n)
                          \/ \E rights \in ReqRights, policy \in TemporalPolicy :
                                open_and_reseal_with_verifier(k, recipient, recipient_new, cap,
                                                              cert, from, i, n, rights, policy)
             PROVE  EngineInv'
  BY ZenonT(40) DEF Uses
<1>1. LedgerOrdered(ledger) /\ EvidenceSigned(evidence, ledger) /\ ObjectsCoherent(objects, ledger)
  BY DEF EngineInv
<1>2. ASSUME ledger' = ledger, evidence' = evidence, ObjectsCoherent(objects', ledger)
      PROVE  EngineInv'
  BY <1>1, <1>2 DEF EngineInv
<1>3. ASSUME NEW rights \in ReqRights, NEW policy \in TemporalPolicy,
             seal_with_verifier(recipient, cap, cert, i, n, rights, policy)
      PROVE  EngineInv'
  BY <1>1, <1>2, <1>3, SealKeeps DEF seal_with_verifier
<1>4. ASSUME NEW k \in DOMAIN objects, NEW recipient_new \in Recipient,
             NEW from \in SignedStates,
             add_epoch_wrapper_with_verifier(k, recipient, recipient_new, cap, cert, from, i, n)
      PROVE  EngineInv'
  BY <1>1, <1>2, <1>4, RewrapKeeps DEF add_epoch_wrapper_with_verifier
<1>5. ASSUME NEW k \in DOMAIN objects, NEW recipient_new \in Recipient,
             NEW from \in SignedStates, NEW rights \in ReqRights, NEW policy \in TemporalPolicy,
             open_and_reseal_with_verifier(k, recipient, recipient_new, cap, cert, from, i, n,
                                           rights, policy)
      PROVE  EngineInv'
  BY <1>1, <1>2, <1>5, SealKeeps DEF open_and_reseal_with_verifier
<1> QED
  BY <1>3, <1>4, <1>5, Zenon

(* Every step preserves the invariant. *)
LEMMA EngineInvStep == EngineInv /\ [EngineNext]_vars => EngineInv'
<1> SUFFICES ASSUME EngineInv, [EngineNext]_vars PROVE EngineInv'
  OBVIOUS
<1>1. CASE Commits
  BY <1>1, CommitsKeep
<1>2. CASE Uses
  BY <1>2, UsesKeep
<1>3. ASSUME NEW i \in DOMAIN ledger, NEW cert \in Cert, add_evidence(i, cert)
      PROVE  EngineInv'
  <2>1. LedgerOrdered(ledger) /\ EvidenceSigned(evidence, ledger) /\ Len(ledger) \in Nat
    BY DEF EngineInv, LedgerOrdered
  <2>2. /\ ledger' = ledger
        /\ objects' = objects
        /\ evidence' = add(StateOf(ledger, i, Len(ledger)), cert)
    BY <1>3 DEF add_evidence
  <2>3. EvidenceSigned(evidence', ledger)
    BY <2>1, <2>2, EvidenceAdded
  <2> QED
    BY <2>2, <2>3 DEF EngineInv
<1>4. CASE UNCHANGED vars
  BY <1>4 DEF vars, EngineInv
<1> QED
  BY <1>1, <1>2, <1>3, <1>4, Zenon DEF EngineNext

(* The invariant of the engine: see the head of the module. *)
THEOREM EngineInvariant == EngineSpec => []EngineInv
BY EngineInvInit, EngineInvStep, PTL DEF EngineSpec

------------------------------------------------------------------------------
(***************************************************************************)
(* WrappersCoherent: whatever sequence of seals, rewraps and reseals made  *)
(* an object, it has one wrapper per epoch, for one capability and holding *)
(* the payload key.                                                        *)
(***************************************************************************)
THEOREM ObjectsStayCoherent == EngineSpec => []WrappersCoherent
<1>1. EngineInv => WrappersCoherent
  <2> SUFFICES ASSUME EngineInv, NEW k \in DOMAIN objects
               PROVE  /\ objects[k].wrappers[1].epoch = objects[k].seal_epoch
                      /\ \A j \in DOMAIN objects[k].wrappers :
                            /\ j > 1 => objects[k].wrappers[j].epoch > objects[k].seal_epoch
                            /\ objects[k].wrappers[j].capability_stamp
                                  = objects[k].wrappers[1].capability_stamp
                            /\ objects[k].wrappers[j].wrapped_dek.dek = objects[k].dek
                            /\ \A m \in DOMAIN objects[k].wrappers :
                                  objects[k].wrappers[j].epoch = objects[k].wrappers[m].epoch
                                  => j = m
    BY Zenon DEF WrappersCoherent
  <2>1. Coherent(objects[k], ledger)
    BY DEF EngineInv, ObjectsCoherent
  <2> QED
    BY <2>1, Zenon DEF Coherent, GoodWrapper, OneWrapperPerEpoch
<1> QED
  BY <1>1, EngineInvariant, PTL

(* A signed state is a record of the log. *)
LEMMA SignedIsPublished ==
    ASSUME EngineInv, NEW state \in SignedStates
    PROVE  \E i \in DOMAIN ledger, n \in Nat : state = StateOf(ledger, i, n)
<1>1. PICK e \in DOMAIN evidence : state = evidence[e].epoch_root_sig
  BY DEF SignedStates
<1>2. EvidenceSigned(evidence, ledger)
  BY DEF EngineInv
<1> QED
  BY <1>1, <1>2 DEF EvidenceSigned

(***************************************************************************)
(* RevokedNeverOpens: open_with_verifier opens nothing with a capability   *)
(* that the epoch of the state, or one before it, published as revoked.    *)
(***************************************************************************)
THEOREM RevocationIsFinal == EngineSpec => []RevokedNeverOpens
<1>1. EngineInv => RevokedNeverOpens
  <2> SUFFICES ASSUME EngineInv, NEW k \in DOMAIN objects, NEW recipient \in Recipient,
                      NEW cap \in Capability, NEW state \in SignedStates,
                      Opens(objects[k], recipient, cap, state),
                      NEW j \in DOMAIN ledger, ledger[j].epoch <= state.epoch
               PROVE  cap \notin ledger[j].revoked
    BY Zenon DEF RevokedNeverOpens
  <2>1. cap \notin state.revocation_root
    BY Zenon DEF Opens, open_with_verifier, open_verified, validate_capability,
                 verify_non_revocation
  <2>2. PICK i \in DOMAIN ledger, n \in Nat : state = StateOf(ledger, i, n)
    BY SignedIsPublished
  <2>3. state.revocation_root = ledger[i].revoked /\ state.epoch = ledger[i].epoch
    BY <2>2 DEF StateOf
  <2>4. LedgerOrdered(ledger)
    BY DEF EngineInv
  <2>5. ledger[i].epoch \in Nat /\ ledger[j].epoch \in Nat /\ i \in Nat /\ j \in Nat
    <3>1. ledger \in Seq(Record)
      BY <2>4 DEF LedgerOrdered
    <3>2. ledger[i] \in Record /\ ledger[j] \in Record /\ i \in Nat /\ j \in Nat
      BY <3>1
    <3> QED
      BY <3>2 DEF Record
  <2>6. CASE j <= i
    BY <2>1, <2>3, <2>4, <2>5, <2>6 DEF LedgerOrdered, Extends
  <2>7. CASE i < j
    <3>1. ledger[i].epoch < ledger[j].epoch
      BY <2>4, <2>7 DEF LedgerOrdered, Extends
    <3> QED
      BY <2>3, <2>5, <3>1
  <2> QED
    BY <2>5, <2>6, <2>7
<1> QED
  BY <1>1, EngineInvariant, PTL

(* What open_with_verifier opens, it opens with the wrapper of the epoch. *)
LEMMA OpensWithWrapper ==
    ASSUME EngineInv, NEW k \in DOMAIN objects, NEW recipient, NEW cap, NEW cert, NEW state,
           open_with_verifier(recipient, objects[k], cap, cert, state)
    PROVE  \E j \in DOMAIN objects[k].wrappers :
               /\ objects[k].wrappers[j].epoch = state.epoch
               /\ objects[k].wrappers[j].capability_stamp = cap
<1>1. Coherent(objects[k], ledger)
  BY DEF EngineInv, ObjectsCoherent
<1>2. WrapperIndices(objects[k], state.epoch) # {}
  BY DEF open_with_verifier, select_required_wrapper
<1>3. FindWrapper(objects[k], state.epoch).capability_stamp = cap
  BY Zenon DEF open_with_verifier, open_verified, unwrap_dek_for_epoch
<1>4. /\ FirstIndex(objects[k], state.epoch) \in DOMAIN objects[k].wrappers
      /\ FindWrapper(objects[k], state.epoch)
            = objects[k].wrappers[FirstIndex(objects[k], state.epoch)]
      /\ FindWrapper(objects[k], state.epoch).epoch = state.epoch
  BY <1>1, <1>2, Found, Zenon
<1> QED
  BY <1>3, <1>4

(***************************************************************************)
(* NeverBeforeSeal: no policy lets an object open at an epoch before the   *)
(* one it was sealed at.                                                   *)
(***************************************************************************)
THEOREM SealComesFirst == EngineSpec => []NeverBeforeSeal
<1>1. EngineInv => NeverBeforeSeal
  <2> SUFFICES ASSUME EngineInv, NEW k \in DOMAIN objects, NEW recipient \in Recipient,
                      NEW cap \in Capability, NEW state \in SignedStates, NEW cert \in Cert,
                      open_with_verifier(recipient, objects[k], cap, cert, state)
               PROVE  state.epoch >= objects[k].seal_epoch
    BY Zenon DEF NeverBeforeSeal, Opens
  <2>1. PICK j \in DOMAIN objects[k].wrappers : objects[k].wrappers[j].epoch = state.epoch
    BY OpensWithWrapper
  <2>2. Coherent(objects[k], ledger)
    BY DEF EngineInv, ObjectsCoherent
  <2>3. j = 1 \/ j > 1
    BY <2>2, FirstOrLater, Zenon
  <2>4. objects[k].seal_epoch \in Nat /\ objects[k].wrappers[1].epoch = objects[k].seal_epoch
    BY <2>2, Zenon DEF Coherent
  <2>5. GoodWrapper(objects[k], j, ledger)
    BY <2>2, Zenon DEF Coherent
  <2> QED
    BY <2>1, <2>3, <2>4, <2>5 DEF GoodWrapper
<1> QED
  BY <1>1, EngineInvariant, PTL

(***************************************************************************)
(* OneCapabilityOpens: only the capability an object was sealed under      *)
(* opens it, through every rewrap, and the seal was within its window.     *)
(***************************************************************************)
THEOREM OneCapabilityForAll == EngineSpec => []OneCapabilityOpens
<1>1. EngineInv => OneCapabilityOpens
  <2> SUFFICES ASSUME EngineInv, NEW k \in DOMAIN objects, NEW recipient \in Recipient,
                      NEW cap \in Capability, NEW state \in SignedStates, NEW cert \in Cert,
                      open_with_verifier(recipient, objects[k], cap, cert, state)
               PROVE  /\ objects[k].wrappers[1].capability_stamp = cap
                      /\ InWindow(objects[k].seal_epoch, cap)
    BY Zenon DEF OneCapabilityOpens, Opens
  <2>1. PICK j \in DOMAIN objects[k].wrappers : objects[k].wrappers[j].capability_stamp = cap
    BY OpensWithWrapper
  <2>2. Coherent(objects[k], ledger)
    BY DEF EngineInv, ObjectsCoherent
  <2>3. GoodWrapper(objects[k], j, ledger)
    BY <2>2, Zenon DEF Coherent
  <2>4. objects[k].wrappers[1].capability_stamp = cap
    BY <2>1, <2>3 DEF GoodWrapper
  <2>5. InWindow(objects[k].seal_epoch, objects[k].wrappers[1].capability_stamp)
    BY <2>2, Zenon DEF Coherent
  <2> QED
    BY <2>4, <2>5
<1> QED
  BY <1>1, EngineInvariant, PTL

(***************************************************************************)
(* OpenImpliesVerify: the checks of verify_with_verifier are among those   *)
(* of open_with_verifier.                                                  *)
(***************************************************************************)
THEOREM OpenedVerifies == EngineSpec => []OpenImpliesVerify
<1>1. OpenImpliesVerify
  <2> SUFFICES ASSUME NEW k \in DOMAIN objects, NEW recipient \in Recipient,
                      NEW cap \in Capability, NEW cert \in Cert, NEW state \in SignedStates,
                      open_with_verifier(recipient, objects[k], cap, cert, state)
               PROVE  verify_with_verifier(objects[k], cap, cert, state,
                          FindWrapper(objects[k], state.epoch).transparency_proof)
    BY Zenon DEF OpenImpliesVerify
  <2> QED
    BY Zenon DEF open_with_verifier, select_required_wrapper, open_verified,
                 verify_with_verifier, verify_verified
<1> QED
  BY <1>1, PTL

------------------------------------------------------------------------------
(* later has the header of object, and a wrapper for each of its epochs. *)
SameHeader(object, later) ==
    /\ later.object_id = object.object_id
    /\ later.required_rights = object.required_rights
    /\ later.policy_hash = object.policy_hash
    /\ later.seal_epoch = object.seal_epoch
    /\ later.temporal_policy = object.temporal_policy
    /\ later.dek = object.dek
    /\ later.payload_aad = object.payload_aad
    /\ \A e : WrapperIndices(object, e) # {} => WrapperIndices(later, e) # {}

(* add_epoch_wrapper only touches the wrapper of the target epoch. *)
LEMMA RewrapSameHeader ==
    ASSUME NEW object, NEW log, Coherent(object, log), NEW w
    PROVE  SameHeader(object, Rewrapped(object, w))
<1> DEFINE made == Rewrapped(object, w)
<1>1. CASE WrapperIndices(object, w.epoch) # {}
  <2> DEFINE k == FirstIndex(object, w.epoch)
  <2>1. k \in DOMAIN object.wrappers /\ object.wrappers[k].epoch = w.epoch
    BY <1>1, Found
  <2>2. made = [object EXCEPT !.wrappers = [object.wrappers EXCEPT ![k] = w]]
    BY <1>1 DEF Rewrapped
  <2> HIDE DEF k, made
  <2>3. /\ made.wrappers = [object.wrappers EXCEPT ![k] = w]
        /\ made.object_id = object.object_id
        /\ made.required_rights = object.required_rights
        /\ made.policy_hash = object.policy_hash
        /\ made.seal_epoch = object.seal_epoch
        /\ made.temporal_policy = object.temporal_policy
        /\ made.dek = object.dek
        /\ made.payload_aad = object.payload_aad
    BY <2>2 DEF Coherent, HeaderFields
  <2>4. /\ DOMAIN made.wrappers = DOMAIN object.wrappers
        /\ made.wrappers[k] = w
        /\ \A j \in DOMAIN object.wrappers : j # k => made.wrappers[j] = object.wrappers[j]
    BY <2>1, <2>3, Replaced DEF Coherent
  <2>5. \A j \in DOMAIN object.wrappers : made.wrappers[j].epoch = object.wrappers[j].epoch
    BY <2>1, <2>4
  <2>6. \A e : WrapperIndices(object, e) # {} => WrapperIndices(made, e) # {}
    BY <2>4, <2>5 DEF WrapperIndices
  <2> QED
    BY <2>3, <2>6, Zenon DEF SameHeader, made
<1>2. CASE WrapperIndices(object, w.epoch) = {}
  <2>1. made = [object EXCEPT !.wrappers = Append(object.wrappers, w)]
    BY <1>2 DEF Rewrapped
  <2> HIDE DEF made
  <2>2. /\ made.wrappers = Append(object.wrappers, w)
        /\ made.object_id = object.object_id
        /\ made.required_rights = object.required_rights
        /\ made.policy_hash = object.policy_hash
        /\ made.seal_epoch = object.seal_epoch
        /\ made.temporal_policy = object.temporal_policy
        /\ made.dek = object.dek
        /\ made.payload_aad = object.payload_aad
    BY <2>1 DEF Coherent, HeaderFields
  <2>3. /\ DOMAIN object.wrappers \subseteq DOMAIN made.wrappers
        /\ \A j \in DOMAIN object.wrappers : made.wrappers[j] = object.wrappers[j]
    <3>1. IsASeq(object.wrappers)
      BY DEF Coherent
    <3>2. Len(object.wrappers) \in Nat
      BY <3>1, Appended
    <3>3. 1 .. Len(object.wrappers) \subseteq 1 .. Len(object.wrappers) + 1
      BY <3>2
    <3> QED
      BY <2>2, <3>1, <3>3, Appended
  <2>4. \A e : WrapperIndices(object, e) # {} => WrapperIndices(made, e) # {}
    BY <2>3 DEF WrapperIndices
  <2> QED
    BY <2>2, <2>4 DEF SameHeader, made
<1> QED
  BY <1>1, <1>2

(* A step keeps the records of the log, the epochs of the registry and the *)
(* headers of the objects.                                                 *)
HeadersKept == \A k \in DOMAIN objects : SameHeader(objects[k], objects'[k])

Persist ==
    /\ DOMAIN ledger \subseteq DOMAIN ledger'
    /\ \A i \in DOMAIN ledger : ledger'[i] = ledger[i]
    /\ DOMAIN evidence \subseteq DOMAIN evidence'
    /\ HeadersKept

(* Sealing leaves the objects there are as they are. *)
LEMMA SealPersists ==
    ASSUME EngineInv, NEW log, NEW recipient, NEW cap, NEW i, NEW n, NEW rights, NEW policy,
           objects' = Sealed(log, recipient, cap, i, n, rights, policy)
    PROVE  HeadersKept
<1>1. IsASeq(objects)
  BY DEF EngineInv, ObjectsCoherent
<1>2. \A k \in DOMAIN objects : objects'[k] = objects[k]
  BY <1>1, Appended DEF Sealed
<1> QED
  BY <1>2 DEF HeadersKept, SameHeader

(* Rewrapping leaves the headers of all objects. *)
LEMMA RewrapPersists ==
    ASSUME EngineInv, NEW k \in DOMAIN objects, NEW recipient_new, NEW cap, NEW from, NEW to,
           NEW to_proof, Rewrap(k, recipient_new, cap, from, to, to_proof)
    PROVE  HeadersKept
<1> DEFINE w    == WrapperFor(objects[k], recipient_new, cap, to, to_proof,
                              FindWrapper(objects[k], from.epoch).wrapped_dek.dek)
           made == Rewrapped(objects[k], w)
<1>1. objects' = [objects EXCEPT ![k] = made]
  BY Zenon DEF Rewrap
<1>2. IsASeq(objects) /\ Coherent(objects[k], ledger)
  BY DEF EngineInv, ObjectsCoherent
<1> HIDE DEF w
<1>3. SameHeader(objects[k], made)
  BY <1>2, RewrapSameHeader
<1> HIDE DEF made
<1>4. objects'[k] = made /\ \A m \in DOMAIN objects : m # k => objects'[m] = objects[m]
  BY <1>1, <1>2, Replaced
<1> QED
  BY <1>3, <1>4, Zenon DEF HeadersKept, SameHeader

(* No step takes a record, a registry entry or a header away. *)
LEMMA StepPersists == EngineInv /\ [EngineNext]_vars => Persist
<1> SUFFICES ASSUME EngineInv, [EngineNext]_vars PROVE Persist
  OBVIOUS
<1>1. LedgerOrdered(ledger)
  BY DEF EngineInv
<1>2. objects' = objects => HeadersKept
  BY DEF HeadersKept, SameHeader
<1>3. \A state, cert : evidence' = add(state, cert) => DOMAIN evidence \subseteq DOMAIN evidence'
  BY DEF add
<1>4. ASSUME NEW r, commit_state(r), evidence' = evidence, HeadersKept
      PROVE  Persist
  BY <1>1, <1>4, CommitGrows DEF Persist, Grown
<1>5. ASSUME ledger' = ledger, evidence' = evidence, HeadersKept
      PROVE  Persist
  BY <1>5 DEF Persist
<1>6. CASE Commits
  <2>1. PICK r \in Publishable :
            \/ \E cert \in Cert : rotate_epoch_full(r, cert)
            \/ \E recipient \in Recipient, cap \in Capability, cert \in Cert,
                  rights \in ReqRights, policy \in TemporalPolicy :
                  seal_and_commit(r, recipient, cap, cert, rights, policy)
            \/ \E k \in DOMAIN objects, recipient, recipient_new \in Recipient,
                  cap \in Capability, cert \in Cert, from \in SignedStates :
                  \/ add_epoch_wrapper_and_commit(r, k, recipient, recipient_new, cap, cert, from)
                  \/ \E rights \in ReqRights, policy \in TemporalPolicy :
                        open_and_reseal_and_commit(r, k, recipient, recipient_new, cap, cert,
                                                   from, rights, policy)
    BY <1>6, Zenon DEF Commits
  <2>2. ASSUME NEW cert \in Cert, rotate_epoch_full(r, cert) PROVE Persist
    <3>1. Grown(ledger, ledger')
      BY <1>1, <2>2, PublishGrows DEF rotate_epoch_full
    <3>2. DOMAIN evidence \subseteq DOMAIN evidence' /\ objects' = objects
      BY <1>3, <2>2 DEF rotate_epoch_full
    <3> QED
      BY <1>2, <3>1, <3>2 DEF Persist, Grown
  <2>3. ASSUME NEW recipient \in Recipient, NEW cap \in Capability, NEW cert \in Cert,
               NEW rights \in ReqRights, NEW policy \in TemporalPolicy,
               seal_and_commit(r, recipient, cap, cert, rights, policy)
        PROVE  Persist
    BY <1>2, <1>4, <2>3, SealPersists DEF seal_and_commit
  <2>4. ASSUME NEW k \in DOMAIN objects, NEW recipient \in Recipient,
               NEW recipient_new \in Recipient, NEW cap \in Capability, NEW cert \in Cert,
               NEW from \in SignedStates,
               add_epoch_wrapper_and_commit(r, k, recipient, recipient_new, cap, cert, from)
        PROVE  Persist
    BY <1>2, <1>4, <2>4, RewrapPersists DEF add_epoch_wrapper_and_commit
  <2>5. ASSUME NEW k \in DOMAIN objects, NEW recipient \in Recipient,
               NEW recipient_new \in Recipient, NEW cap \in Capability, NEW cert \in Cert,
               NEW from \in SignedStates, NEW rights \in ReqRights,
               NEW policy \in TemporalPolicy,
               open_and_reseal_and_commit(r, k, recipient, recipient_new, cap, cert, from,
                                          rights, policy)
        PROVE  Persist
    BY <1>2, <1>4, <2>5, SealPersists DEF open_and_reseal_and_commit
  <2> QED
    BY <2>1, <2>2, <2>3, <2>4, <2>5, ZenonT(40)
<1>7. CASE Uses
  <2>1. PICK i \in DOMAIN ledger, n \in DOMAIN ledger, cap \in Capability, cert \in Cert,
             recipient \in Recipient :
            \/ \E rights \in ReqRights, policy \in TemporalPolicy :
                  seal_with_verifier(recipient, cap, cert, i, n, rights, policy)
            \/ \E k \in DOMAIN objects, recipient_new \in Recipient, from \in SignedStates :
                  \/ add_epoch_wrapper_with_verifier(k, recipient, recipient_new, cap, cert,
                                                     from, i, n)
                  \/ \E rights \in ReqRights, policy \in TemporalPolicy :
                        open_and_reseal_with_verifier(k, recipient, recipient_new, cap, cert,
                                                      from, i, n, rights, policy)
    BY <1>7, Zenon DEF Uses
  <2>2. ASSUME NEW rights \in ReqRights, NEW policy \in TemporalPolicy,
               seal_with_verifier(recipient, cap, cert, i, n, rights, policy)
        PROVE  Persist
    BY <1>5, <2>2, SealPersists DEF seal_with_verifier
  <2>3. ASSUME NEW k \in DOMAIN objects, NEW recipient_new \in Recipient,
               NEW from \in SignedStates,
               add_epoch_wrapper_with_verifier(k, recipient, recipient_new, cap, cert, from, i, n)
        PROVE  Persist
    BY <1>5, <2>3, RewrapPersists DEF add_epoch_wrapper_with_verifier
  <2>4. ASSUME NEW k \in DOMAIN objects, NEW recipient_new \in Recipient,
               NEW from \in SignedStates, NEW rights \in ReqRights,
               NEW policy \in TemporalPolicy,
               open_and_reseal_with_verifier(k, recipient, recipient_new, cap, cert, from, i, n,
                                             rights, policy)
        PROVE  Persist
    BY <1>5, <2>4, SealPersists DEF open_and_reseal_with_verifier
  <2> QED
    BY <2>1, <2>2, <2>3, <2>4, Zenon
<1>8. ASSUME NEW i \in DOMAIN ledger, NEW cert \in Cert, add_evidence(i, cert)
      PROVE  Persist
  BY <1>2, <1>3, <1>8, Zenon DEF add_evidence, Persist
<1>9. CASE UNCHANGED vars
  BY <1>2, <1>9 DEF vars, Persist
<1> QED
  BY <1>6, <1>7, <1>8, <1>9, Zenon DEF EngineNext

(***************************************************************************)
(* OpenSurvives: an open that works goes on working for as long as the     *)
(* evidence and the wrapper of its own epoch are not replaced, whatever    *)
(* else is committed, signed, sealed, rewrapped or revoked.                *)
(***************************************************************************)
THEOREM OpensSurvive == EngineSpec => OpenSurvives
<1> DEFINE Kept == vars' # vars =>
                   \A k \in DOMAIN objects, recipient \in Recipient, cap \in Capability,
                      state \in SignedStates :
                      /\ Opens(objects[k], recipient, cap, state)
                      /\ evidence'[state.epoch] = evidence[state.epoch]
                      /\ FindWrapper(objects[k], state.epoch)' = FindWrapper(objects[k], state.epoch)
                      => Opens(objects[k], recipient, cap, state)'
<1>1. EngineInv /\ [EngineNext]_vars => Kept
  <2> SUFFICES ASSUME EngineInv, Persist, NEW k \in DOMAIN objects, NEW recipient \in Recipient,
                      NEW cap \in Capability, NEW state \in SignedStates, NEW cert \in Cert,
                      open_with_verifier(recipient, objects[k], cap, cert, state),
                      evidence'[state.epoch] = evidence[state.epoch],
                      FindWrapper(objects'[k], state.epoch) = FindWrapper(objects[k], state.epoch)
               PROVE  open_with_verifier(recipient, objects[k], cap, cert, state)'
    BY StepPersists, Zenon DEF Opens
  <2> DEFINE object  == objects[k]
             later   == objects'[k]
             wrapper == FindWrapper(object, state.epoch)
             proof   == wrapper.transparency_proof
  <2>1. SameHeader(object, later)
    BY Zenon DEF Persist, HeadersKept
  <2>2. /\ select_required_wrapper(object, state)
        /\ verify_state(ledger, state, proof)
        /\ open_verified(recipient, object, cap, cert, state, wrapper)
    BY Zenon DEF open_with_verifier
  <2>3. proof.leaf_index \in DOMAIN ledger
    <3>1. Coherent(object, ledger)
      BY Zenon DEF EngineInv, ObjectsCoherent
    <3>2. WrapperIndices(object, state.epoch) # {}
      BY <2>2, Zenon DEF select_required_wrapper
    <3>3. PICK j \in DOMAIN object.wrappers : wrapper = object.wrappers[j]
      BY <3>1, <3>2, FoundAmong, Zenon
    <3>4. GoodWrapper(object, j, ledger)
      BY <3>1, Zenon DEF Coherent
    <3> QED
      BY <3>3, <3>4, Zenon DEF GoodWrapper
  <2> HIDE DEF object, later, wrapper, proof
  <2>4. select_required_wrapper(later, state)
    BY <2>1, <2>2, Zenon DEF SameHeader, select_required_wrapper
  <2>5. PICK kept : kept = proof
    BY Zenon
  <2>6. verify_state(ledger, state, kept)'
    <3>1. StateOf(ledger', kept.leaf_index, kept.log) = StateOf(ledger, kept.leaf_index, kept.log)
      BY <2>3, <2>5, Zenon DEF StateOf, Persist
    <3>2. verify_transparency_proof(ledger', state, kept)
      BY <2>2, <2>5, <3>1, Zenon DEF verify_state, verify_transparency_proof
    <3> QED
      BY <2>2, <2>5, <3>2, Zenon DEF verify_state, verify_epoch_root_sig, Persist
  <2>7. open_verified(recipient, later, cap, cert, state, wrapper)
    <3>1. context_hash(later, state, cap) = context_hash(object, state, cap)
      BY <2>1, Zenon DEF SameHeader, context_hash
    <3>2. open_request_for_object(later, state.epoch) = open_request_for_object(object, state.epoch)
      BY <2>1, Zenon DEF SameHeader, open_request_for_object
    <3>3. KekFor(recipient, later, cap, state, wrapper) = KekFor(recipient, object, cap, state, wrapper)
      BY <3>1, Zenon DEF KekFor
    <3>4. unwrap_dek_for_epoch(recipient, later, cap, state, wrapper)
      BY <2>2, <3>1, <3>3, Zenon DEF open_verified, unwrap_dek_for_epoch
    <3> QED
      BY <2>1, <2>2, <3>2, <3>4, Zenon DEF open_verified, payload_aad, SameHeader
  <2>8. FindWrapper(later, state.epoch) = wrapper
    BY Zenon DEF object, later, wrapper
  <2>9. kept = wrapper.transparency_proof
    BY <2>5 DEF proof
  <2> QED
    BY <2>4, <2>6, <2>7, <2>8, <2>9, Zenon DEF open_with_verifier, later
<1>2. EngineInv /\ [EngineNext]_vars => [Kept]_vars
  BY <1>1, Zenon
<1> HIDE DEF Kept
<1>3. EngineSpec => [][Kept]_vars
  BY <1>2, EngineInvariant, PTL DEF EngineSpec
<1> QED
  BY <1>3 DEF OpenSurvives, Kept

------------------------------------------------------------------------------
(***************************************************************************)
(* The lifecycle of one object (module Lifecycle).  Its invariant says     *)
(* what the history of rotations, rewraps and reseals has left: epoch i is *)
(* record i of the log and is registered as it was committed, the object   *)
(* has the header of a seal for the capability, and each of its wrappers   *)
(* is exactly the one made for the present owner at the wrapper's epoch.   *)
(***************************************************************************)
LedgerLinear(log) ==
    /\ LedgerOrdered(log)
    /\ 1 \in DOMAIN log
    /\ \A i \in DOMAIN log :
          log[i].epoch = i /\ log[i].active = <<Cap>> /\ log[i].revoked \in {{}, {Cap}}

Registered(registry, log) ==
    /\ DOMAIN registry = DOMAIN log
    /\ \A e \in DOMAIN log :
          /\ registry[e].epoch_root_sig = StateOf(log, e, e)
          /\ registry[e].epoch_cert = CertFor(e)

OwnHeader(object) ==
    /\ object.object_id = Cap.object_id
    /\ object.required_rights = {"READ"}
    /\ object.policy_hash = Cap.policy_hash
    /\ object.temporal_policy = [kind |-> "Current"]
    /\ object.payload_aad = payload_aad(object)
    /\ object.dek \in {1, 2}

OwnWrapper(object, j, log, recipient) ==
    LET w == object.wrappers[j]
    IN  /\ w.epoch \in DOMAIN log
        /\ InWindow(w.epoch, Cap)
        /\ w = WrapperFor(object, recipient, Cap, StateOf(log, w.epoch, w.epoch),
                          ProofOf(w.epoch, w.epoch), object.dek)

OwnObject(object, log, recipient) ==
    /\ Coherent(object, log)
    /\ OwnHeader(object)
    /\ \A j \in DOMAIN object.wrappers : OwnWrapper(object, j, log, recipient)

LifecycleInv ==
    /\ LedgerLinear(ledger)
    /\ Registered(evidence, ledger)
    /\ held = capability_proof(Cap, <<Cap>>, {}, <<Cap>>, CertFor(1))
    /\ owner \in Recipient
    /\ objects = <<Object>>
    /\ OwnObject(Object, ledger, owner)
    /\ IsASeq(notices)

------------------------------------------------------------------------------
(* The key pair a wrapper was made for, with its ML-KEM secret if it has an *)
(* ML-KEM half, is the only one to find the shared secret again.            *)
LEMMA OneKeyPair ==
    ASSUME NEW r \in Recipient, NEW s \in Recipient
    PROVE  LET kem  == kem_encaps(r)
               back == kem_decaps(s, kem.ct_classical, kem.ct_pq)
           IN  hybrid_secret(back.ss_classical, kem.ct_pq, back.ss_pq)
                  = hybrid_secret(kem.ss_classical, kem.ct_pq, kem.ss_pq)
               <=> s = r /\ (r.pq_public => r.pq_secret)
<1> DEFINE kem  == kem_encaps(r)
           back == kem_decaps(s, kem.ct_classical, kem.ct_pq)
<1>1. r.pq_public \in BOOLEAN /\ s.pq_secret \in BOOLEAN /\ r.pq_secret \in BOOLEAN
  BY RecipientAssumption
<1>2. s.key = r.key <=> s = r
  BY RecipientAssumption
<1>3. /\ kem.ss_classical = <<"x25519", EphemeralKey, r.key>>
      /\ back.ss_classical = <<"x25519", EphemeralKey, s.key>>
  BY DEF kem_encaps, kem_decaps
<1>4. CASE r.pq_public
  <2>1. kem.ct_pq = <<"ml-kem", r.key>> /\ kem.ss_pq = <<"shared", r.key>>
    BY <1>4 DEF kem_encaps
  <2>2. kem.ct_pq # NoCiphertext
    BY <2>1 DEF NoCiphertext
  <2>3. s.pq_secret /\ s = r => back.ss_pq = <<"shared", r.key>>
    BY <2>1, <2>2 DEF kem_decaps
  <2>4. ~s.pq_secret => back.ss_pq = <<>>
    BY <2>2 DEF kem_decaps, ZeroSecret
  <2>5. <<>> # <<"shared", r.key>>
    OBVIOUS
  <2>6. /\ hybrid_secret(back.ss_classical, kem.ct_pq, back.ss_pq)
              = <<"hybrid", <<"x25519", EphemeralKey, s.key>>, back.ss_pq>>
        /\ hybrid_secret(kem.ss_classical, kem.ct_pq, kem.ss_pq)
              = <<"hybrid", <<"x25519", EphemeralKey, r.key>>, <<"shared", r.key>>>>
    BY <1>3, <2>1, <2>2 DEF hybrid_secret
  <2> HIDE DEF kem, back
  <2>7. hybrid_secret(back.ss_classical, kem.ct_pq, back.ss_pq)
           = hybrid_secret(kem.ss_classical, kem.ct_pq, kem.ss_pq)
        <=> s.key = r.key /\ back.ss_pq = <<"shared", r.key>>
    BY <2>6
  <2>8. s = r => (s.pq_secret <=> back.ss_pq = <<"shared", r.key>>)
    BY <1>1, <2>3, <2>4, <2>5, Zenon
  <2>9. hybrid_secret(back.ss_classical, kem.ct_pq, back.ss_pq)
           = hybrid_secret(kem.ss_classical, kem.ct_pq, kem.ss_pq)
        <=> s = r /\ (r.pq_public => r.pq_secret)
    BY <1>2, <1>4, <2>7, <2>8
  <2> QED
    BY <2>9 DEF kem, back
<1>5. CASE ~r.pq_public
  <2>1. kem.ct_pq = NoCiphertext
    BY <1>5 DEF kem_encaps
  <2>2. /\ hybrid_secret(back.ss_classical, kem.ct_pq, back.ss_pq)
              = <<"classical", <<"x25519", EphemeralKey, s.key>>>>
        /\ hybrid_secret(kem.ss_classical, kem.ct_pq, kem.ss_pq)
              = <<"classical", <<"x25519", EphemeralKey, r.key>>>>
    BY <1>3, <2>1 DEF hybrid_secret
  <2> HIDE DEF kem, back
  <2>3. hybrid_secret(back.ss_classical, kem.ct_pq, back.ss_pq)
           = hybrid_secret(kem.ss_classical, kem.ct_pq, kem.ss_pq)
        <=> s = r /\ (r.pq_public => r.pq_secret)
    BY <1>2, <1>5, <2>2
  <2> QED
    BY <2>3 DEF kem, back
<1> QED
  BY <1>1, <1>4, <1>5, Zenon

(* No encapsulation makes the ciphertexts of WrapperChanges. *)
LEMMA ChangedCiphertext ==
    ASSUME NEW r \in Recipient
    PROVE  /\ kem_encaps(r).ct_classical # <<"changed">>
           /\ kem_encaps(r).ct_pq # <<"changed">>
<1>1. kem_encaps(r).ct_classical # <<"changed">>
  BY DEF kem_encaps, EphemeralKey
<1>2. \/ kem_encaps(r).ct_pq = <<"ml-kem", r.key>>
      \/ kem_encaps(r).ct_pq = <<>>
  BY Zenon DEF kem_encaps, NoCiphertext
<1>3. <<"changed">> # <<>> /\ <<"changed">> # <<"ml-kem", r.key>>
  <2>1. DOMAIN <<"changed">> = {1} /\ DOMAIN <<>> = {} /\ DOMAIN <<"ml-kem", r.key>> = {1, 2}
    OBVIOUS
  <2>2. {1} # {} /\ {1} # {1, 2}
    OBVIOUS
  <2> QED
    BY <2>1, <2>2, Zenon
<1> QED
  BY <1>1, <1>2, <1>3, Zenon

------------------------------------------------------------------------------
(* The states of the log, as the registry and the engine see them. *)
LEMMA LinearState ==
    ASSUME NEW log, LedgerLinear(log), NEW i \in DOMAIN log
    PROVE  /\ i \in Nat
           /\ StateOf(log, i, i).epoch = i
           /\ StateOf(log, i, i).authority_root = <<Cap>>
           /\ StateOf(log, i, i).revocation_root = log[i].revoked
           /\ StateOf(log, i, i).transparency_root = i
           /\ log[i].revoked = {} <=> Cap \notin log[i].revoked
<1>1. i \in Nat
  BY DEF LedgerLinear, LedgerOrdered
<1>2. log[i].epoch = i /\ log[i].active = <<Cap>> /\ log[i].revoked \in {{}, {Cap}}
  BY DEF LedgerLinear
<1> QED
  BY <1>1, <1>2 DEF StateOf

(* Every epoch verifies, with the proof drawn when it was committed. *)
LEMMA StateVerifies ==
    ASSUME LedgerLinear(ledger), Registered(evidence, ledger), NEW i \in DOMAIN ledger
    PROVE  verify_state(ledger, StateOf(ledger, i, i), ProofOf(i, i))
<1> DEFINE state == StateOf(ledger, i, i)
<1>1. i \in Nat /\ state.epoch = i /\ state.transparency_root = i
  BY LinearState
<1>2. /\ i \in DOMAIN evidence
      /\ evidence[i].epoch_root_sig = state
      /\ evidence[i].epoch_cert = CertFor(i)
  BY DEF Registered
<1>3. i < CertFor(i).epoch + CertFor(i).validity_window
  BY <1>1, CapAssumption DEF CertFor
<1>4. verify_transparency_proof(ledger, state, ProofOf(i, i))
  BY <1>1 DEF verify_transparency_proof, ProofOf
<1> HIDE DEF state
<1>5. verify_state(ledger, state, ProofOf(i, i))
  BY <1>1, <1>2, <1>3, <1>4, Zenon DEF verify_state, verify_epoch_root_sig
<1> QED
  BY <1>5 DEF state

(* The capability is good at the epochs of its window that do not revoke it. *)
LEMMA CapValidates ==
    ASSUME LedgerLinear(ledger), NEW i \in DOMAIN ledger, NEW req,
           req.object_id = Cap.object_id, req.required_rights = {"READ"},
           req.policy_hash = Cap.policy_hash, req.epoch = i
    PROVE  validate_capability(Cap, CertFor(1), StateOf(ledger, i, i), req)
           <=> Cap \notin ledger[i].revoked /\ InWindow(i, Cap)
<1> DEFINE state == StateOf(ledger, i, i)
<1>1. /\ state.epoch = i
      /\ state.authority_root = <<Cap>>
      /\ state.revocation_root = ledger[i].revoked
  BY LinearState
<1>2. verify_capability_inclusion(Cap, <<Cap>>)
  BY DEF verify_capability_inclusion
<1>3. verify_capability_issuance(Cap, CertFor(1))
  BY CapAssumption DEF verify_capability_issuance, CertFor
<1>4. Cap.delegation_depth > 0 <=> Cap.parent_stamp # None
  BY CapAssumption
<1>5. {"READ"} \subseteq Cap.rights
  BY CapAssumption
<1> HIDE DEF state
<1>6. validate_capability(Cap, CertFor(1), state, req)
      <=> Cap \notin ledger[i].revoked /\ InWindow(i, Cap)
  BY <1>1, <1>2, <1>3, <1>4, <1>5, Zenon DEF validate_capability, verify_non_revocation
<1> QED
  BY <1>6, Zenon DEF state

(* The proof drawn at epoch 1 fits the epochs that do not revoke it. *)
LEMMA HeldFits ==
    ASSUME LifecycleInv, NEW i \in DOMAIN ledger
    PROVE  /\ ProofFits(held, Cap, StateOf(ledger, i, i)) <=> Cap \notin ledger[i].revoked
           /\ IssuanceCert = CertFor(1)
<1> DEFINE state == StateOf(ledger, i, i)
<1>1. /\ state.authority_root = <<Cap>>
      /\ state.revocation_root = ledger[i].revoked
      /\ ledger[i].revoked = {} <=> Cap \notin ledger[i].revoked
  BY LinearState, Zenon DEF LifecycleInv
<1>2. held = capability_proof(Cap, <<Cap>>, {}, <<Cap>>, CertFor(1))
  BY DEF LifecycleInv
<1>3. /\ held.inclusion = <<Cap>>
      /\ held.non_revocation.stamp = Cap
      /\ held.non_revocation.revoked = {}
      /\ held.issuance.epoch_cert = CertFor(1)
      /\ held.issuance.sig
            = capability_issuance_signing_message(Cap, <<Cap>>, CertFor(1).epoch)
  BY <1>2, Zenon DEF capability_proof
<1> HIDE DEF state
<1>4. ProofFits(held, Cap, state) <=> Cap \notin ledger[i].revoked
  BY <1>1, <1>3, Zenon DEF ProofFits, SignedFor
<1> QED
  BY <1>3, <1>4, Zenon DEF state, IssuanceCert

(* What verification of the object comes to. *)
VerifiedExactly ==
    \A i \in DOMAIN ledger :
        Verifies1(StateOf(ledger, i, i), ProofOf(i, i))
        <=> /\ Object.seal_epoch <= i
            /\ InWindow(i, Cap)
            /\ Cap \notin ledger[i].revoked

(* verify_with_verifier accepts the object from its seal epoch on, for as  *)
(* long as the capability is valid and not revoked.                        *)
LEMMA VerifiesExactly == LifecycleInv => VerifiedExactly
<1> SUFFICES ASSUME LifecycleInv, NEW i \in DOMAIN ledger
             PROVE  Verifies1(StateOf(ledger, i, i), ProofOf(i, i))
                    <=> /\ Object.seal_epoch <= i
                        /\ InWindow(i, Cap)
                        /\ Cap \notin ledger[i].revoked
  BY Zenon DEF VerifiedExactly
<1> DEFINE state == StateOf(ledger, i, i)
           req   == open_request_for_object(Object, state.epoch)
<1>1. LedgerLinear(ledger) /\ Registered(evidence, ledger) /\ OwnHeader(Object)
      /\ Coherent(Object, ledger)
  BY DEF LifecycleInv, OwnObject
<1>2. i \in Nat /\ state.epoch = i
  BY <1>1, LinearState
<1>3. verify_state(ledger, state, ProofOf(i, i))
  BY <1>1, StateVerifies
<1>4. /\ req.object_id = Cap.object_id
      /\ req.required_rights = {"READ"}
      /\ req.policy_hash = Cap.policy_hash
      /\ req.epoch = i
  BY <1>1, <1>2, Zenon DEF open_request_for_object, OwnHeader
<1> HIDE DEF req
<1>5. validate_capability(Cap, CertFor(1), state, req)
      <=> Cap \notin ledger[i].revoked /\ InWindow(i, Cap)
  BY <1>1, <1>4, CapValidates, Zenon
<1>6. /\ ProofFits(held, Cap, state) <=> Cap \notin ledger[i].revoked
      /\ IssuanceCert = CertFor(1)
  BY HeldFits, Zenon
<1>7. Object.seal_epoch \in Nat
  BY <1>1 DEF Coherent
<1>8. /\ accepts(Object.temporal_policy, i, Object.seal_epoch) <=> Object.seal_epoch <= i
      /\ required_wrapper_epoch(Object.temporal_policy, i, Object.seal_epoch) = i
  BY <1>1, <1>2, <1>7 DEF OwnHeader, accepts, required_wrapper_epoch
<1> HIDE DEF state
<1>9. Verifies1(state, ProofOf(i, i))
      <=> /\ Object.seal_epoch <= i
          /\ InWindow(i, Cap)
          /\ Cap \notin ledger[i].revoked
  BY <1>2, <1>3, <1>5, <1>6, <1>8, Zenon DEF Verifies1, verify_with_verifier, verify_verified, req
<1> QED
  BY <1>9 DEF state

(* The wrapper of an epoch is the one made for the owner at that epoch. *)
LEMMA WrapperAt ==
    ASSUME LifecycleInv, NEW i \in DOMAIN ledger, NEW k \in WrapperIndices(Object, i)
    PROVE  /\ k \in DOMAIN Object.wrappers
           /\ Object.wrappers[k].epoch = i
           /\ Object.wrappers[k] = WrapperFor(Object, owner, Cap, StateOf(ledger, i, i),
                                              ProofOf(i, i), Object.dek)
           /\ InWindow(i, Cap)
           /\ Object.seal_epoch <= i
<1>1. OwnObject(Object, ledger, owner)
  BY DEF LifecycleInv
<1>2. k \in DOMAIN Object.wrappers /\ Object.wrappers[k].epoch = i
  BY DEF WrapperIndices
<1>3. OwnWrapper(Object, k, ledger, owner) /\ Coherent(Object, ledger)
  BY <1>1, <1>2, Zenon DEF OwnObject
<1>4. GoodWrapper(Object, k, ledger) /\ Object.seal_epoch \in Nat
      /\ Object.wrappers[1].epoch = Object.seal_epoch
  BY <1>2, <1>3 DEF Coherent
<1>5. k = 1 \/ k > 1
  BY <1>2, <1>3, FirstOrLater, Zenon
<1>6. Object.seal_epoch <= i
  BY <1>2, <1>4, <1>5 DEF GoodWrapper
<1> QED
  BY <1>2, <1>3, <1>6, Zenon DEF OwnWrapper

(* Only the owner derives the key of a wrapper. *)
LEMMA OwnerUnwraps ==
    ASSUME LifecycleInv, NEW recipient \in Recipient, NEW state, NEW proof, NEW dek, NEW w,
           w = WrapperFor(Object, owner, Cap, state, proof, dek)
    PROVE  unwrap_dek_for_epoch(recipient, Object, Cap, state, w)
           <=> recipient = owner /\ (owner.pq_public => owner.pq_secret)
<1> DEFINE kem  == kem_encaps(owner)
           back == kem_decaps(recipient, kem.ct_classical, kem.ct_pq)
           ctx  == context_hash(Object, state, Cap)
           made == hybrid_secret(kem.ss_classical, kem.ct_pq, kem.ss_pq)
           got  == hybrid_secret(back.ss_classical, kem.ct_pq, back.ss_pq)
<1>1. /\ w.epoch = state.epoch
      /\ w.kem_ct_classical = kem.ct_classical
      /\ w.kem_ct_pq = kem.ct_pq
      /\ w.context_hash = ctx
      /\ w.capability_stamp = Cap
      /\ w.wrapped_dek.kek = derive_kek(made, ctx)
      /\ w.wrapped_dek.aad = authority_aad(ctx, kem.ct_classical, kem.ct_pq)
  BY Zenon DEF WrapperFor
<1>2. KekFor(recipient, Object, Cap, state, w) = derive_kek(got, ctx)
  BY <1>1, Zenon DEF KekFor
<1>3. got = made <=> recipient = owner /\ (owner.pq_public => owner.pq_secret)
  BY OneKeyPair, Zenon DEF LifecycleInv
<1> HIDE DEF kem, back, ctx, made, got
<1>4. derive_kek(made, ctx) = derive_kek(got, ctx) <=> got = made
  BY DEF derive_kek
<1> QED
  BY <1>1, <1>2, <1>3, <1>4, Zenon DEF unwrap_dek_for_epoch, ctx

(* The owner, and no one else, opens the object. *)
LEMMA OwnerAlone == LifecycleInv => OwnerOpens
<1> SUFFICES ASSUME LifecycleInv, NEW i \in DOMAIN ledger, NEW recipient \in Recipient
             PROVE  Opens1(recipient, StateOf(ledger, i, i))
                    <=> /\ recipient = owner
                        /\ owner.pq_public => owner.pq_secret
                        /\ WrapperIndices(Object, ledger[i].epoch) # {}
                        /\ Cap \notin ledger[i].revoked
  BY Zenon DEF OwnerOpens
<1> DEFINE state == StateOf(ledger, i, i)
           req   == open_request_for_object(Object, state.epoch)
           w     == FindWrapper(Object, i)
<1>1. LedgerLinear(ledger) /\ Registered(evidence, ledger) /\ OwnHeader(Object)
      /\ Coherent(Object, ledger)
  BY DEF LifecycleInv, OwnObject
<1>2. i \in Nat /\ state.epoch = i /\ ledger[i].epoch = i
  BY <1>1, LinearState, Zenon DEF LedgerLinear
<1>3. Opens1(recipient, state) => WrapperIndices(Object, i) # {}
  BY <1>2, Zenon DEF Opens1, OpensAs, open_with_verifier, select_required_wrapper
<1>4. CASE WrapperIndices(Object, i) # {}
  <2>1. FirstIndex(Object, i) \in WrapperIndices(Object, i)
        /\ w = Object.wrappers[FirstIndex(Object, i)]
    BY <1>1, <1>4, Found, Zenon
  <2>2. /\ w = WrapperFor(Object, owner, Cap, state, ProofOf(i, i), Object.dek)
        /\ InWindow(i, Cap)
        /\ Object.seal_epoch <= i
    BY <2>1, WrapperAt, Zenon
  <2>3. w.transparency_proof = ProofOf(i, i) /\ w.wrapped_dek.dek = Object.dek
    <3>1. WrapperFor(Object, owner, Cap, state, ProofOf(i, i), Object.dek).transparency_proof
             = ProofOf(i, i)
      BY Zenon DEF WrapperFor
    <3>2. WrapperFor(Object, owner, Cap, state, ProofOf(i, i), Object.dek).wrapped_dek.dek
             = Object.dek
      BY Zenon DEF WrapperFor
    <3> QED
      BY <2>2, <3>1, <3>2, Zenon
  <2>4. verify_state(ledger, state, ProofOf(i, i))
    BY <1>1, StateVerifies
  <2>5. /\ req.object_id = Cap.object_id
        /\ req.required_rights = {"READ"}
        /\ req.policy_hash = Cap.policy_hash
        /\ req.epoch = i
    BY <1>1, <1>2, Zenon DEF open_request_for_object, OwnHeader
  <2> HIDE DEF req
  <2>6. validate_capability(Cap, CertFor(1), state, req) <=> Cap \notin ledger[i].revoked
    BY <1>1, <2>2, <2>5, CapValidates, Zenon
  <2>7. /\ ProofFits(held, Cap, state) <=> Cap \notin ledger[i].revoked
        /\ IssuanceCert = CertFor(1)
    BY HeldFits
  <2>8. Object.seal_epoch \in Nat
    BY <1>1 DEF Coherent
  <2>9. /\ accepts(Object.temporal_policy, i, Object.seal_epoch)
        /\ required_wrapper_epoch(Object.temporal_policy, i, Object.seal_epoch) = i
    <3>1. Object.temporal_policy.kind = "Current"
      <4>1. Object.temporal_policy = [kind |-> "Current"]
        BY <1>1, Zenon DEF OwnHeader
      <4>2. [kind |-> "Current"].kind = "Current"
        OBVIOUS
      <4> QED
        BY <4>1, <4>2, Zenon
    <3>2. i >= Object.seal_epoch
      <4> DEFINE e == Object.seal_epoch
      <4>1. i \in Nat /\ e \in Nat /\ e <= i
        BY <1>2, <2>2, <2>8, Zenon
      <4> HIDE DEF e
      <4>2. i >= e
        BY <4>1
      <4> QED
        BY <4>2, Zenon DEF e
    <3>3. "Current" # "Historical" /\ "Current" # "ResealRequired"
      OBVIOUS
    <3> QED
      BY <3>1, <3>2, <3>3, Zenon DEF accepts, required_wrapper_epoch
  <2>10. unwrap_dek_for_epoch(recipient, Object, Cap, state, w)
         <=> recipient = owner /\ (owner.pq_public => owner.pq_secret)
    BY <2>2, OwnerUnwraps, Zenon
  <2>11. Object.payload_aad = payload_aad(Object)
    BY <1>1, Zenon DEF OwnHeader
  <2> HIDE DEF state, w
  <2>12. select_required_wrapper(Object, state)
    BY <1>2, <1>4, <2>9, Zenon DEF select_required_wrapper
  <2>13. open_verified(recipient, Object, Cap, CertFor(1), state, w)
         <=> /\ Cap \notin ledger[i].revoked
             /\ recipient = owner /\ (owner.pq_public => owner.pq_secret)
    BY <2>3, <2>6, <2>10, <2>11, Zenon DEF open_verified, req
  <2>14. open_with_verifier(recipient, Object, Cap, CertFor(1), state)
         <=> open_verified(recipient, Object, Cap, CertFor(1), state, w)
    BY <1>2, <2>3, <2>4, <2>12, Zenon DEF open_with_verifier, w
  <2>15. Opens1(recipient, state)
         <=> /\ recipient = owner
             /\ owner.pq_public => owner.pq_secret
             /\ WrapperIndices(Object, ledger[i].epoch) # {}
             /\ Cap \notin ledger[i].revoked
    BY <1>2, <1>4, <2>7, <2>13, <2>14, Zenon DEF Opens1, OpensAs
  <2> QED
    BY <2>15 DEF state
<1> QED
  BY <1>2, <1>3, <1>4, Zenon

------------------------------------------------------------------------------
(***************************************************************************)
(* Whatever opens with the wrappers and the payload of the object has its  *)
(* header, but for the fields that open does not read: the context hash of *)
(* a wrapper has the identifier, the rights and the policies, the wrapper  *)
(* the payload key, the payload the seal epoch.                            *)
(***************************************************************************)
LEMMA HeaderBinds ==
    ASSUME LifecycleInv, NEW i \in DOMAIN ledger, NEW recipient, NEW object,
           object.wrappers = Object.wrappers,
           object.payload_aad = Object.payload_aad,
           OpensAs(object, recipient, StateOf(ledger, i, i))
    PROVE  /\ object.object_id = Object.object_id
           /\ object.required_rights = Object.required_rights
           /\ object.policy_hash = Object.policy_hash
           /\ object.seal_epoch = Object.seal_epoch
           /\ object.temporal_policy = Object.temporal_policy
           /\ object.dek = Object.dek
<1> DEFINE state == StateOf(ledger, i, i)
           w     == FindWrapper(Object, i)
<1>1. OwnHeader(Object) /\ Coherent(Object, ledger)
  BY Zenon DEF LifecycleInv, OwnObject
<1>2. state.epoch = i
  BY LinearState, Zenon DEF LifecycleInv
<1>3. WrapperIndices(object, i) = WrapperIndices(Object, i)
  BY Zenon DEF WrapperIndices
<1>4. FindWrapper(object, i) = w
  BY <1>3, Zenon DEF FindWrapper, FirstIndex
<1>5. WrapperIndices(Object, i) # {}
  BY <1>2, <1>3, Zenon DEF OpensAs, open_with_verifier, select_required_wrapper
<1>6. /\ w.context_hash = context_hash(object, state, Cap)
      /\ w.wrapped_dek.dek = object.dek
      /\ object.payload_aad = payload_aad(object)
  BY <1>2, <1>4, Zenon DEF OpensAs, open_with_verifier, open_verified, unwrap_dek_for_epoch
<1>7. w = WrapperFor(Object, owner, Cap, state, ProofOf(i, i), Object.dek)
  <2>1. /\ WrapperIndices(Object, i) = {FirstIndex(Object, i)}
        /\ w = Object.wrappers[FirstIndex(Object, i)]
    BY <1>1, <1>5, Found, Zenon
  <2>2. FirstIndex(Object, i) \in WrapperIndices(Object, i)
    BY <2>1, Zenon
  <2> QED
    BY <2>1, <2>2, WrapperAt, Zenon
<1> HIDE DEF w, state
<1>8. w.context_hash = context_hash(Object, state, Cap) /\ w.wrapped_dek.dek = Object.dek
  BY <1>7, Zenon DEF WrapperFor
<1>9. /\ object.object_id = Object.object_id
      /\ object.required_rights = Object.required_rights
      /\ object.policy_hash = Object.policy_hash
      /\ object.temporal_policy = Object.temporal_policy
  BY <1>6, <1>8 DEF context_hash
<1>10. object.seal_epoch = Object.seal_epoch
  BY <1>1, <1>6 DEF OwnHeader, payload_aad
<1> QED
  BY <1>6, <1>8, <1>9, <1>10, Zenon

(* No change of the header opens. *)
LEMMA HeaderChangeShut ==
    ASSUME LifecycleInv, NEW i \in DOMAIN ledger, NEW recipient,
           NEW object \in HeaderChanges(Object)
    PROVE  ~OpensAs(object, recipient, StateOf(ledger, i, i))
<1>1. /\ DOMAIN Object = HeaderFields
      /\ Object.seal_epoch \in Nat
  BY DEF LifecycleInv, OwnObject, Coherent
<1>2. /\ Object.object_id = Cap.object_id
      /\ Object.required_rights = {"READ"}
      /\ Object.policy_hash = Cap.policy_hash
      /\ Object.temporal_policy = [kind |-> "Current"]
      /\ Object.dek \in {1, 2}
  BY Zenon DEF LifecycleInv, OwnObject, OwnHeader
<1> DEFINE O == Object
<1>3. object \in HeaderChanges(O) /\ DOMAIN O = HeaderFields /\ O.seal_epoch \in Nat
      /\ O = Object
  BY <1>1
<1> HIDE DEF O
<1>4. object.wrappers = O.wrappers /\ object.payload_aad = O.payload_aad
  BY <1>3, Zenon DEF HeaderChanges, HeaderFields
<1>5. \/ object.object_id = "x"
      \/ object.required_rights = O.required_rights \cup {"WRITE"}
      \/ object.policy_hash = "x"
      \/ object.seal_epoch = O.seal_epoch + 1
      \/ object.temporal_policy = [kind |-> "Historical", epoch |-> O.seal_epoch]
      \/ object.dek = 0
  BY <1>3, Zenon DEF HeaderChanges, HeaderFields
<1>6. Cap.object_id # "x" /\ Cap.policy_hash # "x"
  BY IdsAssumption
<1>7. {"READ"} \cup {"WRITE"} # {"READ"}
  OBVIOUS
<1>8. [kind |-> "Historical", epoch |-> O.seal_epoch] # [kind |-> "Current"]
  OBVIOUS
<1>9. O.seal_epoch + 1 # O.seal_epoch
  BY <1>3
<1>10. 0 \notin {1, 2}
  OBVIOUS
<1>11. SUFFICES ASSUME OpensAs(object, recipient, StateOf(ledger, i, i)) PROVE FALSE
  OBVIOUS
<1>12. /\ object.object_id = O.object_id
       /\ object.required_rights = O.required_rights
       /\ object.policy_hash = O.policy_hash
       /\ object.seal_epoch = O.seal_epoch
       /\ object.temporal_policy = O.temporal_policy
       /\ object.dek = O.dek
  BY <1>3, <1>4, <1>11, HeaderBinds, Zenon
<1> QED
  BY <1>2, <1>3, <1>5, <1>6, <1>7, <1>8, <1>9, <1>10, <1>12, Zenon

(* A wrapper that opens in the place of another is for its epoch, and is   *)
(* unwrapped under the header of the object.                               *)
LEMMA WrapperBinds ==
    ASSUME LifecycleInv, NEW i \in DOMAIN ledger, NEW recipient,
           NEW k \in WrapperIndices(Object, i), NEW w,
           OpensAs([Object EXCEPT !.wrappers[k] = w], recipient, StateOf(ledger, i, i))
    PROVE  unwrap_dek_for_epoch(recipient, Object, Cap, StateOf(ledger, i, i), w)
<1> DEFINE state  == StateOf(ledger, i, i)
           object == [Object EXCEPT !.wrappers[k] = w]
           O      == Object
<1>1. Coherent(O, ledger)
  BY DEF LifecycleInv, OwnObject
<1>2. state.epoch = i
  BY LinearState DEF LifecycleInv
<1>3. k \in DOMAIN O.wrappers /\ O.wrappers[k].epoch = i
  BY WrapperAt
<1>4. OpensAs(object, recipient, state)
  OBVIOUS
<1>5. object = [O EXCEPT !.wrappers = [O.wrappers EXCEPT ![k] = w]]
  OBVIOUS
<1> HIDE DEF O, object, state
<1>6. /\ object.wrappers = [O.wrappers EXCEPT ![k] = w]
      /\ object.object_id = O.object_id
      /\ object.required_rights = O.required_rights
      /\ object.policy_hash = O.policy_hash
      /\ object.temporal_policy = O.temporal_policy
  BY <1>1, <1>5 DEF Coherent, HeaderFields
<1>7. /\ DOMAIN object.wrappers = DOMAIN O.wrappers
      /\ object.wrappers[k] = w
      /\ \A j \in DOMAIN O.wrappers : j # k => object.wrappers[j] = O.wrappers[j]
  BY <1>1, <1>3, <1>6, Replaced DEF Coherent
<1>8. \A j \in DOMAIN O.wrappers : j # k => O.wrappers[j].epoch # i
  BY <1>1, <1>3 DEF Coherent, OneWrapperPerEpoch
<1>9. WrapperIndices(object, i) \subseteq {k}
  BY <1>7, <1>8 DEF WrapperIndices
<1>10. WrapperIndices(object, i) # {}
  BY <1>2, <1>4, Zenon DEF OpensAs, open_with_verifier, select_required_wrapper
<1>11. WrapperIndices(object, i) = {k} /\ k \in Nat
  <2>1. IsASeq(O.wrappers)
    BY <1>1 DEF Coherent
  <2>2. k \in 1 .. Len(O.wrappers) /\ Len(O.wrappers) \in Nat
    BY <1>3, <2>1, Appended
  <2> QED
    BY <1>9, <1>10, <2>2
<1>12. FirstIndex(object, i) = k
  BY <1>11 DEF FirstIndex
<1>13. FindWrapper(object, i) = w
  BY <1>7, <1>12 DEF FindWrapper
<1>14. unwrap_dek_for_epoch(recipient, object, Cap, state, w)
  BY <1>2, <1>4, <1>13, Zenon DEF OpensAs, open_with_verifier, open_verified
<1>15. context_hash(object, state, Cap) = context_hash(O, state, Cap)
  BY <1>6, Zenon DEF context_hash
<1>16. unwrap_dek_for_epoch(recipient, O, Cap, state, w)
  BY <1>14, <1>15, Zenon DEF unwrap_dek_for_epoch, KekFor
<1> QED
  BY <1>16 DEF O, state

(* No change of a wrapper opens at its epoch. *)
LEMMA WrapperChangeShut ==
    ASSUME LifecycleInv, NEW i \in DOMAIN ledger, NEW recipient \in Recipient,
           NEW k \in WrapperIndices(Object, i), NEW object \in WrapperChanges(Object, k)
    PROVE  ~OpensAs(object, recipient, StateOf(ledger, i, i))
<1> DEFINE state == StateOf(ledger, i, i)
           ctx   == context_hash(Object, state, Cap)
           kem   == kem_encaps(owner)
           made  == hybrid_secret(kem.ss_classical, kem.ct_pq, kem.ss_pq)
           v     == Object.wrappers[k]
<1>1. v = WrapperFor(Object, owner, Cap, state, ProofOf(i, i), Object.dek)
  BY WrapperAt, Zenon
<1>2. state.epoch = i /\ i \in Nat
  BY LinearState, Zenon DEF LifecycleInv
<1>3. PICK w : /\ w \in {[v EXCEPT !.epoch = @ + 1],
                         [v EXCEPT !.kem_ct_classical = <<"changed">>],
                         [v EXCEPT !.kem_ct_pq = <<"changed">>],
                         [v EXCEPT !.wrapped_dek.kek = <<>>],
                         [v EXCEPT !.context_hash = <<>>],
                         [v EXCEPT !.capability_stamp.id = 0]}
               /\ object = [Object EXCEPT !.wrappers[k] = w]
  BY Zenon DEF WrapperChanges
<1> HIDE DEF v
<1>4. /\ DOMAIN v = {"epoch", "kem_ct_classical", "kem_ct_pq", "context_hash",
                     "capability_stamp", "transparency_proof", "wrapped_dek"}
      /\ v.epoch = i
      /\ v.capability_stamp = Cap
      /\ v.wrapped_dek.kek = derive_kek(made, ctx)
      /\ v.wrapped_dek.aad = authority_aad(ctx, kem.ct_classical, kem.ct_pq)
      /\ "kek" \in DOMAIN v.wrapped_dek
  <2> HIDE DEF state
  <2> QED
    BY <1>1, <1>2, Zenon DEF WrapperFor
<1>5. SUFFICES ASSUME OpensAs([Object EXCEPT !.wrappers[k] = w], recipient, state)
               PROVE  FALSE
  BY <1>3
<1>6. unwrap_dek_for_epoch(recipient, Object, Cap, state, w)
  BY <1>5, WrapperBinds, Zenon
<1> DEFINE back == kem_decaps(recipient, w.kem_ct_classical, w.kem_ct_pq)
<1>7. /\ w.epoch = i
      /\ w.capability_stamp = Cap
      /\ w.context_hash = ctx
      /\ w.wrapped_dek.kek
            = derive_kek(hybrid_secret(back.ss_classical, w.kem_ct_pq, back.ss_pq), ctx)
      /\ w.wrapped_dek.aad = authority_aad(ctx, w.kem_ct_classical, w.kem_ct_pq)
  BY <1>2, <1>6, Zenon DEF unwrap_dek_for_epoch, KekFor
<1>8. kem.ct_classical # <<"changed">> /\ kem.ct_pq # <<"changed">>
  BY ChangedCiphertext, Zenon DEF LifecycleInv
<1>9. ctx # <<>>
  BY DEF context_hash
<1>10. \A x, c : derive_kek(x, c) # <<>>
  BY DEF derive_kek
<1>11. \A c, p, d, q : authority_aad(ctx, c, p) = authority_aad(ctx, d, q) => c = d /\ p = q
  BY DEF authority_aad
<1>12. [Cap EXCEPT !.id = 0] # Cap
  <2>1. "id" \in DOMAIN Cap /\ Cap.id # 0
    BY IdsAssumption
  <2>2. [Cap EXCEPT !.id = 0].id = 0
    BY <2>1
  <2> QED
    BY <2>1, <2>2
<1> HIDE DEF ctx, made, state, kem
<1>13. CASE w = [v EXCEPT !.epoch = @ + 1]
  <2>1. w.epoch = i + 1
    BY <1>4, <1>13
  <2> QED
    BY <1>2, <1>7, <2>1
<1>14. CASE w = [v EXCEPT !.kem_ct_pq = <<"changed">>]
  <2>1. w.kem_ct_pq = <<"changed">> /\ w.wrapped_dek = v.wrapped_dek
    BY <1>4, <1>14, Zenon
  <2>2. authority_aad(ctx, kem.ct_classical, kem.ct_pq)
           = authority_aad(ctx, w.kem_ct_classical, w.kem_ct_pq)
    BY <1>4, <1>7, <2>1, Zenon
  <2>3. kem.ct_classical = w.kem_ct_classical /\ kem.ct_pq = w.kem_ct_pq
    BY <1>11, <2>2
  <2> QED
    BY <1>8, <2>1, <2>3
<1>15. CASE w = [v EXCEPT !.wrapped_dek.kek = <<>>]
  <2>1. w.wrapped_dek.kek = <<>>
    BY <1>4, <1>15
  <2> QED
    BY <1>7, <1>10, <2>1, Zenon
<1>16. CASE w = [v EXCEPT !.context_hash = <<>>]
  <2>1. w.context_hash = <<>>
    BY <1>4, <1>16
  <2> QED
    BY <1>7, <1>9, <2>1
<1>17. CASE w = [v EXCEPT !.capability_stamp.id = 0]
  <2>1. w.capability_stamp = [Cap EXCEPT !.id = 0]
    BY <1>4, <1>17
  <2> QED
    BY <1>7, <1>12, <2>1
<1>18. CASE w = [v EXCEPT !.kem_ct_classical = <<"changed">>]
  <2>1. w.kem_ct_classical = <<"changed">> /\ w.wrapped_dek = v.wrapped_dek
    BY <1>4, <1>18, Zenon
  <2>2. authority_aad(ctx, kem.ct_classical, kem.ct_pq)
           = authority_aad(ctx, w.kem_ct_classical, w.kem_ct_pq)
    BY <1>4, <1>7, <2>1, Zenon
  <2>3. kem.ct_classical = w.kem_ct_classical /\ kem.ct_pq = w.kem_ct_pq
    BY <1>11, <2>2
  <2> QED
    BY <1>8, <2>1, <2>3
<1> QED
  BY <1>3, <1>13, <1>14, <1>15, <1>16, <1>17, <1>18, Zenon

(* No change of the header and no change of a wrapper opens. *)
LEMMA ChangesShut == LifecycleInv => ChangedNeverOpens
<1> SUFFICES ASSUME LifecycleInv, NEW i \in DOMAIN ledger, NEW recipient \in Recipient
             PROVE  LET state == StateOf(ledger, i, i)
                    IN  /\ \A object \in HeaderChanges(Object) :
                              ~OpensAs(object, recipient, state)
                        /\ \A k \in WrapperIndices(Object, state.epoch) :
                              \A object \in WrapperChanges(Object, k) :
                                  ~OpensAs(object, recipient, state)
  BY Zenon DEF ChangedNeverOpens
<1>1. StateOf(ledger, i, i).epoch = i
  BY LinearState, Zenon DEF LifecycleInv
<1> QED
  BY <1>1, HeaderChangeShut, WrapperChangeShut, Zenon

------------------------------------------------------------------------------
(* Publishing the next epoch, with the capability revoked or not. *)
LEMMA NextEpoch ==
    ASSUME LifecycleInv, NEW revoked \in {{}, {Cap}},
           NEW r, r = [ledger[Now] EXCEPT !.epoch = @ + 1, !.revoked = revoked],
           NewEpoch(r)
    PROVE  /\ Grown(ledger, ledger')
           /\ LedgerLinear(ledger')
           /\ Registered(evidence', ledger')
           /\ UNCHANGED <<objects, held, owner, notices>>
<1>1. LedgerLinear(ledger) /\ Registered(evidence, ledger)
  BY DEF LifecycleInv
<1>2. LedgerOrdered(ledger) /\ Publish(r)
      /\ evidence' = add(StateOf(ledger', Now + 1, Now + 1), CertFor(r.epoch))
      /\ UNCHANGED <<objects, held, owner, notices>>
  BY <1>1, Zenon DEF LedgerLinear, NewEpoch
<1>3. /\ Grown(ledger, ledger')
      /\ ledger'[Len(ledger')] = r
  BY <1>2, PublishGrows
<1>4. /\ Now \in Nat
      /\ Now \in DOMAIN ledger
      /\ DOMAIN ledger = 1 .. Now
      /\ DOMAIN ledger' = 1 .. Now + 1
      /\ Len(ledger') = Now + 1
  BY <1>1, <1>2 DEF LedgerLinear, LedgerOrdered, Publish, Now
<1>5. ledger[Now].epoch = Now /\ ledger[Now].active = <<Cap>> /\ ledger[Now] \in Record
  BY <1>1, <1>4 DEF LedgerLinear, LedgerOrdered
<1>6. r.epoch = Now + 1 /\ r.active = <<Cap>> /\ r.revoked = revoked
  BY <1>5 DEF Record
<1> HIDE DEF Now
<1>7. \A i \in DOMAIN ledger' : i \in DOMAIN ledger \/ i = Now + 1
  BY <1>4
<1>8. ledger'[Now + 1] = r
  BY <1>3, <1>4
<1>9. LedgerLinear(ledger')
  <2>1. 1 \in DOMAIN ledger'
    BY <1>4
  <2>2. LedgerOrdered(ledger')
    BY <1>3 DEF Grown
  <2>3. ASSUME NEW i \in DOMAIN ledger'
        PROVE  ledger'[i].epoch = i /\ ledger'[i].active = <<Cap>>
               /\ ledger'[i].revoked \in {{}, {Cap}}
    <3>1. CASE i \in DOMAIN ledger
      BY <1>1, <1>3, <3>1, Zenon DEF LedgerLinear, Grown
    <3>2. CASE i = Now + 1
      BY <1>6, <1>8, <3>2, Zenon
    <3> QED
      BY <1>7, <3>1, <3>2
  <2> QED
    BY <2>1, <2>2, <2>3, Zenon DEF LedgerLinear
<1>10. Registered(evidence', ledger')
  <2> DEFINE state == StateOf(ledger', Now + 1, Now + 1)
  <2>1. state.epoch = Now + 1
    BY <1>6, <1>8 DEF StateOf
  <2>2. evidence' = add(state, CertFor(Now + 1))
    BY <1>2, <1>6
  <2> HIDE DEF state
  <2>3. /\ DOMAIN evidence' = DOMAIN evidence \cup {Now + 1}
        /\ evidence'[Now + 1].epoch_root_sig = state
        /\ evidence'[Now + 1].epoch_cert = CertFor(Now + 1)
        /\ \A e \in DOMAIN evidence : e # Now + 1 => evidence'[e] = evidence[e]
    BY <2>1, <2>2 DEF add
  <2>4. DOMAIN evidence' = DOMAIN ledger'
    BY <1>1, <1>4, <2>3 DEF Registered
  <2>5. \A e \in DOMAIN ledger : e # Now + 1
    BY <1>4
  <2>6. ASSUME NEW e \in DOMAIN ledger'
        PROVE  /\ evidence'[e].epoch_root_sig = StateOf(ledger', e, e)
               /\ evidence'[e].epoch_cert = CertFor(e)
    <3>1. CASE e \in DOMAIN ledger
      <4>1. evidence'[e] = evidence[e]
        BY <1>1, <2>3, <2>5, <3>1 DEF Registered
      <4>2. StateOf(ledger', e, e) = StateOf(ledger, e, e)
        BY <1>3, <3>1 DEF StateOf, Grown
      <4> QED
        BY <1>1, <3>1, <4>1, <4>2, Zenon DEF Registered
    <3>2. CASE e = Now + 1
      BY <2>3, <3>2, Zenon DEF state
    <3> QED
      BY <1>7, <3>1, <3>2
  <2> QED
    BY <2>4, <2>6, Zenon DEF Registered
<1> QED
  BY <1>2, <1>3, <1>9, <1>10

(* A log that grows keeps the object its owner's. *)
LEMMA OwnLater ==
    ASSUME NEW object, NEW log, NEW later, NEW recipient, Grown(log, later),
           OwnObject(object, log, recipient)
    PROVE  OwnObject(object, later, recipient)
<1>1. Coherent(object, later) /\ OwnHeader(object)
  BY CoherentLater DEF Grown, OwnObject
<1>2. ASSUME NEW j \in DOMAIN object.wrappers PROVE OwnWrapper(object, j, later, recipient)
  <2> DEFINE e == object.wrappers[j].epoch
  <2>1. OwnWrapper(object, j, log, recipient)
    BY DEF OwnObject
  <2>2. e \in DOMAIN log /\ e \in DOMAIN later
    BY <2>1, Zenon DEF OwnWrapper, Grown
  <2>3. StateOf(later, e, e) = StateOf(log, e, e)
    BY <2>2, Zenon DEF StateOf, Grown
  <2> QED
    BY <2>1, <2>2, <2>3, Zenon DEF OwnWrapper
<1> QED
  BY <1>1, <1>2, Zenon DEF OwnObject

(* Neither a rotation nor the revocation disturbs the invariant. *)
LEMMA EpochKeeps ==
    ASSUME LifecycleInv, NEW revoked \in {{}, {Cap}},
           NEW r, r = [ledger[Now] EXCEPT !.epoch = @ + 1, !.revoked = revoked],
           NewEpoch(r)
    PROVE  LifecycleInv'
<1>1. /\ Grown(ledger, ledger')
      /\ LedgerLinear(ledger')
      /\ Registered(evidence', ledger')
      /\ UNCHANGED <<objects, held, owner, notices>>
  BY NextEpoch, Zenon
<1>2. OwnObject(Object, ledger', owner)
  BY <1>1, OwnLater DEF LifecycleInv
<1> QED
  BY <1>1, <1>2, Zenon DEF LifecycleInv, Object

(* What rewrapping makes of the list of wrappers: one is new, the others    *)
(* are those there were.                                                    *)
LEMMA RewrapElements ==
    ASSUME NEW object, NEW log, Coherent(object, log), NEW w,
           NEW j \in DOMAIN Rewrapped(object, w).wrappers
    PROVE  \/ Rewrapped(object, w).wrappers[j] = w
           \/ /\ j \in DOMAIN object.wrappers
              /\ Rewrapped(object, w).wrappers[j] = object.wrappers[j]
<1> DEFINE made == Rewrapped(object, w)
<1>1. CASE WrapperIndices(object, w.epoch) # {}
  <2> DEFINE k == FirstIndex(object, w.epoch)
  <2>1. k \in DOMAIN object.wrappers
    BY <1>1, Found
  <2>2. made = [object EXCEPT !.wrappers = [object.wrappers EXCEPT ![k] = w]]
    BY <1>1 DEF Rewrapped
  <2>3. j \in DOMAIN made.wrappers
    OBVIOUS
  <2> HIDE DEF k, made
  <2>4. made.wrappers = [object.wrappers EXCEPT ![k] = w]
    BY <2>2 DEF Coherent, HeaderFields
  <2>5. /\ DOMAIN made.wrappers = DOMAIN object.wrappers
        /\ made.wrappers[k] = w
        /\ \A m \in DOMAIN object.wrappers : m # k => made.wrappers[m] = object.wrappers[m]
    BY <2>1, <2>4, Replaced DEF Coherent
  <2> QED
    BY <2>3, <2>5, Zenon DEF made
<1>2. CASE WrapperIndices(object, w.epoch) = {}
  <2>1. made = [object EXCEPT !.wrappers = Append(object.wrappers, w)]
    BY <1>2 DEF Rewrapped
  <2>2. j \in DOMAIN made.wrappers
    OBVIOUS
  <2> HIDE DEF made
  <2>3. made.wrappers = Append(object.wrappers, w)
    BY <2>1 DEF Coherent, HeaderFields
  <2> DEFINE n == Len(object.wrappers)
  <2>4. /\ n \in Nat
        /\ DOMAIN object.wrappers = 1 .. n
        /\ DOMAIN made.wrappers = 1 .. n + 1
        /\ made.wrappers[n + 1] = w
        /\ \A m \in DOMAIN object.wrappers : made.wrappers[m] = object.wrappers[m]
    BY <2>3, Appended DEF Coherent
  <2> HIDE DEF n
  <2>5. j \in 1 .. n \/ j = n + 1
    BY <2>2, <2>4
  <2> QED
    BY <2>4, <2>5, Zenon DEF made
<1> QED
  BY <1>1, <1>2, Zenon

(* Wrappers depend on the header of the object alone. *)
LEMMA SameWrapper ==
    ASSUME NEW object, NEW later, SameHeader(object, later), NEW recipient, NEW cap, NEW state,
           NEW proof, NEW dek
    PROVE  WrapperFor(later, recipient, cap, state, proof, dek)
              = WrapperFor(object, recipient, cap, state, proof, dek)
<1>1. context_hash(later, state, cap) = context_hash(object, state, cap)
  BY Zenon DEF context_hash, SameHeader
<1> QED
  BY <1>1, Zenon DEF WrapperFor

(* The last epoch. *)
LEMMA NowState ==
    ASSUME LedgerLinear(ledger)
    PROVE  Now \in DOMAIN ledger /\ Now \in Nat /\ CurrentState.epoch = Now
<1>1. Now \in DOMAIN ledger /\ Now \in Nat
  BY DEF LedgerLinear, LedgerOrdered, Now
<1> QED
  BY <1>1, LinearState DEF CurrentState

(* Rewrapping for the owner leaves the object the owner's. *)
LEMMA RewrapOwn ==
    ASSUME LifecycleInv, rewrap
    PROVE  /\ objects' = <<Object'>>
           /\ OwnObject(Object', ledger, owner)
           /\ SameHeader(Object, Object')
           /\ UNCHANGED <<ledger, evidence, held, owner, notices>>
<1> DEFINE from == state_for_epoch(first_wrapper_epoch(Object))
           to   == CurrentState
           dek  == FindWrapper(Object, from.epoch).wrapped_dek.dek
           w    == WrapperFor(Object, owner, Cap, to, ProofOf(Now, Now), dek)
           made == Rewrapped(Object, w)
           O    == Object
<1>1. /\ CanRewrap(ledger, owner, Object, Cap, IssuanceCert, from, to, ProofOf(Now, Now))
      /\ Rewrap(1, owner, Cap, from, to, ProofOf(Now, Now))
      /\ UNCHANGED <<ledger, evidence, held, owner, notices>>
  BY Zenon DEF rewrap
<1>2. LedgerLinear(ledger) /\ LedgerOrdered(ledger) /\ OwnObject(O, ledger, owner)
      /\ Coherent(O, ledger) /\ OwnHeader(O) /\ objects = <<O>>
  BY Zenon DEF LifecycleInv, OwnObject, LedgerLinear
<1>3. Now \in DOMAIN ledger /\ Now \in Nat /\ to.epoch = Now /\ to = StateOf(ledger, Now, Now)
  BY <1>2, NowState DEF CurrentState
<1>4. objects' = [objects EXCEPT ![1] = made]
  BY <1>1, Zenon DEF Rewrap, Object
<1>5. Coherent(made, ledger)
  BY <1>1, <1>2, <1>3, RewrapCoherent, Zenon
<1>6. dek = O.dek
  <2>1. WrapperIndices(O, from.epoch) # {}
    BY <1>1, Zenon DEF CanRewrap
  <2>2. PICK j \in DOMAIN O.wrappers : FindWrapper(O, from.epoch) = O.wrappers[j]
    BY <1>2, <2>1, FoundAmong
  <2>3. GoodWrapper(O, j, ledger)
    BY <1>2, Zenon DEF Coherent
  <2> QED
    BY <2>2, <2>3, Zenon DEF GoodWrapper
<1>7. InWindow(Now, Cap)
  BY <1>1, <1>3, Zenon DEF CanRewrap, RewrapTarget
<1>8. SameHeader(O, made)
  BY <1>2, RewrapSameHeader
<1>9. w = WrapperFor(O, owner, Cap, StateOf(ledger, Now, Now), ProofOf(Now, Now), O.dek)
  BY <1>3, <1>6, Zenon
<1> HIDE DEF from, to, dek
<1>10. w.epoch = Now
  BY <1>3, Zenon DEF WrapperFor
<1>11. \A j \in DOMAIN made.wrappers :
           \/ made.wrappers[j] = w
           \/ j \in DOMAIN O.wrappers /\ made.wrappers[j] = O.wrappers[j]
  BY <1>2, RewrapElements, Zenon
<1> HIDE DEF w, made, O
<1>12. objects' = <<made>> /\ Object' = made
  BY <1>2, <1>4 DEF Object
<1>13. OwnHeader(made)
  <2>1. payload_aad(made) = payload_aad(O)
    BY <1>8, Zenon DEF SameHeader, payload_aad
  <2> QED
    BY <1>2, <1>8, <2>1, Zenon DEF SameHeader, OwnHeader
<1>14. ASSUME NEW j \in DOMAIN made.wrappers PROVE OwnWrapper(made, j, ledger, owner)
  <2> DEFINE v == made.wrappers[j]
             For(object) == WrapperFor(object, owner, Cap, StateOf(ledger, v.epoch, v.epoch),
                                       ProofOf(v.epoch, v.epoch), object.dek)
  <2>1. v.epoch \in DOMAIN ledger /\ InWindow(v.epoch, Cap) /\ v = For(O)
    <3>1. CASE v = w
      BY <1>3, <1>7, <1>9, <1>10, <3>1, Zenon
    <3>2. CASE j \in DOMAIN O.wrappers /\ v = O.wrappers[j]
      BY <1>2, <3>2, Zenon DEF OwnObject, OwnWrapper
    <3> QED
      BY <1>11, <3>1, <3>2, Zenon
  <2>2. For(made) = For(O)
    <3>1. made.dek = O.dek
      BY <1>8, Zenon DEF SameHeader
    <3>2. \A state, proof : WrapperFor(made, owner, Cap, state, proof, O.dek)
                               = WrapperFor(O, owner, Cap, state, proof, O.dek)
      BY <1>8, SameWrapper
    <3> QED
      BY <3>1, <3>2, Zenon
  <2> QED
    BY <2>1, <2>2, Zenon DEF OwnWrapper
<1>15. OwnObject(made, ledger, owner)
  BY <1>5, <1>13, <1>14, Zenon DEF OwnObject
<1> QED
  BY <1>1, <1>8, <1>12, <1>15, Zenon DEF O

(* A new object, sealed to a recipient, is that recipient's. *)
LEMMA SealOwn ==
    ASSUME NEW log, LedgerLinear(log), NEW i \in DOMAIN log, NEW recipient, NEW cert,
           NEW dek \in {1, 2}, CanSeal(log, Cap, cert, i, i, {"READ"})
    PROVE  OwnObject(NewObject(dek, recipient, Cap, StateOf(log, i, i), ProofOf(i, i),
                               Request(Cap, {"READ"}, StateOf(log, i, i).epoch),
                               [kind |-> "Current"]), log, recipient)
<1> DEFINE state  == StateOf(log, i, i)
           policy == [kind |-> "Current"]
           req    == Request(Cap, {"READ"}, state.epoch)
           header == [version |-> 1, suite |-> "CSK2",
                      object_id |-> req.object_id, required_rights |-> req.required_rights,
                      policy_hash |-> req.policy_hash,
                      seal_epoch |-> state.epoch, temporal_policy |-> policy,
                      authority_root |-> state.authority_root,
                      revocation_root |-> state.revocation_root,
                      dek |-> dek, payload_aad |-> <<>>, wrappers |-> <<>>]
           w      == WrapperFor(header, recipient, Cap, state, ProofOf(i, i), dek)
           aad    == payload_aad(header)
           object == [header EXCEPT !.payload_aad = aad, !.wrappers = <<w>>]
<1>1. NewObject(dek, recipient, Cap, state, ProofOf(i, i), req, policy) = object
  BY Zenon DEF NewObject
<1>2. state.epoch = i /\ i \in Nat
  BY LinearState, SMTT(30)
<1>3. LedgerOrdered(log)
  BY DEF LedgerLinear
<1>4. Coherent(object, log)
  BY <1>1, <1>3, SealCoherent
<1>5. InWindow(i, Cap)
  BY <1>2, Zenon DEF CanSeal, validate_capability, Request
<1>6. /\ req.object_id = Cap.object_id
      /\ req.required_rights = {"READ"}
      /\ req.policy_hash = Cap.policy_hash
  BY Zenon DEF Request
<1>7. w.epoch = i
  BY <1>2, Zenon DEF WrapperFor
<1>8. aad = <<req.object_id, req.required_rights, req.policy_hash, state.epoch>>
  BY Zenon DEF payload_aad
<1>9. /\ header.object_id = req.object_id
      /\ header.required_rights = req.required_rights
      /\ header.policy_hash = req.policy_hash
      /\ header.temporal_policy = policy
  BY Zenon
<1>10. w = WrapperFor(header, recipient, Cap, state, ProofOf(i, i), dek)
  BY Zenon
<1> HIDE DEF w, state, req, policy, aad
<1>11. /\ object.object_id = req.object_id
       /\ object.required_rights = req.required_rights
       /\ object.policy_hash = req.policy_hash
       /\ object.seal_epoch = state.epoch
       /\ object.temporal_policy = policy
       /\ object.dek = dek
       /\ object.payload_aad = aad
       /\ object.wrappers = <<w>>
  BY ZenonT(30)
<1> HIDE DEF object, header
<1>12. OwnHeader(object)
  <2>1. payload_aad(object) = aad
    BY <1>8, <1>11, Zenon DEF payload_aad
  <2> QED
    BY <1>6, <1>11, <2>1, Zenon DEF OwnHeader, policy
<1>13. context_hash(object, state, Cap) = context_hash(header, state, Cap)
  BY <1>9, <1>11, Zenon DEF context_hash
<1>14. w = WrapperFor(object, recipient, Cap, state, ProofOf(i, i), dek)
  BY <1>10, <1>13, Zenon DEF WrapperFor
<1>15. DOMAIN object.wrappers = {1} /\ object.wrappers[1] = w
  BY <1>11
<1>16. \A j \in DOMAIN object.wrappers : OwnWrapper(object, j, log, recipient)
  BY <1>5, <1>7, <1>11, <1>14, <1>15, Zenon DEF OwnWrapper, state
<1>17. OwnObject(object, log, recipient)
  BY <1>4, <1>12, <1>16, Zenon DEF OwnObject
<1> QED
  BY <1>1, <1>17 DEF state, req, policy

(* Resealing hands the object to its new recipient. *)
LEMMA ResealOwn ==
    ASSUME LifecycleInv, NEW recipient_new, reseal(recipient_new)
    PROVE  /\ objects' = <<Object'>>
           /\ OwnObject(Object', ledger, recipient_new)
           /\ owner' = recipient_new
           /\ Object'.dek # Object.dek
           /\ Object'.seal_epoch = Now
           /\ UNCHANGED <<ledger, evidence, held, notices>>
<1> DEFINE state == CurrentState
           new   == NewObject(3 - Object.dek, recipient_new, Cap, state, ProofOf(Now, Now),
                              Request(Cap, {"READ"}, state.epoch), [kind |-> "Current"])
<1>1. /\ CanSeal(ledger, Cap, IssuanceCert, Now, Now, {"READ"})
      /\ objects' = <<new>>
      /\ owner' = recipient_new
      /\ UNCHANGED <<ledger, evidence, held, notices>>
  BY Zenon DEF reseal, SealRequest
<1>2. LedgerLinear(ledger) /\ Object.dek \in {1, 2}
  BY Zenon DEF LifecycleInv, OwnObject, OwnHeader
<1>3. Now \in DOMAIN ledger /\ state.epoch = Now /\ state = StateOf(ledger, Now, Now)
  BY <1>2, NowState DEF CurrentState
<1>4. 3 - Object.dek \in {1, 2} /\ 3 - Object.dek # Object.dek
  BY <1>2
<1>5. new.dek = 3 - Object.dek /\ new.seal_epoch = state.epoch
  BY Zenon DEF NewObject
<1> HIDE DEF state
<1>6. OwnObject(new, ledger, recipient_new)
  BY <1>1, <1>2, <1>3, <1>4, SealOwn, Zenon
<1> HIDE DEF new
<1>7. Object' = new
  BY <1>1 DEF Object
<1> QED
  BY <1>1, <1>3, <1>4, <1>5, <1>6, <1>7, Zenon

(* The first seal succeeds. *)
LEMMA LifecycleStart == LifecycleInit => LifecycleInv
<1> SUFFICES ASSUME LifecycleInit PROVE LifecycleInv
  OBVIOUS
<1> DEFINE first == [epoch |-> 1, active |-> <<Cap>>, revoked |-> {}]
           state == CurrentState
           new   == NewObject(1, owner, Cap, state, ProofOf(1, 1),
                              Request(Cap, {"READ"}, state.epoch), [kind |-> "Current"])
<1>1. /\ ledger = <<first>>
      /\ evidence = [e \in {1} |-> [epoch_root_sig |-> state, epoch_cert |-> CertFor(1)]]
      /\ held = capability_proof(Cap, <<Cap>>, {}, <<Cap>>, CertFor(1))
      /\ owner \in Recipient
      /\ objects = <<new>>
      /\ notices = <<>>
  BY Zenon DEF LifecycleInit, SealRequest
<1>2. first \in Record /\ first.epoch = 1 /\ first.active = <<Cap>> /\ first.revoked = {}
  <2>1. Cap \in Capability
    BY CapAssumption, Zenon
  <2>2. <<Cap>> \in Seq(Capability) /\ 1 \in Nat
    BY <2>1
  <2> QED
    BY <2>2, Zenon DEF Record
<1> HIDE DEF first
<1>3. Now = 1 /\ DOMAIN ledger = {1} /\ ledger[1] = first
  BY <1>1 DEF Now
<1>4. LedgerLinear(ledger)
  <2>1. ledger \in Seq(Record)
    <3>1. ledger = <<first>> /\ first \in Record
      BY <1>1, <1>2, Zenon
    <3> QED
      BY <3>1
  <2>2. LedgerOrdered(ledger)
    BY <1>3, <2>1 DEF LedgerOrdered
  <2> QED
    BY <1>2, <1>3, <2>2, Zenon DEF LedgerLinear
<1>5. state = StateOf(ledger, 1, 1)
  BY <1>3, Zenon DEF CurrentState
<1> HIDE DEF state
<1>6. Registered(evidence, ledger)
  BY <1>1, <1>3, <1>5, Zenon DEF Registered
<1>7. CanSeal(ledger, Cap, CertFor(1), 1, 1, {"READ"})
  <2> DEFINE req == Request(Cap, {"READ"}, StateOf(ledger, 1, 1).epoch)
  <2>1. 1 \in DOMAIN ledger
    BY <1>3
  <2>2. verify_state(ledger, StateOf(ledger, 1, 1), ProofOf(1, 1))
    BY <1>4, <1>6, <2>1, StateVerifies
  <2>3. /\ req.object_id = Cap.object_id
        /\ req.required_rights = {"READ"}
        /\ req.policy_hash = Cap.policy_hash
        /\ req.epoch = 1
    BY <1>4, <2>1, LinearState, Zenon DEF Request
  <2> HIDE DEF req
  <2>4. Cap \notin ledger[1].revoked /\ InWindow(1, Cap)
    BY <1>2, <1>3, CapAssumption
  <2>5. validate_capability(Cap, CertFor(1), StateOf(ledger, 1, 1), req)
    BY <1>4, <2>1, <2>3, <2>4, CapValidates, Zenon
  <2> QED
    BY <2>2, <2>5, Zenon DEF CanSeal, req
<1>8. OwnObject(new, ledger, owner)
  BY <1>3, <1>4, <1>5, <1>7, SealOwn
<1> HIDE DEF new
<1>9. Object = new /\ objects = <<Object>>
  BY <1>1 DEF Object
<1>10. IsASeq(notices)
  BY <1>1 DEF IsASeq
<1> QED
  BY <1>1, <1>4, <1>6, <1>8, <1>9, <1>10 DEF LifecycleInv

(* Every step of the lifecycle keeps the invariant. *)
LEMMA LifecycleStep == LifecycleInv /\ [LifecycleNext]_lvars => LifecycleInv'
<1> SUFFICES ASSUME LifecycleInv, [LifecycleNext]_lvars PROVE LifecycleInv'
  OBVIOUS
<1>1. Now \in DOMAIN ledger /\ ledger[Now].revoked \in {{}, {Cap}} /\ ledger[Now] \in Record
  <2>1. LedgerLinear(ledger)
    BY Zenon DEF LifecycleInv
  <2>2. Now \in DOMAIN ledger /\ ledger[Now].revoked \in {{}, {Cap}}
    BY <2>1, NowState, Zenon DEF LedgerLinear
  <2>3. ledger \in Seq(Record)
    BY <2>1, Zenon DEF LedgerLinear, LedgerOrdered
  <2>4. ledger[Now] \in Record
    BY <2>2, <2>3
  <2> QED
    BY <2>2, <2>4, Zenon
<1>2. CASE rotate
  <2>1. [ledger[Now] EXCEPT !.epoch = @ + 1]
           = [ledger[Now] EXCEPT !.epoch = @ + 1, !.revoked = ledger[Now].revoked]
    BY <1>1, Zenon DEF Record
  <2> QED
    BY <1>1, <1>2, <2>1, EpochKeeps, Zenon DEF rotate
<1>3. CASE revoke
  <2> DEFINE revoked == ledger[Now].revoked \cup {Cap}
  <2>1. revoked \in {{}, {Cap}}
    BY <1>1
  <2>2. [ledger[Now] EXCEPT !.epoch = @ + 1, !.revoked = @ \cup {Cap}]
           = [ledger[Now] EXCEPT !.epoch = @ + 1, !.revoked = revoked]
    BY <1>1 DEF Record
  <2>3. NewEpoch([ledger[Now] EXCEPT !.epoch = @ + 1, !.revoked = revoked])
    BY <1>3, <2>2 DEF revoke
  <2> HIDE DEF revoked
  <2> QED
    BY <2>1, <2>3, EpochKeeps, Zenon
<1>4. CASE rewrap
  BY <1>4, RewrapOwn, Zenon DEF LifecycleInv
<1>5. CASE \E recipient_new \in Recipient : reseal(recipient_new)
  <2>1. PICK recipient_new \in Recipient : reseal(recipient_new)
    BY <1>5
  <2> QED
    BY <2>1, ResealOwn, Zenon DEF LifecycleInv
<1>6. ASSUME NEW epoch_pk \in NoticeKey, NEW epoch \in NoticeEpoch, NEW damaged \in BOOLEAN,
             receive_notice(epoch_pk, epoch, damaged)
      PROVE  LifecycleInv'
  <2>1. PICK x : notices' = Append(notices, x)
    BY <1>6, Zenon DEF receive_notice
  <2>2. UNCHANGED <<ledger, evidence, objects, held, owner>>
    BY <1>6, Zenon DEF receive_notice
  <2>3. IsASeq(notices')
    BY <2>1, Appended, Zenon DEF LifecycleInv
  <2> QED
    BY <2>2, <2>3, Zenon DEF LifecycleInv, Object
<1>7. CASE UNCHANGED lvars
  BY <1>7, Zenon DEF lvars, LifecycleInv, Object
<1> QED
  BY <1>2, <1>3, <1>4, <1>5, <1>6, <1>7, Zenon DEF LifecycleNext

(***************************************************************************)
(* The log counts its epochs, each is registered as it was committed, the  *)
(* proof is the one drawn at epoch 1, and each wrapper of the object is    *)
(* the one made for its owner at its epoch.                                *)
(***************************************************************************)
THEOREM LifecycleInvariant == LifecycleSpec => []LifecycleInv
BY LifecycleStart, LifecycleStep, PTL DEF LifecycleSpec

(***************************************************************************)
(* OwnerOpens: through every order of rotations, rewraps, reseals and the  *)
(* revocation, open_with_verifier opens the object for the recipient it    *)
(* was last sealed to and for no other, at the epochs that have a wrapper  *)
(* and do not revoke the capability.                                       *)
(***************************************************************************)
THEOREM OwnerAloneOpens == LifecycleSpec => []OwnerOpens
BY LifecycleInvariant, OwnerAlone, PTL

(***************************************************************************)
(* ChangedNeverOpens: open_with_verifier opens no stored object whose      *)
(* identifier, rights, policy hash, seal epoch, temporal policy or payload *)
(* was changed, nor, at its epoch, a changed wrapper.                      *)
(***************************************************************************)
THEOREM ChangesNeverOpen == LifecycleSpec => []ChangedNeverOpens
BY LifecycleInvariant, ChangesShut, PTL

------------------------------------------------------------------------------
(* What a step does to what NoticeScope looks at: the log and the notices   *)
(* grow, and the seal epoch and the owner change when the object does.      *)
LifecycleMove ==
    /\ Grown(ledger, ledger')
    /\ held' = held
    /\ Object'.seal_epoch >= Object.seal_epoch
    /\ Object' = Object => owner' = owner
    /\ \/ notices' = notices
       \/ \E x : x.compromised_epoch \in Nat /\ notices' = Append(notices, x)

(* Every step is such a step. *)
LEMMA LifecycleMoves == LifecycleInv /\ [LifecycleNext]_lvars => LifecycleMove
<1> SUFFICES ASSUME LifecycleInv, [LifecycleNext]_lvars PROVE LifecycleMove
  OBVIOUS
<1>1. /\ LedgerLinear(ledger)
      /\ OwnObject(Object, ledger, owner)
  BY DEF LifecycleInv
<1>2. Grown(ledger, ledger)
  BY <1>1, Zenon DEF LedgerLinear, Grown
<1>3. Object.seal_epoch \in Nat /\ Object.seal_epoch <= Now
  <2>1. /\ Coherent(Object, ledger)
        /\ 1 \in DOMAIN Object.wrappers
        /\ Object.wrappers[1].epoch = Object.seal_epoch
        /\ Object.seal_epoch \in Nat
    BY <1>1 DEF OwnObject, Coherent
  <2>2. Object.seal_epoch \in DOMAIN ledger
    BY <1>1, <2>1, Zenon DEF OwnObject, OwnWrapper
  <2>3. ledger \in Seq(Record)
    BY <1>1, Zenon DEF LedgerLinear, LedgerOrdered
  <2> DEFINE e == Object.seal_epoch
  <2>4. e \in DOMAIN ledger
    BY <2>2, Zenon
  <2> HIDE DEF e
  <2>5. e <= Len(ledger)
    BY <2>3, <2>4
  <2> QED
    BY <2>1, <2>5, Zenon DEF Now, e
<1>4. ASSUME NEW r, NewEpoch(r) PROVE LifecycleMove
  <2>1. Grown(ledger, ledger')
    BY <1>1, <1>4, PublishGrows, Zenon DEF NewEpoch, LedgerLinear
  <2>2. UNCHANGED <<objects, held, owner, notices>>
    BY <1>4, Zenon DEF NewEpoch
  <2> QED
    BY <1>3, <2>1, <2>2 DEF LifecycleMove, Object
<1>5. CASE rewrap
  <2>1. SameHeader(Object, Object') /\ UNCHANGED <<ledger, evidence, held, owner, notices>>
    BY <1>5, RewrapOwn
  <2>2. Object'.seal_epoch = Object.seal_epoch
    BY <2>1, Zenon DEF SameHeader
  <2> QED
    BY <1>2, <1>3, <2>1, <2>2 DEF LifecycleMove
<1>6. ASSUME NEW recipient_new \in Recipient, reseal(recipient_new) PROVE LifecycleMove
  <2>1. /\ Object'.dek # Object.dek
        /\ Object'.seal_epoch = Now
        /\ UNCHANGED <<ledger, evidence, held, notices>>
    BY <1>6, ResealOwn
  <2>2. Now \in Nat
    BY <1>1, NowState
  <2> QED
    BY <1>2, <1>3, <2>1, <2>2 DEF LifecycleMove
<1>7. ASSUME NEW epoch_pk \in NoticeKey, NEW epoch \in NoticeEpoch, NEW damaged \in BOOLEAN,
             receive_notice(epoch_pk, epoch, damaged)
      PROVE  LifecycleMove
  <2> DEFINE issued == issue_compromise_notice(epoch_pk, epoch, CurrentState.authority_root)
             x == IF damaged THEN [issued EXCEPT !.signature = NoSignature] ELSE issued
  <2>1. notices' = Append(notices, x) /\ UNCHANGED <<ledger, evidence, objects, held, owner>>
    BY <1>7, Zenon DEF receive_notice
  <2>2. x.compromised_epoch = epoch
    BY DEF issue_compromise_notice
  <2>3. epoch \in Nat
    BY NoticeAssumption
  <2> HIDE DEF x
  <2> QED
    BY <1>2, <1>3, <2>1, <2>2, <2>3 DEF LifecycleMove, Object
<1>8. CASE UNCHANGED lvars
  BY <1>2, <1>3, <1>8 DEF lvars, LifecycleMove, Object
<1> QED
  BY <1>4, <1>5, <1>6, <1>7, <1>8, Zenon DEF LifecycleNext, rotate, revoke

(* A notice the checks of an epoch refuse: one the root did not sign, or one *)
(* that names the key at or before the epoch.                                *)
Refused(notice, pk, epoch) ==
    \/ ~verify_compromise_notice(notice)
    \/ notice.compromised_epoch_pk = pk /\ notice.compromised_epoch <= epoch

Hit(pk, epoch) ==
    \E k \in DOMAIN notices' : k > Len(notices) /\ Refused(notices'[k], pk, epoch)

(* The notices that arrive decide what the checks of notices still let pass. *)
LEMMA NoticesDecide ==
    ASSUME LifecycleInv, LifecycleMove, NEW pk, NEW state, state.epoch \in Nat
    PROVE  enforce_compromise_notices(state, pk, notices')
           <=> enforce_compromise_notices(state, pk, notices) /\ ~Hit(pk, state.epoch)
<1> DEFINE n == Len(notices)
<1>1. IsASeq(notices)
  BY DEF LifecycleInv
<1>2. n \in Nat /\ DOMAIN notices = 1 .. n
  BY <1>1, Appended
<1>3. CASE notices' = notices
  <2>1. ~Hit(pk, state.epoch)
    BY <1>2, <1>3 DEF Hit
  <2> QED
    BY <1>3, <2>1
<1>4. ASSUME NEW x, x.compromised_epoch \in Nat, notices' = Append(notices, x)
      PROVE  enforce_compromise_notices(state, pk, notices')
             <=> enforce_compromise_notices(state, pk, notices) /\ ~Hit(pk, state.epoch)
  <2>1. /\ DOMAIN notices' = 1 .. n + 1
        /\ notices'[n + 1] = x
        /\ \A k \in DOMAIN notices : notices'[k] = notices[k]
    BY <1>1, <1>4, Appended
  <2> HIDE DEF n
  <2>2. \A k \in DOMAIN notices' : k \in DOMAIN notices \/ k = n + 1
    BY <1>2, <2>1
  <2>3. n + 1 \in DOMAIN notices' /\ DOMAIN notices \subseteq DOMAIN notices' /\ n + 1 > n
    BY <1>2, <2>1
  <2>4. \A k \in DOMAIN notices : ~(k > n)
    BY <1>2
  <2>5. Hit(pk, state.epoch) <=> Refused(x, pk, state.epoch)
    BY <2>1, <2>2, <2>3, <2>4, Zenon DEF Hit, n
  <2>6. /\ verify_compromise_notice(x)
        /\ check_epoch_not_compromised(state.epoch, pk, x)
        <=> ~Refused(x, pk, state.epoch)
    BY <1>4 DEF check_epoch_not_compromised, Refused
  <2>7. enforce_compromise_notices(state, pk, notices')
        <=> /\ enforce_compromise_notices(state, pk, notices)
            /\ verify_compromise_notice(x)
            /\ check_epoch_not_compromised(state.epoch, pk, x)
    BY <2>1, <2>2, <2>3, Zenon DEF enforce_compromise_notices
  <2> QED
    BY <2>5, <2>6, <2>7
<1> QED
  BY <1>3, <1>4 DEF LifecycleMove

(***************************************************************************)
(* NoticeScope: enforce_compromise_notices takes away what was opened or   *)
(* verified with a proof issued under the key a notice names, at and after *)
(* its epoch and for good, and takes nothing away at the epochs before it  *)
(* nor where the key has no part.                                          *)
(***************************************************************************)
THEOREM NoticesHaveScope == LifecycleSpec => NoticeScope
<1> DEFINE Scope ==
        \A i \in DOMAIN ledger :
            LET state == StateOf(ledger, i, i)
                Hits  == \E k \in DOMAIN notices' : k > Len(notices)
                            /\ \/ ~verify_compromise_notice(notices'[k])
                               \/ /\ notices'[k].compromised_epoch_pk
                                        = held.issuance.epoch_cert.epoch_pk
                                  /\ notices'[k].compromised_epoch <= state.epoch
                StillVerifies ==
                    /\ verify_with_compromise_check_and_verifier(state, ProofOf(i, i))
                    /\ ~Hits
                    /\ Object.seal_epoch' <= state.epoch
                StillOpens == open_with_compromise_check_and_verifier(owner, state) /\ ~Hits
            IN  /\ verify_with_compromise_check_and_verifier(state, ProofOf(i, i))'
                   => StillVerifies
                /\ StillVerifies /\ ~NamesEpochKey(state)'
                   => verify_with_compromise_check_and_verifier(state, ProofOf(i, i))'
                /\ Object' = Object =>
                   /\ open_with_compromise_check_and_verifier(owner, state)' => StillOpens
                   /\ StillOpens /\ ~NamesEpochKey(state)'
                      => open_with_compromise_check_and_verifier(owner, state)'
<1>1. LifecycleInv' => VerifiedExactly' /\ OwnerOpens'
  BY VerifiesExactly, OwnerAlone, PTL
<1>2. LifecycleInv /\ [LifecycleNext]_lvars => Scope
  <2> SUFFICES ASSUME LifecycleInv, LifecycleInv', LifecycleMove, NEW i \in DOMAIN ledger
               PROVE  LET state == StateOf(ledger, i, i)
                          Hits  == Hit(held.issuance.epoch_cert.epoch_pk, state.epoch)
                      IN  /\ verify_with_compromise_check_and_verifier(state, ProofOf(i, i))'
                             <=> /\ verify_with_compromise_check_and_verifier(state, ProofOf(i, i))
                                 /\ ~Hits
                                 /\ Object.seal_epoch' <= state.epoch
                          /\ Object' = Object =>
                             (open_with_compromise_check_and_verifier(owner, state)'
                              <=> open_with_compromise_check_and_verifier(owner, state) /\ ~Hits)
    BY LifecycleStep, LifecycleMoves, Zenon DEF Hit, Refused
  <2> DEFINE state == StateOf(ledger, i, i)
             pk    == held.issuance.epoch_cert.epoch_pk
  <2>1. Grown(ledger, ledger') /\ held' = held
    BY DEF LifecycleMove
  <2>2. i \in DOMAIN ledger' /\ ledger'[i] = ledger[i]
    BY <2>1 DEF Grown
  <2>3. StateOf(ledger', i, i) = state
    BY <2>2 DEF StateOf
  <2>4. i \in Nat /\ state.epoch = i
    BY LinearState, Zenon DEF LifecycleInv
  <2>5. enforce_compromise_notices(state, pk, notices')
        <=> enforce_compromise_notices(state, pk, notices) /\ ~Hit(pk, i)
    BY <2>4, NoticesDecide
  <2>6. Object.seal_epoch \in Nat /\ Object'.seal_epoch \in Nat
        /\ Object.seal_epoch <= Object'.seal_epoch
    BY Zenon DEF LifecycleInv, OwnObject, Coherent, LifecycleMove
  <2>7. Verifies1(state, ProofOf(i, i))'
        <=> Verifies1(state, ProofOf(i, i)) /\ Object'.seal_epoch <= i
    <3>1. Verifies1(state, ProofOf(i, i))
          <=> Object.seal_epoch <= i /\ InWindow(i, Cap) /\ Cap \notin ledger[i].revoked
      BY VerifiesExactly, Zenon DEF VerifiedExactly
    <3>2. Verifies1(state, ProofOf(i, i))'
          <=> Object'.seal_epoch <= i /\ InWindow(i, Cap) /\ Cap \notin ledger'[i].revoked
      BY <1>1, <2>2, Zenon DEF VerifiedExactly
    <3>3. Object'.seal_epoch <= i => Object.seal_epoch <= i
      BY <2>4, <2>6
    <3> QED
      BY <2>2, <3>1, <3>2, <3>3, Zenon
  <2>8. verify_with_compromise_check_and_verifier(state, ProofOf(i, i))'
        <=> /\ verify_with_compromise_check_and_verifier(state, ProofOf(i, i))
            /\ ~Hit(pk, i)
            /\ Object.seal_epoch' <= i
    BY <2>1, <2>3, <2>5, <2>7, Zenon
       DEF verify_with_compromise_check_and_verifier, IssuanceCert
  <2>9. Object' = Object => (Opens1(owner, state)' <=> Opens1(owner, state))
    <3>1. SUFFICES ASSUME Object' = Object PROVE Opens1(owner, state)' <=> Opens1(owner, state)
      OBVIOUS
    <3>2. owner' = owner /\ owner \in Recipient
      BY <3>1 DEF LifecycleMove, LifecycleInv
    <3>3. Opens1(owner, state)
          <=> /\ owner.pq_public => owner.pq_secret
              /\ WrapperIndices(Object, ledger[i].epoch) # {}
              /\ Cap \notin ledger[i].revoked
      BY <3>2, OwnerAlone, Zenon DEF OwnerOpens
    <3>4. Opens1(owner, state)'
          <=> /\ owner'.pq_public => owner'.pq_secret
              /\ WrapperIndices(Object', ledger'[i].epoch) # {}
              /\ Cap \notin ledger'[i].revoked
      BY <1>1, <2>2, <3>2, Zenon DEF OwnerOpens
    <3> QED
      BY <2>2, <3>1, <3>2, <3>3, <3>4, Zenon
  <2>10. Object' = Object =>
         (open_with_compromise_check_and_verifier(owner, state)'
          <=> open_with_compromise_check_and_verifier(owner, state) /\ ~Hit(pk, i))
    BY <2>1, <2>3, <2>5, <2>9, Zenon
       DEF open_with_compromise_check_and_verifier, IssuanceCert
  <2> QED
    BY <2>4, <2>8, <2>10, Zenon
<1>3. LifecycleInv /\ [LifecycleNext]_lvars => [Scope]_lvars
  BY <1>2, Zenon
<1> HIDE DEF Scope
<1>4. LifecycleSpec => [][Scope]_lvars
  BY <1>3, LifecycleInvariant, PTL DEF LifecycleSpec
<1> QED
  BY <1>4 DEF NoticeScope, Scope
==============================================================================
