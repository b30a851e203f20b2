# Kyriotēs-CSK2 in TLA+

A TLA+ development kept beside the Rust library `src/` (crate sources under
`src/src/`): models of its stateful parts, TLC runs on small instances, and
TLAPS proofs of the main results for all values of the constants.

## 1. The system

Kyriotēs-CSK2 seals an object behind two gates: a recipient's key, and a
capability that an *authority* vouches for at an *epoch*. The library has no
threads, scheduler or storage of its own. What makes it hard is that state is
split between an authority's tree, a transparency log that others share, values
that callers carry from call to call by hand, proofs that holders keep while the
authority goes on, and objects that outlive all of them; and that one of its
calls awaits a remote log.

| part | state | operations | module |
|---|---|---|---|
| transparency log (`transparency.rs`) | list of entries: authority, epoch, leaf, chain hash | `commit_state`, `proof_for_state`, `store_chain_hash`, `chain_hash_for`, `verify_transparency_proof` | `TransparencyLog`, `SharedLog` |
| Merkle trees (`transparency.rs`, `capability_tree.rs`) | none | root, path, path check | `Merkle` |
| capability tree (`capability_tree.rs`) | leaves in order of issue; sorted revoked stamps | `add_capability`, `revoke_stamp`, inclusion proof, non-revocation witness, their checks | `CapabilityTree` |
| authority operations (`engine.rs`, `authority.rs`) | the tree, the log, certificates, and the `AuthorityState` in the caller's hand | issue, revoke, rotate, each with an `_and_commit` form | `Authority`; promise: `EpochLedger` |
| remote log (`async_transparency.rs`) | requests in flight, the pending call | `revoke_capability_and_commit_async` | `AsyncAuthority` |
| engine (`engine.rs`, `core/temporal.rs`, `kem.rs`) | evidence per epoch; objects and their wrappers | rotate-and-register, seal, open, verify, rewrap, reseal, `_and_commit` forms | `Engine`, `Kem` |
| verifier and threshold signatures (`verify.rs`, `tsig.rs`) | partials collected so far; evidence per authority and epoch | `add`, `tsig_verify`, `add_evidence`, `add_evidence_tsig`, `verify_state` | `Tsig`, `Verifier` |
| delegation and proofs in their holders' hands (`engine.rs`, `model.rs`) | capabilities made so far; published states | `delegate_capability`, `validate_capability`, issue, revoke | `Delegation`, `HeldProof`, `Custody` |
| wire format (`encoding/codec.rs`, `encoding/wire.rs`) | the decoder's cursor and what it has read | encoders and decoders of objects, capabilities and threshold sets; profiles | `Codec`, `Wire` |
| one object through its life (`fuzz_cross_system_lifecycle_stress.rs`, compromise notices of `engine.rs` and `authority.rs`) | log, evidence, object, held proof, owner, notices | rotate, revoke, rewrap, reseal, receive a notice; compromise-aware open and verify | `Lifecycle` |

How the modules fit together:

* `Authority` and `AsyncAuthority` extend `TransparencyLog`. `Authority` is shown
  to implement `EpochLedger`, and `Engine` is built on `EpochLedger`: the object
  side relies only on what the authority side is shown to promise.
* `Verifier` extends `Tsig`: it registers a threshold set as it stands in the
  middle of the round that collects it.
* `Custody` extends `Delegation` and `HeldProof`; `Lifecycle` extends `Engine` and
  `HeldProof`. The `MC*` modules give the constants small values.

## 2. Abstractions

* Hashes are ideal. A hash is a tagged tuple of what was hashed, the zero hash is
  `<<>>`. In `TransparencyLog` and `Authority` a Merkle root is the list (or set)
  it commits to; `Merkle` and `CapabilityTree` have the tree with its paths, and
  `RootsBind` and `InclusionExact` justify the shortcut.
* A signature is the message signed (in `Verifier`, with the key); which fields a
  message covers is kept, because several properties turn on it. A ciphertext opens
  under the key and the associated data it was made with. In `Engine` `T_e` is the
  length of the log it was computed from, which `OneHistory` justifies.
* Generated keys, payload keys and nonces are fresh names.
* Authorities are honest. `Engine` asks for inclusion proofs, witnesses and issuance
  signatures when it needs them: one exists exactly when the verification functions
  accept one. Holders that keep such proofs while the authority goes on are the
  subject of `Custody` and `Lifecycle`, where a proof carries what it was drawn from.
* On the wire an integer of any width is one cell, as a decoder that finds part of
  an integer stops as it does when it finds none. A cell has `Word` values, and
  lengths are truncated to it as `as u32` does.
* The error values of failing calls are not told apart; what a failing call has
  already changed is kept.
* The subject and the version of a capability play no part in the properties and are
  left out, except on the wire. So is the `root_pk` of a state, the caller's trust
  anchor, which neither the log nor any signature covers.

Operators keep the names of the Rust functions. An operator called "mutant" in its
comment is a deliberately wrong variant, used to confirm that the property of a
run can fail; no specification uses it.

## 3. The modules

**TransparencyLog / SharedLog.** `entries` is the log, `commits` every
`TransparencyStateCommit` handed out (a history variable). Actions `commit_state`
(append, or idempotent, or refused: `Accepts`) and `store_chain_hash`. `SharedLog`
lets several authorities and rival callers use one log.

**Merkle / CapabilityTree.** `Level`, `merkle_root`, `merkle_proof_for_index` and
`merkle_root_from_proof` follow the loops of the code, lone-node sentinel included.
The tree's variables are its two lists and the earlier versions of each, against
which proofs kept by recipients are checked.

**Authority.** No call looks up the latest state; each takes `base_state`. `Spec`
is the careful caller: it goes on from the state it last obtained, never lowers the
epoch, and links a rotation to the log's chain hash. `SpecStale` lets every call
use any state that anyone still holds, and any epoch. Calls that change the tree
and are then refused by the log are disjuncts of the same action.

**AsyncAuthority.** `inflight`, `awaiting` and `asked` are added. The call changes
the tree and sends its request; the service applies or refuses it, perhaps late or
twice; the answer may be lost; the future may be dropped. The caller recovers by
building a state from the tree, and asks for no epoch below one it asked for.

**Engine / Kem.** `ledger` is the log as recipients read it, `evidence` the registry
of `CryptoAuthorityVerifier` (with a root key and single signatures), `objects` the
sealed objects. `open_with_verifier` and `verify_with_verifier` change nothing and
are predicates. The `_and_commit` actions commit first and may then fail, keeping
the commit. An object has all the fields of the struct; its version, suite and two
roots are written when it is sealed and read by no operation. `Kem` has the two modes
of the hybrid secret, key pairs that lack a half, and ML-KEM's implicit rejection; both
ciphertexts are associated data of the wrapped key (`authority_aad`). A nonce and the
ciphertext made with it are one field.

**Tsig / Verifier.** `partials` is the set being collected, `entries` the registry.
`verify_state` has all its branches: a root key or none, a single signature or a
threshold set, the certificate's window with saturating addition over `0 .. U64_MAX`,
and the leaf and path of the transparency proof. A state is accepted through three
messages that cover different fields of it; the module keeps them apart.

**Delegation / HeldProof / Custody.** `caps` holds the capabilities made so far,
`states` the published states. A `CapabilityProof` is put together from a path, a
witness and an issuance signature, each drawn from any published state.

**Codec / Wire.** The decoder takes one field per step. A count puts that many copies
of its item in front of the fields still to be read, which is how the nested loops of
`wire.rs` appear. `Jobs` pairs an input with a format and the limits of a profile.

**Lifecycle.** The scenario of the lifecycle harness with its kinds of steps in any
order: rotations, the revocation, rewraps, reseals to another recipient, notices
(genuine or damaged). The holder keeps the one proof drawn at epoch 1.

## 4. Runs

| run | states | shows |
|---|---|---|
| `shared_log` | 101,477 | commits verify for ever, no equivocation, roots nest, fresh proofs, append-only |
| `capability_tree` | 21,190 | proofs and witnesses verify under exactly the versions they are true of; roots bind |
| `authority` | 117,869 | revocations persist, states describe one moment of the tree, hash chain walkable, refinement of `EpochLedger` |
| `async_authority` | 413,104 | lost, late, repeated commits do not undo revocations |
| `engine` | 14,488 | revoked never opens, wrappers coherent, open implies verify, opens survive, one capability opens an object, never before its seal epoch |
| `verifier` | 74,335 | threshold soundness, one accepted state per epoch, the certificate's window, every single change refused |
| `custody` | 117,963 | delegation narrows and is traceable; mixed and ageing proofs; what a revocation stops |
| `wire` | 126,440 | accepted inputs are canonical, decoding is exact within the limits, the decoder stops |
| `lifecycle` | 23,944 | exactly the owner opens, changed objects do not, what a notice takes away and what it leaves |

Bounds, and why they are enough:

* `SharedLog`: 2 authorities, 2 roots, epochs 0..1: a rival, another authority's
  entry before and after, and a log of four entries (two levels of a tree).
* `CapabilityTree`: 4 capabilities and 5 stamps give odd levels at two heights, and
  witnesses below, between and above the stamps.
* `Authority`: 2 capabilities, epochs 0..2, 2 keys: a revocation, a rotation over
  it, and a skipped epoch.
* `AsyncAuthority`: epochs 0..3, since a call dropped at a high epoch can be
  overtaken only by one at a lower epoch after an earlier revocation; 2 symmetric
  capabilities, 2 keys. The VIEW leaves out what no action and no property reads.
* `Engine`: 3 of the epochs 1..4 with one object, so that a wrapper can be rewrapped
  from a rewrapped one and an epoch can be skipped, or 2 with two objects, so that one
  is resealed from the other (`MaxSize` bounds the two together). A capability, revoked
  at epoch 2 or 3 or never, and one delegated from it; two symmetric recipients; the
  certificate has run out at epoch 4; one policy of each kind but Current, which is the
  one of `Lifecycle`.
* `Verifier`: 2 of 3 with 4 partials, so that two full quorums can be in the set;
  states that differ from one another in one field each; `U64_MAX = 7`, with
  certificates that end beyond it, have expired, or begin too late.
* `Custody`: depth limit 2 (255 in the code), 5 capabilities, 5 states: two directly
  issued, and three delegations, so that a chain reaches the limit and meets a refusal
  there, with issues and revocations between its steps.
* `Wire`: cells of 5 values, so that every policy tag and an unknown one occur; every
  input is a valid encoding, cut at every cell, extended, or with any one cell changed.
* `Lifecycle`: 4 epochs, 3 recipients (hybrid, classical, one that lost its ML-KEM
  secret), 2 notices: a rewrap of a rewrap, and a notice before and after it.

`CHECK_DEADLOCK FALSE` in `Custody`, `Lifecycle` and `Wire` only: holders may stop
delegating, a life ends when the bounds are reached, and a decoder that has answered
is done.

### Runs that are expected to fail

Each states a sentence of the repository's documents or tests that the code does not
keep; the quotations are in `PROJECT.json`.

| run | property | what happens |
|---|---|---|
| `reseal_not_needed` | `ResealNotNeeded` | between the seal epoch and `e_after` the seal-epoch wrapper does not open |
| `rewrap_verifies` | `RewrappedVerifies` | a rewrap into an epoch that revoked the capability succeeds, and verification there fails, which the lifecycle harness asserts it does not |
| `first_valid_counts` | `FirstValidCounts` | `tsig_verify` marks a signer as seen before it verifies the partial, so a first partial over another state keeps the signer's later valid one from counting. `OneStatePerSet` holds because of it: a signer speaks for one state of a set. |

Further observations, read off the code while modelling, without a run of their own:

* With stale callers (`SpecStale`) `RevocationPersists` does not hold: a rotation from
  a state older than a revocation publishes a later epoch without it, and rotating to
  an epoch twice overwrites the chain hash of the first commit. What still holds is
  theorem `StaleStates`.
* `issue_capability_and_commit` (`engine.rs:1218`, "atomically") changes the tree
  before it commits; a refused commit leaves the capability in the tree.
* The spec sheet (line 294) says that after `e_after` an open is rejected until the
  object is resealed; in the code a wrapper added by `add_epoch_wrapper` is enough.
* `verify_state` compares a state's epoch with the end of the certificate's window
  only, so it accepts a state before the window; the comment at `verify.rs:298` says
  "the cert covers epochs [cert.epoch, cert.epoch + validity_window)". `CertWindow`
  makes no claim about the epochs before the window. As the end is exclusive and
  saturates, the last epoch of the u64 range is refused under every certificate.
* The spec sheet (line 86) says "Delegation chains of arbitrary depth are permitted";
  `delegate_capability` (`engine.rs:144`) refuses at `MAX_DELEGATION_DEPTH`, as
  `SWDD.md:726` ("cannot exceed the delegation depth bound") has it. `ChainTraceable`
  is about the bound.
* `open_with_compromise_check` is documented (`engine.rs:1264`) to check "the epoch key
  used for sealing", the comment at `engine.rs:1414` calls it so, and Game 5 of the spec
  sheet (line 526) and `SWDD.md:732` ("block affected state opens") are about the epoch
  opened at. The key compared is that of the issuance certificate: a notice for the key
  of the seal epoch or of the epoch opened at takes nothing away if the proof was issued
  under another. `NoticeScope` makes no claim about such notices.
* `SWDD.md:451` has open check the bound authority and revocation roots against the
  state. They are bound through the context hash of the wrapper only:
  `open_with_verifier` does not read `authority_root`, `revocation_root`, `version` or
  `suite` of the object (`model.rs:174`), and opens one in which they were changed.
  `ChangedNeverOpens` is about the other fields.
* In `fuzz_tsig_cert_chain_semantic.rs` the last perturbation (line 255) alters only the
  transparency proof given to `verify_with_verifier`. `open_with_verifier` takes its
  proof from the wrapper and succeeds, so the assertion of line 281 fails for it.
* The embedded profile limits `kem_ct_pq` by `max_wrapped_dek_len`, 512, which is less
  than an ML-KEM-768 ciphertext: hybrid objects do not decode under it.

### Fairness

`Wire` assumes weak fairness of the decoder's step, for `DecoderStops`: the decoder is
a sequential loop that takes its next step whenever it has one. Nowhere else is
fairness assumed or liveness claimed: the rest of the library runs only when called,
and nothing in it retries or schedules.

## 5. Proofs

Checked by TLAPS 1.4.5 (Z3, Zenon, LS4), for all values of the constants. Every
safety invariant and every action property that a run checks is stated by a theorem.

* `TransparencyLog_proofs` has the lemmas about the log's operators: what `Committed`
  and `ChainStored` preserve, and that `LogInv` gives the promises.
* `SharedLog_proofs`: the promises themselves are not inductive, since they relate
  commits to each other and say nothing of the log. `LogInv` ties each commit to the
  prefix of the log it was made from, and leaves an epoch one entry; every promise
  follows from it. Theorems `SharedLogInvariant`, `CommitsVerify`, `CommitsAgree`,
  `RootsNest`, `ProofsFresh`, `LogAppendOnly`.
* `CapabilityTree_proofs`: trees of any size. A level of a Merkle tree determines the
  level below it, because the sentinel tells an odd level from an even one, so equal
  roots have equal leaves (`MerkleRootBinds`, by induction on the height); a path drawn
  from a tree leads to its root; so a proof drawn from an old tree verifies against the
  present root only if the trees have the same leaves. The invariant `TreeInv` adds that
  every list of stamps a recipient remembers is sorted and still revoked, from which the
  neighbours of a stamp are found at adjacent places. Theorems `TreeInvariant`,
  `ListsStayCanonical`, `RootsAlwaysBind`, `InclusionIsExact`, `WitnessIsExact`.
* `Authority_proofs`: `StaleStates` needs no care of the caller. `RevocationPersists`
  is not inductive: a rotation copies the revocations of `current`, so `CarefulInv`
  also places every entry below `current`, in epoch and in content, and together with
  `StatesFromTree` below the tree. Theorems `CarefulOrder`, `RevocationsPersist`, and
  `AuthorityRefinesLedger` (each step is a step of `EpochLedger` or a stutter).
  `ChainStaysIntact` needs that the state the caller goes on from is linked as well
  (`ChainInv`), and `CarefulInv`, by which an epoch is rotated to once.
  For the remote log the entries are no longer in order. `AsyncInv` says that states of
  different epochs, published, on their way or held by the caller, contain each other's
  revocations in the order of their epochs, because every new one has the whole tree and
  the highest epoch asked for; of two for one epoch the log takes one. Theorems
  `LateRequestsAreContained`, `RevocationsPersistAsync`.
* `Engine_proofs`: `EngineInv` says that the ledger is ordered, that each signature of
  the registry is filed under its epoch and is over a published record, and that each
  object is coherent: besides what `WrappersCoherent` says, its proofs point into the
  log and it was sealed within the window of its wrappers' capability. A rewrap checks
  the capability at the source epoch only, which is why revocation and seal epoch have
  to be carried by the invariant. Theorems `EngineInvariant`, `ObjectsStayCoherent`,
  `RevocationIsFinal`, `SealComesFirst`, `OneCapabilityForAll`, `OpenedVerifies`,
  `OpensSurvive`; none needs an assumption about the constants.
  The second half is about `Lifecycle`, for any number of epochs, recipients and
  notices. `LifecycleInv` says what any history leaves: epoch i is record i and is
  registered as committed, the header is that of a seal for the capability, and each
  wrapper is exactly the one made for the present owner at its epoch. Theorems
  `LifecycleInvariant`, `OwnerAloneOpens`, `ChangesNeverOpen`, and `NoticesHaveScope`,
  an action property.
* `Verifier_proofs`: an accepted threshold set has `t` authorized signers (a counting
  argument from indices to keys: `AcceptanceIsSound`), with `2t > n` it accepts one
  state (`MajorityCertifiesOne`), and it stays accepted (`AcceptanceLasts`). Of the
  registry: one state per authority and epoch (`OneStateAccepted`), the window
  (`WindowEnds`), the threshold guarantee for the composition (`RoundIsSound`), and that
  no single change of what was accepted is accepted (`NoChangeAccepted`: with as many
  partials as the threshold each of them counts). The theorems are about the round
  composed with the verifier (`VSpec`); the counting ones also hold of the round alone,
  whose `Spec` the lemmas they rest on are about. The invariant only types the registry:
  uniqueness comes from the fields that the signed message and the leaf cover between
  them.
* `Custody_proofs`: `CustodyInv` adds to the delegation properties that states are
  numbered by their epochs and that their lists grow at the end, so that what lies
  between two equal lists equals them. Theorems `DelegationNarrows`,
  `DelegationTraceable`, `MixedProofsSound`, `SignaturesAge`, `RevocationStopsThere`.
* `Wire_proofs`: one lemma says that a field taken at the cursor, put back, gives the
  cells it was taken from; `ReadsWhatIsWritten` and `AcceptedIsCanonical` follow for
  every input, every list of fields and every limit. `DecodesWhatWasSent` is the other
  direction. `Plan(schema, sent)[k]` is what there is to take once k of the fields sent
  were, counts included; the invariant `DecodeInv` follows the decoder along it: after n
  fields it has their values, the plan's rest, and its cursor behind what the encoder
  wrote for them. A second lemma per kind of field says that a field is taken exactly
  when it is within its limit and whole.

Induction. The library's induction theorems take an operator as a parameter, which the
installed provers cannot instantiate. `CapabilityTree_proofs` and `Wire_proofs` use the
well-foundedness of `<` instead, with a set of numbers in the place of the predicate
(`Least`, `Induction`), and show that the recursive functions of the Merkle code, of the
encoder and of the plan exist before they reason about their steps (`LoopExists`).

Assumptions on constants, all evaluated by TLC in the runs:

* `MaxEpochAssumption` (`SharedLog`); `OrderAssumption` (`CapabilityTree`: stamps are
  numbers); `BoundsAssumption`, `CapabilityAssumption` (`Authority`).
* `KeysAssumption`, `ThresholdAssumption` (`Tsig`); `EpochsAssumption`,
  `PathsAssumption`, `OfferedAssumption`, `RecordsAssumption` (`Verifier`: states, proofs
  and certificates are records with the fields of the code's structs).
* `DepthAssumption`, `EpochAssumption`, `DirectAssumption` (`Delegation`).
* `CapAssumption`, `IdsAssumption`, `RecipientAssumption`, `NoticeAssumption`
  (`Lifecycle`: the capability grants the first seal, which the harness does before
  anything else; the values a change writes into a stored object are not the ones the
  object has; recipients do not share key pairs).
* `WordAssumption`, `MagicAssumption`, `SigAssumption` (`Codec`), `JobsAssumption`,
  `EncodedAssumption`, `SentAssumption` (`Wire`). The last two say what the bytes of a
  job are: an encoding, whole, cut or continued, of fields written for the decoder's
  format (`Describes`), and that `fits` says whether they are within its limits. They are
  evaluated for the objects, capabilities and sets of the run, whose `fits` is computed
  from the values and not from the fields.

Only model-checked: `DecoderStops`, since liveness and ENABLED are outside the provers'
reach. The three runs that are expected to fail have no theorem, of course.

## 6. Hazards

`PROJECT.json` lists, line by line, what is hard to test in this code and which
property would notice. One has no property: `put_bytes` (`codec.rs:18`) truncates the
length of a string of 2^32 bytes or more; the encoders are checked below that bound.

## 7. Not modelled, and why

* The primitives (Ed25519, X25519, ML-KEM, HKDF, ChaCha20-Poly1305, SHA) and the byte
  layout of signed messages and wire integers: ideal here, out of TLC's reach.
* `seal`, `open` and `verify` without a verifier use one with no evidence in production
  builds and always return an error; only their `_with_verifier` forms are modelled.
  `StubAuthorityVerifier`, a test feature, is `verify_transparency_proof` alone.
* The Kani harnesses (`src/src/kani/mod.rs`) are fixtures around single calls and small
  re-implementations over bytes; the functions they are about are modelled from their
  own source. The Coq and EasyCrypt files under `src/proofs` are developments of their
  own about the design; nothing here is taken from them.
* The fuzz targets that drive a scenario are the source of the `Next` of `SharedLog`,
  `Verifier`, `Delegation` and `Lifecycle`, and of the changes in `ChangesRejected` and
  `ChangedNeverOpens`. The others call one function on arbitrary bytes, or repeat such
  a scenario in a fixed order. The wire round trip of the lifecycle harness is not a
  step of `Lifecycle`: by `DecodesExactly` it changes nothing.
* Error values, and the text and order of diagnostics.
