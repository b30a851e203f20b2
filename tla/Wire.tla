-------------------------------- MODULE Wire --------------------------------
(***************************************************************************)
(* The wire formats (encoding/wire.rs): objects, capabilities and          *)
(* threshold signature sets are written field by field and read back by a  *)
(* decoder that checks every length and every count against its limits     *)
(* before it reads on.                                                     *)
(*                                                                         *)
(* The decoder is a machine that takes one field at a time.  It keeps,     *)
(* beside its cursor, the fields still to be read (a count puts that many  *)
(* copies of the item in front), the values read, and what the encoder     *)
(* writes for those values.                                                *)
(***************************************************************************)
EXTENDS Codec, SequencesExt

CONSTANTS
    HASH_LEN, NONCE_LEN, CAP_NONCE_LEN,     \* 32, 12 and 16 bytes
    Jobs        \* what is decoded: see Job

VARIABLES
    job,        \* what the decoder was called with
    cursor,
    todo,       \* fields still to be taken
    got,        \* values taken
    recoded,    \* what the encoder writes for the values taken
    outcome     \* "running", "ok" or "error"

vars == <<job, cursor, todo, got, recoded, outcome>>

------------------------------------------------------------------------------
word == [kind |-> "word"]
bytes(max) == [kind |-> "bytes", max |-> max, text |-> FALSE]
str(max) == [kind |-> "bytes", max |-> max, text |-> TRUE]
fixed(len) == [kind |-> "fixed", len |-> len]
sig == [kind |-> "sig"]
list(max, item) == [kind |-> "list", max |-> max, item |-> item]

(***************************************************************************)
(* The decode profiles, their limits scaled down to cells.  The order of   *)
(* the three is kept, and so is what they say of real fields: a wrapped    *)
(* DEK (one cell for 48 bytes) fits all of them, an ML-KEM ciphertext (two *)
(* cells for 1088 bytes) is over max_wrapped_dek_len in the embedded one.  *)
(***************************************************************************)
embedded_profile ==
    [max_suite_len |-> 1, max_object_id_len |-> 1, max_payload_ciphertext_len |-> 1,
     max_wrappers |-> 1, max_wrapped_dek_len |-> 1, max_transparency_siblings |-> 1]

strict_default ==
    [max_suite_len |-> 1, max_object_id_len |-> 2, max_payload_ciphertext_len |-> 2,
     max_wrappers |-> 2, max_wrapped_dek_len |-> 2, max_transparency_siblings |-> 1]

server_profile ==
    [max_suite_len |-> 2, max_object_id_len |-> 3, max_payload_ciphertext_len |-> 3,
     max_wrappers |-> 3, max_wrapped_dek_len |-> 3, max_transparency_siblings |-> 2]

(* What the profile variable may be set to; anything else, or nothing, *)
(* selects the strict profile.                                         *)
decode_profile_from_env_value(value) ==
    CASE value \in {"embedded", "embed"} -> embedded_profile
      [] value \in {"server", "srv"} -> server_profile
      [] OTHER -> strict_default

(***************************************************************************)
(* The decoders, as the fields they take in order.                         *)
(***************************************************************************)
wrapper_fields(limits) ==
    <<word, fixed(HASH_LEN), bytes(limits.max_wrapped_dek_len), fixed(NONCE_LEN),
      bytes(limits.max_wrapped_dek_len), fixed(HASH_LEN), fixed(HASH_LEN), fixed(HASH_LEN), word,
      list(limits.max_transparency_siblings, <<fixed(HASH_LEN)>>)>>

decode_kyriotes_csk2_object_with_limits(limits) ==
    <<[kind |-> "magic"], word, str(limits.max_suite_len), str(limits.max_object_id_len), word,
      fixed(HASH_LEN), word, [kind |-> "policy"], fixed(HASH_LEN), fixed(HASH_LEN),
      fixed(NONCE_LEN), bytes(limits.max_payload_ciphertext_len),
      list(limits.max_wrappers, wrapper_fields(limits))>>

decode_capability_with_limits(max_subject_len, max_object_id_len) ==
    <<word, str(max_subject_len), str(max_object_id_len), word, fixed(HASH_LEN), word, word, word,
      fixed(HASH_LEN), fixed(CAP_NONCE_LEN)>>

decode_threshold_signature_set_with_max(max_partials) ==
    <<word, list(max_partials, <<word, sig>>)>>

(***************************************************************************)
(* The encoders, as the kinds and values they put in order.                *)
(***************************************************************************)
Encode(fields) == FlattenSeq([k \in DOMAIN fields |-> put(fields[k][1], fields[k][2])])

ValuesOf(fields) == [k \in DOMAIN fields |-> fields[k][2]]

Fixed(hash) == <<"fixed", hash>>

WrapperFields(w) ==
    <<<<"word", w.epoch>>, Fixed(w.kem_ct_classical), <<"bytes", w.kem_ct_pq>>,
      Fixed(w.wrap_nonce), <<"bytes", w.wrapped_dek>>, Fixed(w.context_hash),
      Fixed(w.capability_stamp), Fixed(w.leaf_hash), <<"word", w.leaf_index>>,
      <<"list", Len(w.sibling_hashes)>>>>
    \o [k \in DOMAIN w.sibling_hashes |-> Fixed(w.sibling_hashes[k])]

encode_kyriotes_csk2_object(o) ==
    <<<<"magic", MAGIC>>, <<"word", o.version>>, <<"bytes", o.suite>>, <<"bytes", o.object_id>>,
      <<"word", o.required_rights>>, Fixed(o.policy_hash), <<"word", o.seal_epoch>>,
      <<"policy", o.temporal_policy>>, Fixed(o.authority_root), Fixed(o.revocation_root),
      Fixed(o.payload_nonce), <<"bytes", o.payload_ciphertext>>, <<"list", Len(o.wrappers)>>>>
    \o FlattenSeq([k \in DOMAIN o.wrappers |-> WrapperFields(o.wrappers[k])])

encode_capability(cap) ==
    <<<<"word", cap.version>>, <<"bytes", cap.subject>>, <<"bytes", cap.object_id>>,
      <<"word", cap.rights>>, Fixed(cap.policy_hash), <<"word", cap.epoch_start>>,
      <<"word", cap.epoch_end>>, <<"word", cap.delegation_depth>>, Fixed(cap.parent_stamp),
      Fixed(cap.nonce)>>

encode_threshold_signature_set(set) ==
    <<<<"word", set.threshold>>, <<"list", Len(set.partials)>>>>
    \o FlattenSeq([k \in DOMAIN set.partials |->
            <<<<"word", set.partials[k].signer_index>>, <<"sig", set.partials[k].sig>>>>])

(***************************************************************************)
(* A job: the bytes, the fields the decoder will take, and, to compare the *)
(* result with, the fields they were encoded from, how the bytes were      *)
(* altered since, and whether the encoded value is within the limits.      *)
(***************************************************************************)
Alteration == {"none", "truncated", "extended", "changed", "arbitrary"}

Job(input, schema, sent, altered, fits) ==
    [input |-> input, schema |-> schema, sent |-> sent, altered |-> altered, fits |-> fits]

Repeated(item, n) ==
    [k \in 1 .. n * Len(item) |-> item[((k - 1) % Len(item)) + 1]]

(* What a count adds to the fields to be taken. *)
Items(field, n) == IF field.kind = "list" THEN Repeated(field.item, n) ELSE <<>>

(***************************************************************************)
(* What it means that a list of fields is written for a decoder and is     *)
(* within its limits, field by field.  Plan(schema, sent)[k] is what there *)
(* is still to be taken once the first k of the fields sent were.          *)
(***************************************************************************)
Plan(schema, sent) ==
    LET plan[k \in 0 .. Len(sent)] ==
            IF k = 0
            THEN schema
            ELSE LET rest == plan[k - 1]
                 IN  Items(Head(rest), sent[k][2]) \o Tail(rest)
    IN  plan

IsValue(kind, value) ==
    CASE kind \in {"word", "list"} -> value \in Cell
      [] kind \in {"bytes", "fixed"} -> value \in Seq(Cell) /\ Len(value) \in Cell
      [] kind = "policy" -> /\ value \in [tag : DOMAIN PolicyArgs, args : Seq(Cell)]
                            /\ Len(value.args) = PolicyArgs[value.tag]
      [] kind = "sig" -> value \in Seq(Cell) /\ Len(value) = SIG_LEN
      [] OTHER -> kind = "magic" /\ value = MAGIC

Describes(sent, schema) ==
    LET plan == Plan(schema, sent)
    IN  /\ Len(sent) \in Nat /\ DOMAIN sent = 1 .. Len(sent)
        /\ plan[Len(sent)] = <<>>
        /\ \A k \in DOMAIN sent :
              /\ plan[k - 1] # <<>>
              /\ sent[k][1] = Head(plan[k - 1]).kind
              /\ IsValue(sent[k][1], sent[k][2])

Within(field, value) ==
    CASE field.kind = "list" -> value <= field.max
      [] field.kind = "bytes" -> Len(value) <= field.max /\ (field.text => from_utf8(value))
      [] field.kind = "fixed" -> Len(value) = field.len
      [] OTHER -> TRUE

Fits(sent, schema) ==
    \A k \in DOMAIN sent : Within(Head(Plan(schema, sent)[k - 1]), sent[k][2])

(* How the bytes of a job come from an encoding. *)
Encoded == {j \in Jobs : j.altered \in {"none", "truncated", "extended"}}

ASSUME JobsAssumption == \A j \in Jobs : j.input \in Seq(Cell)

ASSUME EncodedAssumption ==
    \A j \in Encoded :
        /\ j.altered = "none" => j.input = Encode(j.sent)
        /\ j.altered = "truncated" => IsStrictPrefix(j.input, Encode(j.sent))
        /\ j.altered = "extended" => IsStrictPrefix(Encode(j.sent), j.input)

ASSUME SentAssumption ==
    \A j \in Encoded : Describes(j.sent, j.schema) /\ (j.fits <=> Fits(j.sent, j.schema))

------------------------------------------------------------------------------
Init ==
    /\ job \in Jobs
    /\ cursor = 0
    /\ todo = job.schema
    /\ got = <<>>
    /\ recoded = <<>>
    /\ outcome = "running"

Field == Head(todo)

(* Mutant of TakeField: the cursor is moved past the next cell, too. *)
TakeFieldAndOne ==
    /\ outcome = "running"
    /\ todo # <<>>
    /\ Takes(Field, job.input, cursor)
    /\ LET value == Value(Field, job.input, cursor)
       IN  /\ cursor' = cursor + Size(Field, job.input, cursor) + 1
           /\ got' = Append(got, value)
           /\ recoded' = recoded \o put(Field.kind, value)
           /\ todo' = Items(Field, value) \o Tail(todo)
    /\ UNCHANGED <<job, outcome>>

TakeField ==
    /\ outcome = "running"
    /\ todo # <<>>
    /\ Takes(Field, job.input, cursor)
    /\ LET value == Value(Field, job.input, cursor)
       IN  /\ cursor' = cursor + Size(Field, job.input, cursor)
           /\ got' = Append(got, value)
           /\ recoded' = recoded \o put(Field.kind, value)
           /\ todo' = Items(Field, value) \o Tail(todo)
    /\ UNCHANGED <<job, outcome>>

Refuse ==
    /\ outcome = "running"
    /\ todo # <<>>
    /\ ~Takes(Field, job.input, cursor)
    /\ outcome' = "error"
    /\ UNCHANGED <<job, cursor, todo, got, recoded>>

(* Mutant of Finish: what follows the last field is ignored. *)
FinishAnywhere ==
    /\ outcome = "running"
    /\ todo = <<>>
    /\ outcome' = "ok"
    /\ UNCHANGED <<job, cursor, todo, got, recoded>>

(* Mutant of Finish: the decoder waits for the input to end. *)
FinishAtEnd ==
    /\ outcome = "running"
    /\ todo = <<>>
    /\ cursor = Len(job.input)
    /\ outcome' = "ok"
    /\ UNCHANGED <<job, cursor, todo, got, recoded>>

Finish ==
    /\ outcome = "running"
    /\ todo = <<>>
    /\ outcome' = IF cursor = Len(job.input) THEN "ok" ELSE "error"
    /\ UNCHANGED <<job, cursor, todo, got, recoded>>

Next == TakeField \/ Refuse \/ Finish

(* The decoder runs in its caller's thread and nothing makes it wait. *)
Spec == Init /\ [][Next]_vars /\ WF_vars(Next)

------------------------------------------------------------------------------
(***************************************************************************)
(* The cursor never leaves the input, and what has been read is at every   *)
(* step exactly what the encoder would have written for it.                *)
(***************************************************************************)
RecodesPrefix ==
    /\ cursor \in 0 .. Len(job.input)
    /\ recoded = SubSeq(job.input, 1, cursor)

(***************************************************************************)
(* Accepted bytes are canonical: encoding what was decoded gives the same  *)
(* bytes, whatever the input ("accepted object bytes must be canonical",   *)
(* fuzz/fuzz_targets/fuzz_canonical_codecs.rs).                            *)
(***************************************************************************)
Canonical == outcome = "ok" => recoded = job.input

(***************************************************************************)
(* Under every profile the encoding of a value is accepted exactly when    *)
(* the value is within the limits, and then decodes to that value; a       *)
(* proper prefix of it and anything longer are refused, wherever the cut   *)
(* falls.                                                                  *)
(***************************************************************************)
DecodesExactly ==
    outcome # "running" =>
        /\ job.altered = "none" =>
              /\ outcome = "ok" <=> job.fits
              /\ outcome = "ok" => got = ValuesOf(job.sent)
        /\ job.altered \in {"truncated", "extended"} => outcome = "error"

(***************************************************************************)
(* Every call returns, whatever the counts in the input claim, and after   *)
(* no more steps than the input has cells.                                 *)
(***************************************************************************)
DecoderStops == <>(outcome # "running" /\ Len(got) <= Len(job.input))
==============================================================================
