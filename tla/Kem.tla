--------------------------------- MODULE Kem ---------------------------------
(***************************************************************************)
(* The hybrid key encapsulation (kem.rs).  A recipient key pair is a       *)
(* record: key names its X25519 pair, pq_public says that its public half  *)
(* carries an ML-KEM key and pq_secret that its secret half does.  A       *)
(* shared secret is named by the keys it comes from; the fresh randomness  *)
(* of an encapsulation is left out, as nothing compares two of them.       *)
(***************************************************************************)

EphemeralKey == <<"ephemeral">>     \* the fresh X25519 public key, kem_ct_classical
NoCiphertext == <<>>    \* the empty kem_ct_pq of a classical wrapper
ZeroSecret == <<>>      \* [0u8; 32] where there is no ML-KEM secret

generate(key) == [key |-> key, pq_public |-> TRUE, pq_secret |-> TRUE]

(* "None for classical-only recipients": the ML-KEM half is dropped. *)
classical_only(pair) == [pair EXCEPT !.pq_public = FALSE, !.pq_secret = FALSE]

kem_encaps(pk) ==
    [ct_classical |-> EphemeralKey,
     ss_classical |-> <<"x25519", EphemeralKey, pk.key>>,
     ct_pq |-> IF pk.pq_public THEN <<"ml-kem", pk.key>> ELSE NoCiphertext,
     ss_pq |-> IF pk.pq_public THEN <<"shared", pk.key>> ELSE ZeroSecret]

(* Another ephemeral key, or another key's ciphertext, yields an unrelated *)
(* secret: X25519 always computes one, and ML-KEM rejects implicitly.      *)
kem_decaps(sk, ct_classical, ct_pq) ==
    [ss_classical |-> <<"x25519", ct_classical, sk.key>>,
     ss_pq |-> CASE ~sk.pq_secret \/ ct_pq = NoCiphertext -> ZeroSecret
                 [] sk.pq_secret /\ ct_pq = <<"ml-kem", sk.key>> -> <<"shared", sk.key>>
                 [] OTHER -> <<"rejected", sk.key, ct_pq>>]

(* Mutant of hybrid_secret: the ML-KEM secret is not mixed in. *)
ClassicalOnly(ss_c, ct_pq, ss_pq) == <<"classical", ss_c>>

(* The two modes hash under different labels; which one is used depends on *)
(* whether the wrapper has an ML-KEM ciphertext.                           *)
hybrid_secret(ss_c, ct_pq, ss_pq) ==
    IF ct_pq # NoCiphertext
    THEN <<"hybrid", ss_c, ss_pq>>
    ELSE <<"classical", ss_c>>
===============================================================================
