-------------------------------- MODULE Codec --------------------------------
(***************************************************************************)
(* The field codec (encoding/codec.rs).  A byte string is a sequence of    *)
(* cells; an integer, whatever its width, is one cell, and so is a byte,   *)
(* because a reader that finds part of an integer stops as it does when it *)
(* finds none of it.  Word is the number of values of a cell and stands    *)
(* for 2^32 where a length is written: the length of a longer string is    *)
(* truncated by put_bytes, as "bytes.len() as u32" does.                   *)
(*                                                                         *)
(* A field is a record: kind says which pair of put and take functions it  *)
(* is for ("magic" and "sig" are written raw, without a length); max, len, *)
(* item and text are their parameters.                                     *)
(***************************************************************************)
EXTENDS Integers, Sequences

CONSTANTS
    Word,       \* number of values of an integer
    MAGIC,      \* the object format's magic
    SIG_LEN     \* cells of a raw signature (64 bytes)

ASSUME WordAssumption == Word \in Nat /\ Word > 4

ASSUME MagicAssumption == MAGIC \in Seq(0 .. Word - 1)

ASSUME SigAssumption == SIG_LEN \in Nat

Cell == 0 .. Word - 1

------------------------------------------------------------------------------
(* Writers. *)
put_u32(n) == <<n % Word>>

put_bytes(bytes) == put_u32(Len(bytes)) \o bytes

(* A policy is its tag and its arguments. *)
PolicyArgs == [tag \in 1 .. 4 |-> CASE tag = 1 -> 1 [] tag = 2 -> 0 [] tag = 3 -> 2 [] tag = 4 -> 1]

put_temporal_policy(policy) == <<policy.tag>> \o policy.args

put(kind, value) ==
    CASE kind \in {"word", "list"} -> put_u32(value)
      [] kind \in {"bytes", "fixed"} -> put_bytes(value)
      [] kind = "policy" -> put_temporal_policy(value)
      [] OTHER -> value

------------------------------------------------------------------------------
(***************************************************************************)
(* Readers: whether a field can be taken at cursor, how many cells it      *)
(* takes, and what it is.                                                  *)
(***************************************************************************)
Left(input, cursor) == Len(input) - cursor

Here(input, cursor) == input[cursor + 1]

CellsFrom(input, cursor, n) == SubSeq(input, cursor + 1, cursor + n)

(* String::from_utf8: cell Word - 1 stands for what is not UTF-8. *)
from_utf8(bytes) == \A k \in DOMAIN bytes : bytes[k] # Word - 1

(* Mutant of take_bytes_limited: the limit itself is refused. *)
TakesBytesBelow(input, cursor, max) ==
    /\ Left(input, cursor) >= 1
    /\ Here(input, cursor) < max
    /\ Left(input, cursor) - 1 >= Here(input, cursor)

take_bytes_limited(input, cursor, max) ==
    /\ Left(input, cursor) >= 1
    /\ Here(input, cursor) <= max
    /\ Left(input, cursor) - 1 >= Here(input, cursor)

take_str_limited(input, cursor, max) ==
    /\ take_bytes_limited(input, cursor, max)
    /\ from_utf8(CellsFrom(input, cursor + 1, Here(input, cursor)))

take_fixed_limited(input, cursor, len) ==
    /\ take_bytes_limited(input, cursor, len)
    /\ Here(input, cursor) = len

take_temporal_policy(input, cursor) ==
    /\ Left(input, cursor) >= 1
    /\ Here(input, cursor) \in DOMAIN PolicyArgs
    /\ Left(input, cursor) - 1 >= PolicyArgs[Here(input, cursor)]

Takes(field, input, cursor) ==
    CASE field.kind = "word" -> Left(input, cursor) >= 1
      [] field.kind = "list" -> Left(input, cursor) >= 1 /\ Here(input, cursor) <= field.max
      [] field.kind = "bytes" ->
            IF field.text
            THEN take_str_limited(input, cursor, field.max)
            ELSE take_bytes_limited(input, cursor, field.max)
      [] field.kind = "fixed" -> take_fixed_limited(input, cursor, field.len)
      [] field.kind = "policy" -> take_temporal_policy(input, cursor)
      [] field.kind = "sig" -> Left(input, cursor) >= SIG_LEN
      [] OTHER -> Left(input, cursor) >= Len(MAGIC)
                  /\ CellsFrom(input, cursor, Len(MAGIC)) = MAGIC

Size(field, input, cursor) ==
    CASE field.kind \in {"word", "list"} -> 1
      [] field.kind \in {"bytes", "fixed"} -> 1 + Here(input, cursor)
      [] field.kind = "policy" -> 1 + PolicyArgs[Here(input, cursor)]
      [] field.kind = "sig" -> SIG_LEN
      [] OTHER -> Len(MAGIC)

Value(field, input, cursor) ==
    CASE field.kind \in {"word", "list"} -> Here(input, cursor)
      [] field.kind \in {"bytes", "fixed"} ->
            CellsFrom(input, cursor + 1, Here(input, cursor))
      [] field.kind = "policy" ->
            [tag |-> Here(input, cursor),
             args |-> CellsFrom(input, cursor + 1, PolicyArgs[Here(input, cursor)])]
      [] field.kind = "sig" -> CellsFrom(input, cursor, SIG_LEN)
      [] OTHER -> MAGIC
===============================================================================
