----------------------------- MODULE Wire_proofs -----------------------------
(***************************************************************************)
(* Proofs about the decoder, for every input, every list of fields and     *)
(* every limit: what it accepts is canonical, and an encoding decodes to   *)
(* what was encoded, or not at all.                                        *)
(*                                                                         *)
(* For the first, the invariant is that the cells read so far are what the *)
(* encoder writes for the values read so far.  One lemma says so of a      *)
(* single field: if the field can be taken at the cursor, then it ends     *)
(* within the input and putting its value back gives the cells it was      *)
(* taken from.                                                             *)
(*                                                                         *)
(* For the second, the decoder is followed along the fields that were      *)
(* encoded: after n of them it has their values, its cursor is behind what *)
(* the encoder wrote for them, and what it still has to take is what the   *)
(* format and the counts read so far leave.                                *)
(***************************************************************************)
EXTENDS Wire, SequenceTheorems, WellFoundedInduction, TLAPS

(* A length that fits an integer is written unchanged by put_u32. *)
LEMMA SmallWord ==
    ASSUME NEW n \in Cell
    PROVE  n % Word = n
BY WordAssumption DEF Cell

(* A length or a tag, put in front of the cells that follow it in the input, *)
(* gives the cells of the whole field.                                       *)
LEMMA PrefixedCells ==
    ASSUME NEW input \in Seq(Cell), NEW c \in 0 .. Len(input), NEW n \in Nat,
           c + (1 + n) <= Len(input)
    PROVE  <<input[c + 1]>> \o SubSeq(input, c + 2, c + (1 + n))
               = SubSeq(input, c + 1, c + (1 + n))
<1>1. c + 1 \in 1 .. Len(input) /\ c + (1 + n) \in (c + 1) .. Len(input)
  OBVIOUS
<1>2. (c + 1) + 1 = c + 2
  OBVIOUS
<1> QED BY <1>1, <1>2, SubSeqRecursiveFirst

(* The cells a field's bytes are taken from: as many as asked for. *)
LEMMA CellsLength ==
    ASSUME NEW input \in Seq(Cell), NEW c \in Nat, NEW n \in Nat, c + n <= Len(input)
    PROVE  /\ SubSeq(input, c + 1, c + n) \in Seq(Cell)
           /\ Len(SubSeq(input, c + 1, c + n)) = n
<1>1. \A i \in (c + 1) .. (c + n) : input[i] \in Cell
  BY ElementOfSeq
<1> QED BY <1>1, SubSeqProperties

(* take_bytes_limited followed by put_bytes gives back the cells taken. *)
LEMMA BytesRecode ==
    ASSUME NEW input \in Seq(Cell), NEW c \in 0 .. Len(input),
           Left(input, c) >= 1, Left(input, c) - 1 >= Here(input, c)
    PROVE  /\ Here(input, c) \in Nat
           /\ c + (1 + Here(input, c)) <= Len(input)
           /\ put_bytes(CellsFrom(input, c + 1, Here(input, c)))
                  = SubSeq(input, c + 1, c + (1 + Here(input, c)))
<1> DEFINE n == Here(input, c)
<1>1. n \in Cell /\ n \in Nat
  BY ElementOfSeq, WordAssumption DEF Here, Cell, Left
<1>2. c + (1 + n) <= Len(input)
  BY <1>1 DEF Left
<1>3. Len(CellsFrom(input, c + 1, n)) = n
  BY <1>1, <1>2, CellsLength DEF CellsFrom
<1>4. put_bytes(CellsFrom(input, c + 1, n)) = <<n>> \o CellsFrom(input, c + 1, n)
  BY <1>1, <1>3, SmallWord DEF put_bytes, put_u32
<1>5. CellsFrom(input, c + 1, n) = SubSeq(input, c + 2, c + (1 + n))
  BY <1>1 DEF CellsFrom
<1> QED BY <1>1, <1>2, <1>4, <1>5, PrefixedCells DEF Here

(* take_temporal_policy followed by put_temporal_policy, likewise. *)
LEMMA PolicyRecode ==
    ASSUME NEW input \in Seq(Cell), NEW c \in 0 .. Len(input),
           take_temporal_policy(input, c)
    PROVE  LET n == PolicyArgs[Here(input, c)]
           IN  /\ n \in Nat
               /\ c + (1 + n) <= Len(input)
               /\ put_temporal_policy([tag |-> Here(input, c),
                                       args |-> CellsFrom(input, c + 1, n)])
                      = SubSeq(input, c + 1, c + (1 + n))
<1> DEFINE n == PolicyArgs[Here(input, c)]
<1>1. n \in Nat
  BY DEF take_temporal_policy, PolicyArgs
<1>2. c + (1 + n) <= Len(input)
  BY <1>1 DEF take_temporal_policy, Left
<1> HIDE DEF n
<1>3. CellsFrom(input, c + 1, n) = SubSeq(input, c + 2, c + (1 + n))
  <2>1. (c + 1) + 1 = c + 2 /\ (c + 1) + n = c + (1 + n)
    BY <1>1
  <2> QED BY <2>1, Zenon DEF CellsFrom
<1> QED BY <1>1, <1>2, <1>3, PrefixedCells DEF put_temporal_policy, Here, n

(***************************************************************************)
(* One field: taken within the input, and put back as it was.              *)
(***************************************************************************)
LEMMA FieldRecodes ==
    ASSUME NEW input \in Seq(Cell), NEW c \in 0 .. Len(input), NEW field,
           Takes(field, input, c)
    PROVE  /\ Size(field, input, c) \in Nat
           /\ c + Size(field, input, c) <= Len(input)
           /\ put(field.kind, Value(field, input, c))
                  = SubSeq(input, c + 1, c + Size(field, input, c))
<1>1. CASE field.kind \in {"word", "list"}
  <2>1. Left(input, c) >= 1
    BY <1>1 DEF Takes
  <2>2. Size(field, input, c) = 1 /\ Value(field, input, c) = Here(input, c)
    BY <1>1 DEF Size, Value
  <2>3. Here(input, c) \in Cell /\ c + 1 <= Len(input)
    BY <2>1, ElementOfSeq DEF Left, Here
  <2>4. put(field.kind, Value(field, input, c)) = <<input[c + 1]>>
    BY <1>1, <2>2, <2>3, SmallWord DEF put, put_u32, Here
  <2>5. SubSeq(input, c + 1, c + 1) = <<input[c + 1]>>
    <3>1. c + (1 + 0) = c + 1 /\ c + 1 \in Int /\ c + 2 \in Int /\ c + 1 < c + 2
      OBVIOUS
    <3>2. SubSeq(input, c + 2, c + 1) = <<>>
      BY <3>1, SubSeqEmpty
    <3>3. <<input[c + 1]>> \o <<>> = <<input[c + 1]>>
      BY <2>3, ConcatEmptySeq DEF Here
    <3>4. <<input[c + 1]>> \o SubSeq(input, c + 2, c + (1 + 0)) = SubSeq(input, c + 1, c + (1 + 0))
      BY <2>3, PrefixedCells
    <3> QED BY <3>1, <3>2, <3>3, <3>4, Zenon
  <2> QED BY <2>2, <2>3, <2>4, <2>5
<1>2. CASE field.kind \in {"bytes", "fixed"}
  <2>1. Left(input, c) >= 1 /\ Left(input, c) - 1 >= Here(input, c)
    BY <1>2 DEF Takes, take_str_limited, take_fixed_limited, take_bytes_limited
  <2>2. /\ Size(field, input, c) = 1 + Here(input, c)
        /\ Value(field, input, c) = CellsFrom(input, c + 1, Here(input, c))
    BY <1>2 DEF Size, Value
  <2>3. put(field.kind, Value(field, input, c)) = put_bytes(Value(field, input, c))
    BY <1>2 DEF put
  <2>4. /\ Here(input, c) \in Nat
        /\ c + (1 + Here(input, c)) <= Len(input)
        /\ put_bytes(CellsFrom(input, c + 1, Here(input, c)))
              = SubSeq(input, c + 1, c + (1 + Here(input, c)))
    BY <2>1, BytesRecode
  <2>5. 1 + Here(input, c) \in Nat
    BY <2>4
  <2> QED BY <2>2, <2>3, <2>4, <2>5, Zenon
<1>3. CASE field.kind = "policy"
  <2>1. take_temporal_policy(input, c)
    BY <1>3 DEF Takes
  <2> DEFINE n == PolicyArgs[Here(input, c)]
  <2>2. /\ Size(field, input, c) = 1 + n
        /\ Value(field, input, c)
              = [tag |-> Here(input, c), args |-> CellsFrom(input, c + 1, n)]
    BY <1>3 DEF Size, Value
  <2>3. put(field.kind, Value(field, input, c)) = put_temporal_policy(Value(field, input, c))
    BY <1>3 DEF put
  <2>4. /\ n \in Nat
        /\ c + (1 + n) <= Len(input)
        /\ put_temporal_policy([tag |-> Here(input, c), args |-> CellsFrom(input, c + 1, n)])
              = SubSeq(input, c + 1, c + (1 + n))
    BY <2>1, PolicyRecode, Zenon
  <2>5. 1 + n \in Nat
    BY <2>4
  <2> QED BY <2>2, <2>3, <2>4, <2>5, Zenon
<1>4. CASE field.kind = "sig"
  <2>1. Left(input, c) >= SIG_LEN
    BY <1>4 DEF Takes
  <2>2. Size(field, input, c) = SIG_LEN /\ Value(field, input, c) = CellsFrom(input, c, SIG_LEN)
    BY <1>4 DEF Size, Value
  <2>3. put(field.kind, Value(field, input, c)) = Value(field, input, c)
    BY <1>4 DEF put
  <2> QED BY <2>1, <2>2, <2>3, SigAssumption DEF Left, CellsFrom
<1>5. CASE field.kind \notin {"word", "list", "bytes", "fixed", "policy", "sig"}
  <2>1. Left(input, c) >= Len(MAGIC) /\ CellsFrom(input, c, Len(MAGIC)) = MAGIC
    BY <1>5 DEF Takes
  <2>2. Size(field, input, c) = Len(MAGIC) /\ Value(field, input, c) = MAGIC
    BY <1>5 DEF Size, Value
  <2>3. put(field.kind, Value(field, input, c)) = MAGIC
    BY <1>5, <2>2 DEF put
  <2>4. Len(MAGIC) \in Nat
    BY MagicAssumption
  <2> QED BY <2>1, <2>2, <2>3, <2>4 DEF Left, CellsFrom
<1> QED BY <1>1, <1>2, <1>3, <1>4, <1>5

------------------------------------------------------------------------------
(* The inductive invariant: only a decoder at the end of its input accepts. *)
WireInv ==
    /\ job \in Jobs
    /\ RecodesPrefix
    /\ outcome = "ok" => cursor = Len(job.input)

(* Every step keeps what was read equal to what the encoder writes. *)
LEMMA WireInvStep == WireInv /\ [Next]_vars => WireInv'
<1> SUFFICES ASSUME WireInv, [Next]_vars
             PROVE  WireInv'
  OBVIOUS
<1>1. job.input \in Seq(Cell) /\ cursor \in 0 .. Len(job.input)
  BY JobsAssumption DEF WireInv, RecodesPrefix
<1>2. CASE TakeField
  <2> DEFINE n == Size(Field, job.input, cursor)
  <2>1. /\ n \in Nat
        /\ cursor + n <= Len(job.input)
        /\ put(Field.kind, Value(Field, job.input, cursor))
              = SubSeq(job.input, cursor + 1, cursor + n)
    BY <1>1, <1>2, FieldRecodes, Zenon DEF TakeField
  <2>2. /\ cursor' = cursor + n
        /\ recoded' = recoded \o put(Field.kind, Value(Field, job.input, cursor))
        /\ job' = job /\ outcome' = outcome /\ outcome = "running"
    BY <1>2 DEF TakeField
  <2>3. recoded = SubSeq(job.input, 1, cursor)
    BY DEF WireInv, RecodesPrefix
  <2> HIDE DEF n
  <2>4. SubSeq(job.input, 1, cursor) \o SubSeq(job.input, cursor + 1, cursor + n)
           = SubSeq(job.input, 1, cursor + n)
    <3>1. /\ 1 \in 1 .. Len(job.input) + 1
          /\ cursor \in 1 - 1 .. Len(job.input)
          /\ cursor + n \in cursor .. Len(job.input)
      BY <1>1, <2>1
    <3> QED BY <1>1, <3>1, ConcatAdjacentSubSeq, Zenon
  <2>5. recoded' = SubSeq(job.input, 1, cursor + n)
    BY <2>1, <2>2, <2>3, <2>4, Zenon
  <2>6. job.input = job'.input /\ cursor' \in 0 .. Len(job.input)
    BY <1>1, <2>1, <2>2
  <2> QED BY <2>2, <2>5, <2>6 DEF WireInv, RecodesPrefix
<1>3. CASE Refuse
  BY <1>3 DEF Refuse, WireInv, RecodesPrefix
<1>4. CASE Finish
  BY <1>4 DEF Finish, WireInv, RecodesPrefix
<1>5. CASE UNCHANGED vars
  BY <1>5 DEF vars, WireInv, RecodesPrefix
<1> QED BY <1>2, <1>3, <1>4, <1>5 DEF Next

(* Before the first field nothing was read and nothing recoded. *)
LEMMA WireInvInit == Init => WireInv
<1> SUFFICES ASSUME Init PROVE WireInv
  OBVIOUS
<1>1. job.input \in Seq(Cell)
  BY JobsAssumption DEF Init
<1>2. SubSeq(job.input, 1, 0) = <<>>
  BY SubSeqEmpty
<1> QED BY <1>1, <1>2 DEF Init, WireInv, RecodesPrefix

(* So the invariant holds throughout. *)
LEMMA WireInvariant == Spec => []WireInv
BY WireInvInit, WireInvStep, PTL DEF Spec

(***************************************************************************)
(* The decoders never read outside their input, and what they have read is *)
(* what the encoders write, whatever bytes they are given.                 *)
(***************************************************************************)
THEOREM ReadsWhatIsWritten == Spec => []RecodesPrefix
<1>1. WireInv => RecodesPrefix
  BY DEF WireInv
<1> QED BY <1>1, WireInvariant, PTL

(***************************************************************************)
(* Accepted bytes are canonical: no two byte strings decode to the same    *)
(* object, capability or signature set, under whatever limits.             *)
(***************************************************************************)
THEOREM AcceptedIsCanonical == Spec => []Canonical
<1>1. WireInv => Canonical
  <2> SUFFICES ASSUME WireInv, outcome = "ok" PROVE recoded = job.input
    BY DEF Canonical
  <2>1. job.input \in Seq(Cell)
    BY JobsAssumption DEF WireInv
  <2>2. recoded = SubSeq(job.input, 1, Len(job.input))
    BY DEF WireInv, RecodesPrefix
  <2> QED BY <2>1, <2>2, SubSeqFull
<1> QED BY <1>1, WireInvariant, PTL
------------------------------------------------------------------------------
(***************************************************************************)
(* Induction over the naturals, from the library's fact that < is          *)
(* well-founded on them: a set stands for the predicate.                   *)
(***************************************************************************)
(* The order of the naturals, as a relation. *)
LessNat == {p \in Nat \X Nat : p[1] < p[2]}

(* No sequence of naturals goes down for ever. *)
LEMMA LessNatWellFounded == IsWellFoundedOn(LessNat, Nat)
  BY NatLessThanWellFounded, Zenon DEF OpToRel, LessNat

(* A pair that is not in LessNat is in order. *)
LEMMA NotLess ==
    ASSUME NEW x \in Nat, NEW y \in Nat, <<y, x>> \notin LessNat
    PROVE  x <= y
  BY DEF LessNat

(* A set of naturals that has a member has a least one. *)
LEMMA Least ==
    ASSUME NEW T, T \subseteq Nat, T # {}
    PROVE  \E x \in T : \A y \in T : x <= y
<1>1. \E x \in T : \A y \in T : ~ (<<y, x>> \in LessNat)
  BY LessNatWellFounded, WFMin, Zenon
<1> QED
  BY <1>1, NotLess, Zenon

(* A set of naturals with 0 and every successor has all of them. *)
LEMMA Induction ==
    ASSUME NEW T, T \subseteq Nat, 0 \in T, \A n \in T : n + 1 \in T
    PROVE  T = Nat
<1> SUFFICES ASSUME Nat \ T # {}
             PROVE  FALSE
  BY Zenon
<1>1. PICK x \in Nat \ T : \A y \in Nat \ T : x <= y
  <2>1. Nat \ T \subseteq Nat
    BY Zenon
  <2> QED
    BY <2>1, Least, Zenon
<1>2. x # 0
  BY <1>1, Zenon
<1>3. x - 1 \in Nat /\ x = (x - 1) + 1 /\ ~(x <= x - 1)
  BY <1>1, <1>2, SMT
<1>4. x - 1 \in T
  BY <1>1, <1>3, Zenon
<1> QED
  BY <1>1, <1>3, <1>4, Zenon

------------------------------------------------------------------------------
(***************************************************************************)
(* Two recursive functions are read below: what is left of a plan after    *)
(* each field, and what the encoder has written after each field.  That    *)
(* they exist is one argument.                                             *)
(***************************************************************************)
Turn(loop, k, x) ==
    IF loop[1] = "plan"
    THEN LET rest == x IN Items(Head(rest), loop[2][k][2]) \o Tail(rest)
    ELSE x \o loop[2][k]

IsLoop(loop, start, f, n) ==
    f = [k \in 0 .. n |-> IF k = 0 THEN start ELSE Turn(loop, k, f[k - 1])]

(* Any number of turns can be taken. *)
LEMMA LoopExists ==
    ASSUME NEW loop, NEW start, NEW n \in Nat
    PROVE  \E f : IsLoop(loop, start, f, n)
<1> DEFINE T == {m \in Nat : \E f : IsLoop(loop, start, f, m)}
<1>1. 0 \in T
  <2> DEFINE f == [k \in 0 .. 0 |-> start]
  <2>1. \A k \in 0 .. 0 : k = 0
    OBVIOUS
  <2>2. f = [k \in 0 .. 0 |-> IF k = 0 THEN start ELSE Turn(loop, k, f[k - 1])]
    BY <2>1
  <2> HIDE DEF f
  <2>3. IsLoop(loop, start, f, 0)
    BY <2>2, Zenon DEF IsLoop
  <2> QED
    BY <2>3
<1>2. ASSUME NEW m \in T
      PROVE  m + 1 \in T
  <2>1. PICK f : IsLoop(loop, start, f, m)
    BY <1>2
  <2>2. m \in Nat
    BY <1>2
  <2> DEFINE g == [k \in 0 .. m + 1 |-> IF k = 0 THEN start ELSE Turn(loop, k, f[k - 1])]
  <2>3. \A k \in 0 .. m : f[k] = IF k = 0 THEN start ELSE Turn(loop, k, f[k - 1])
    BY <2>1, Zenon DEF IsLoop
  <2>4. \A k \in 0 .. m : k \in 0 .. m + 1
    BY <2>2
  <2>5. \A k \in 0 .. m : g[k] = f[k]
    BY <2>3, <2>4, Zenon
  <2>6. \A k \in 0 .. m + 1 : k # 0 => k - 1 \in 0 .. m
    BY <2>2
  <2>7. \A k \in 0 .. m + 1 : k # 0 => g[k - 1] = f[k - 1]
    BY <2>5, <2>6, Zenon
  <2>8. g = [k \in 0 .. m + 1 |-> IF k = 0 THEN start ELSE Turn(loop, k, g[k - 1])]
    BY <2>7, Zenon
  <2> HIDE DEF g
  <2>9. IsLoop(loop, start, g, m + 1)
    BY <2>8, Zenon DEF IsLoop
  <2> QED
    BY <2>2, <2>9
<1> HIDE DEF T
<1>3. T = Nat
  <2>1. T \subseteq Nat
    BY DEF T
  <2> QED
    BY <1>1, <1>2, <2>1, Induction, Zenon
<1> QED
  BY <1>3, Zenon DEF T

(* The plan, turn by turn. *)
Planned(plan, schema, sent) ==
    /\ plan[0] = schema
    /\ \A k \in 1 .. Len(sent) :
          plan[k] = Items(Head(plan[k - 1]), sent[k][2]) \o Tail(plan[k - 1])

(* That is what the plan of a list of fields does. *)
LEMMA PlanSteps ==
    ASSUME NEW schema, NEW sent, Len(sent) \in Nat
    PROVE  Planned(Plan(schema, sent), schema, sent)
<1> DEFINE n == Len(sent)
           Is(f) == f = [k \in 0 .. n |->
                            IF k = 0
                            THEN schema
                            ELSE LET rest == f[k - 1]
                                 IN  Items(Head(rest), sent[k][2]) \o Tail(rest)]
           G == CHOOSE f : Is(f)
<1>1. \E f : Is(f)
  <2> DEFINE loop == <<"plan", sent>>
  <2>1. PICK f : IsLoop(loop, schema, f, n)
    BY LoopExists, Zenon
  <2>2. loop[1] = "plan" /\ loop[2] = sent
    OBVIOUS
  <2> HIDE DEF loop
  <2>3. \A k, x : Turn(loop, k, x) = Items(Head(x), sent[k][2]) \o Tail(x)
    BY <2>2, Zenon DEF Turn
  <2>4. f = [k \in 0 .. n |->
                IF k = 0 THEN schema ELSE Items(Head(f[k - 1]), sent[k][2]) \o Tail(f[k - 1])]
    BY <2>1, <2>3, Zenon DEF IsLoop
  <2> QED
    BY <2>4, Zenon
<1>2. Is(G)
  BY <1>1, Zenon
<1>3. Plan(schema, sent) = G
  BY Zenon DEF Plan
<1> HIDE DEF G
<1>4. \A k \in 0 .. n : G[k] = IF k = 0 THEN schema
                                ELSE Items(Head(G[k - 1]), sent[k][2]) \o Tail(G[k - 1])
  BY <1>2, Zenon
<1>5. 0 \in 0 .. n /\ \A k \in 1 .. n : k \in 0 .. n /\ k # 0
  OBVIOUS
<1> QED
  BY <1>3, <1>4, <1>5, Zenon DEF Planned

------------------------------------------------------------------------------
(***************************************************************************)
(* What the encoder has written after each field.                          *)
(***************************************************************************)
Puts(sent) == [k \in DOMAIN sent |-> put(sent[k][1], sent[k][2])]

Spells(g, sent) ==
    /\ g[0] = <<>>
    /\ \A k \in 1 .. Len(sent) : g[k] = g[k - 1] \o put(sent[k][1], sent[k][2])
    /\ Encode(sent) = g[Len(sent)]

Written(sent) == CHOOSE g : Spells(g, sent)

(* A sequence of fields with values of their kinds. *)
Valued(sent) ==
    /\ Len(sent) \in Nat /\ DOMAIN sent = 1 .. Len(sent)
    /\ \A k \in 1 .. Len(sent) : IsValue(sent[k][1], sent[k][2])

(* What is put for a value is a string of cells. *)
LEMMA PutCells ==
    ASSUME NEW kind, NEW value, IsValue(kind, value)
    PROVE  put(kind, value) \in Seq(Cell)
<1>1. CASE kind \in {"word", "list"}
  <2>1. value \in Cell /\ put(kind, value) = put_u32(value)
    BY <1>1 DEF IsValue, put
  <2> QED
    BY <2>1, SmallWord DEF put_u32
<1>2. CASE kind \in {"bytes", "fixed"}
  <2>1. value \in Seq(Cell) /\ Len(value) \in Cell /\ put(kind, value) = put_bytes(value)
    BY <1>2 DEF IsValue, put
  <2>2. put_u32(Len(value)) \in Seq(Cell)
    BY <2>1, SmallWord DEF put_u32
  <2> QED
    BY <2>1, <2>2, ConcatProperties, Zenon DEF put_bytes
<1>3. CASE kind = "policy"
  <2>1. /\ value \in [tag : DOMAIN PolicyArgs, args : Seq(Cell)]
        /\ put(kind, value) = put_temporal_policy(value)
    BY <1>3 DEF IsValue, put
  <2> DEFINE tag == <<value.tag>>
  <2>2. tag \in Seq(Cell) /\ value.args \in Seq(Cell)
    BY <2>1, WordAssumption DEF PolicyArgs, Cell
  <2>3. put(kind, value) = tag \o value.args
    BY <2>1, Zenon DEF put_temporal_policy
  <2> HIDE DEF tag
  <2> QED
    BY <2>2, <2>3, ConcatProperties, Zenon
<1>4. CASE kind \notin {"word", "list", "bytes", "fixed", "policy"}
  <2>1. put(kind, value) = value
    BY <1>4 DEF put
  <2>2. value \in Seq(Cell)
    BY <1>4, MagicAssumption DEF IsValue, Cell
  <2> QED
    BY <2>1, <2>2
<1> QED
  BY <1>1, <1>2, <1>3, <1>4

(* The encoder's output is built up field by field. *)
LEMMA EncodeSteps ==
    ASSUME NEW sent, Valued(sent)
    PROVE  Spells(Written(sent), sent)
<1> DEFINE n == Len(sent)
           seqs == Puts(sent)
           loop == <<"write", seqs>>
<1>1. n \in Nat /\ DOMAIN sent = 1 .. n
  BY DEF Valued
<1>2. \A k \in 1 .. n : seqs[k] = put(sent[k][1], sent[k][2]) /\ seqs[k] \in Seq(Cell)
  BY <1>1, PutCells, Zenon DEF Valued, Puts
<1>3. seqs = [k \in 1 .. n |-> put(sent[k][1], sent[k][2])] /\ Len(seqs) = n
  BY <1>1 DEF Puts
<1>4. PICK f : IsLoop(loop, <<>>, f, n)
  BY <1>1, LoopExists, Zenon
<1>5. loop[1] # "plan" /\ loop[2] = seqs
  OBVIOUS
<1> HIDE DEF loop, seqs
<1>6. \A k, x : Turn(loop, k, x) = x \o seqs[k]
  BY <1>5, Zenon DEF Turn
<1>7. f = [k \in 0 .. n |-> IF k = 0 THEN <<>> ELSE f[k - 1] \o seqs[k]]
  BY <1>4, <1>6, Zenon DEF IsLoop
<1>8. \A k \in 0 .. n : f[k] = IF k = 0 THEN <<>> ELSE f[k - 1] \o seqs[k]
  BY <1>7, Zenon
<1>9. 0 \in 0 .. n /\ \A k \in 1 .. n : k \in 0 .. n /\ k # 0
  BY <1>1
<1>10. f[0] = <<>> /\ \A k \in 1 .. n : f[k] = f[k - 1] \o seqs[k]
  BY <1>8, <1>9, Zenon
<1>11. CASE n = 0
  <2>1. seqs = <<>>
    BY <1>3, <1>11
  <2>2. Encode(sent) = <<>>
    BY <1>3, <1>11, <2>1, Zenon DEF Encode, FlattenSeq, Puts, seqs
  <2>3. Spells(f, sent)
    BY <1>2, <1>10, <1>11, <2>2, Zenon DEF Spells
  <2> QED
    BY <2>3, Zenon DEF Written
<1>12. CASE n # 0
  <2> DEFINE Is(h) == h = [i \in 1 .. Len(seqs) |->
                              IF i = 1 THEN seqs[i] ELSE h[i - 1] \o seqs[i]]
             G == CHOOSE h : Is(h)
             h == [i \in 1 .. n |-> f[i]]
  <2>1. Is(h)
    <3>1. f[1] = seqs[1]
      <4>1. 1 \in 1 .. n /\ 1 - 1 = 0
        BY <1>1, <1>12
      <4>2. f[1] = <<>> \o seqs[1]
        BY <1>10, <4>1, Zenon
      <4> QED
        BY <1>2, <4>1, <4>2, ConcatEmptySeq, Zenon
    <3>2. \A i \in 1 .. n : i # 1 => i - 1 \in 1 .. n
      BY <1>1
    <3>3. \A i \in 1 .. n : h[i] = IF i = 1 THEN seqs[i] ELSE h[i - 1] \o seqs[i]
      BY <1>10, <3>1, <3>2, Zenon
    <3>4. h = [i \in 1 .. n |-> h[i]]
      OBVIOUS
    <3> HIDE DEF h
    <3>5. h = [i \in 1 .. n |-> IF i = 1 THEN seqs[i] ELSE h[i - 1] \o seqs[i]]
      BY <3>3, <3>4, Zenon
    <3> QED
      BY <1>3, <3>5, Zenon
  <2>2. Is(G)
    BY <2>1, Zenon
  <2>3. Encode(sent) = G[n]
    BY <1>3, <1>12, Zenon DEF Encode, FlattenSeq, Puts, seqs
  <2> HIDE DEF G
  <2>4. \A i \in 1 .. n : G[i] = IF i = 1 THEN seqs[i] ELSE G[i - 1] \o seqs[i]
    BY <1>3, <2>2, Zenon
  <2> DEFINE g == [k \in 0 .. n |-> IF k = 0 THEN <<>> ELSE G[k]]
  <2>5. g[0] = <<>> /\ \A k \in 1 .. n : g[k] = G[k]
    BY <1>9, Zenon
  <2>6. n \in 1 .. n /\ 1 - 1 = 0
    BY <1>1, <1>12
  <2>7. \A k \in 1 .. n : k # 1 => k - 1 \in 1 .. n
    BY <1>1
  <2> HIDE DEF g
  <2>8. ASSUME NEW k \in 1 .. n
        PROVE  g[k] = g[k - 1] \o seqs[k]
    <3>1. CASE k = 1
      <4>1. g[k - 1] = <<>>
        BY <2>5, <2>6, <3>1, Zenon
      <4>2. <<>> \o seqs[k] = seqs[k]
        BY <1>2, ConcatEmptySeq, Zenon
      <4>3. g[k] = seqs[k]
        BY <2>4, <2>5, <3>1, Zenon
      <4> QED
        BY <4>1, <4>2, <4>3, Zenon
    <3>2. CASE k # 1
      BY <2>4, <2>5, <2>7, <3>2, Zenon
    <3> QED
      BY <3>1, <3>2, Zenon
  <2>9. Spells(g, sent)
    BY <1>2, <2>3, <2>5, <2>6, <2>8, Zenon DEF Spells
  <2> QED
    BY <2>9, Zenon DEF Written
<1> QED
  BY <1>11, <1>12, Zenon

(* After every field what is written is a string of cells. *)
LEMMA WrittenCells ==
    ASSUME NEW sent, Valued(sent)
    PROVE  \A k \in 0 .. Len(sent) : Written(sent)[k] \in Seq(Cell)
<1> DEFINE n == Len(sent)
           g == Written(sent)
           T == {k \in Nat : k <= n => g[k] \in Seq(Cell)}
<1>1. n \in Nat
  BY DEF Valued
<1>2. Spells(g, sent)
  BY EncodeSteps, Zenon
<1> HIDE DEF g
<1>3. 0 \in T
  <2>1. g[0] \in Seq(Cell)
    BY <1>2, EmptySeq, Zenon DEF Spells
  <2> QED
    BY <2>1
<1>4. ASSUME NEW k \in T
      PROVE  k + 1 \in T
  <2>1. k \in Nat /\ (k <= n => g[k] \in Seq(Cell))
    BY <1>4
  <2> SUFFICES ASSUME k + 1 <= n
               PROVE  g[k + 1] \in Seq(Cell)
    BY <2>1
  <2>2. k <= n /\ k + 1 \in 1 .. n /\ (k + 1) - 1 = k
    BY <1>1, <2>1
  <2>3. put(sent[k + 1][1], sent[k + 1][2]) \in Seq(Cell)
    BY <2>2, PutCells, Zenon DEF Valued
  <2>4. g[k + 1] = g[k] \o put(sent[k + 1][1], sent[k + 1][2])
    BY <1>2, <2>2, Zenon DEF Spells
  <2> QED
    BY <2>1, <2>2, <2>3, <2>4, ConcatProperties, Zenon
<1> HIDE DEF T
<1>5. T = Nat
  <2>1. T \subseteq Nat
    BY DEF T
  <2> QED
    BY <1>3, <1>4, <2>1, Induction, Zenon
<1> QED
  BY <1>1, <1>5 DEF T, g

(* s is written at the front of t. *)
Leads(s, t) == Len(s) <= Len(t) /\ \A i \in 1 .. Len(s) : t[i] = s[i]

(* What is written after some fields stays at the front to the end. *)
LEMMA WrittenLeads ==
    ASSUME NEW sent, Valued(sent), NEW k \in 0 .. Len(sent)
    PROVE  Leads(Written(sent)[k], Encode(sent))
<1> DEFINE n == Len(sent)
           g == Written(sent)
           T == {m \in Nat : k + m <= n => Leads(g[k], g[k + m])}
<1>1. n \in Nat /\ k \in Nat /\ k <= n
  BY DEF Valued
<1>2. Spells(g, sent) /\ \A m \in 0 .. n : g[m] \in Seq(Cell)
  BY EncodeSteps, WrittenCells, Zenon
<1> HIDE DEF g
<1>3. 0 \in T
  <2>1. k + 0 = k /\ Len(g[k]) \in Nat
    BY <1>1, <1>2
  <2>2. Leads(g[k], g[k])
    BY <2>1 DEF Leads
  <2> QED
    BY <2>1, <2>2
<1>4. ASSUME NEW m \in T
      PROVE  m + 1 \in T
  <2>1. m \in Nat /\ (k + m <= n => Leads(g[k], g[k + m]))
    BY <1>4
  <2> SUFFICES ASSUME k + (m + 1) <= n
               PROVE  Leads(g[k], g[k + (m + 1)])
    BY <2>1
  <2> DEFINE j == k + (m + 1)
             p == put(sent[j][1], sent[j][2])
  <2>2. k + m <= n /\ k + m \in 0 .. n /\ k \in 0 .. n /\ j \in 1 .. n /\ j - 1 = k + m
    BY <1>1, <2>1
  <2> HIDE DEF j
  <2>3. p \in Seq(Cell)
    BY <2>2, PutCells, Zenon DEF Valued
  <2>4. g[j] = g[k + m] \o p
    BY <1>2, <2>2, Zenon DEF Spells
  <2> HIDE DEF p
  <2>5. g[k] \in Seq(Cell) /\ g[k + m] \in Seq(Cell) /\ Leads(g[k], g[k + m])
    BY <1>2, <2>1, <2>2, Zenon
  <2> DEFINE a == g[k]
             b == g[k + m]
  <2> HIDE DEF a, b
  <2>6. a \in Seq(Cell) /\ b \in Seq(Cell) /\ Leads(a, b)
    BY <2>5, Zenon DEF a, b
  <2>7. Leads(a, b \o p)
    BY <2>3, <2>6, ConcatProperties DEF Leads
  <2> QED
    BY <2>4, <2>7, Zenon DEF a, b, j
<1> HIDE DEF T
<1>5. T = Nat
  <2>1. T \subseteq Nat
    BY DEF T
  <2> QED
    BY <1>3, <1>4, <2>1, Induction, Zenon
<1>6. n - k \in Nat /\ k + (n - k) = n /\ n <= n
  BY <1>1
<1>7. Leads(g[k], g[n])
  <2>1. k + (n - k) <= n => Leads(g[k], g[k + (n - k)])
    BY <1>5, <1>6, Zenon DEF T
  <2> QED
    BY <1>6, <2>1, Zenon
<1>8. Encode(sent) = g[n]
  BY <1>2, Zenon DEF Spells
<1> QED
  BY <1>7, <1>8, Zenon DEF g

------------------------------------------------------------------------------
(* The input has the cells of p at c, as far as it goes. *)
Agrees(input, c, p) == \A k \in 1 .. Len(p) : c + k <= Len(input) => input[c + k] = p[k]

(* Raw cells are read as they were written. *)
LEMMA RawCells ==
    ASSUME NEW input \in Seq(Cell), NEW c \in Nat, NEW p \in Seq(Cell),
           Agrees(input, c, p), c + Len(p) <= Len(input)
    PROVE  CellsFrom(input, c, Len(p)) = p
<1> DEFINE n == Len(p)
           s == SubSeq(input, c + 1, c + n)
<1>1. n \in Nat /\ Len(input) \in Nat
  OBVIOUS
<1>2. s \in Seq(Cell) /\ Len(s) = n
  BY <1>1, CellsLength
<1>3. \A i \in (c + 1) .. (c + n) : input[i] \in Cell
  BY <1>1, ElementOfSeq
<1>4. /\ c + 1 \in Int /\ c + n \in Int /\ (c + n) - (c + 1) + 1 = n
      /\ \A i \in 1 .. n : (c + 1) + i - 1 = c + i /\ c + i <= Len(input)
  BY <1>1
<1>5. \A i \in 1 .. n : s[i] = input[(c + 1) + i - 1]
  BY <1>3, <1>4, SubSeqProperties
<1> HIDE DEF s
<1>6. \A i \in 1 .. n : s[i] = p[i]
  BY <1>4, <1>5, Zenon DEF Agrees
<1>7. s = p
  BY <1>2, <1>6, SeqEqual, Zenon
<1> QED
  BY <1>7, Zenon DEF CellsFrom, s

(* Cells led by a length or a tag are read as they were written. *)
LEMMA LedCells ==
    ASSUME NEW input \in Seq(Cell), NEW c \in 0 .. Len(input), NEW x \in Cell,
           NEW v \in Seq(Cell), Agrees(input, c, <<x>> \o v)
    PROVE  /\ Len(<<x>> \o v) = 1 + Len(v)
           /\ Left(input, c) >= 1 => Here(input, c) = x
           /\ c + (1 + Len(v)) <= Len(input) => CellsFrom(input, c + 1, Len(v)) = v
<1> DEFINE p == <<x>> \o v
<1>1. /\ <<x>> \in Seq(Cell) /\ Len(<<x>>) = 1 /\ <<x>>[1] = x
      /\ Len(v) \in Nat /\ Len(input) \in Nat /\ c \in Nat
  OBVIOUS
<1>2. /\ Len(p) = 1 + Len(v)
      /\ \A i \in 1 .. 1 + Len(v) : p[i] = IF i <= 1 THEN <<x>>[i] ELSE v[i - 1]
  BY <1>1, ConcatProperties
<1> HIDE DEF p
<1>3. Agrees(input, c, p)
  BY Zenon DEF p
<1>4. Left(input, c) >= 1 => Here(input, c) = x
  BY <1>1, <1>2, <1>3 DEF Left, Here, Agrees
<1>5. ASSUME c + (1 + Len(v)) <= Len(input)
      PROVE  CellsFrom(input, c + 1, Len(v)) = v
  <2>1. c + 1 \in Nat /\ (c + 1) + Len(v) <= Len(input)
    BY <1>1, <1>5
  <2>2. \A k \in 1 .. Len(v) : p[k + 1] = v[k] /\ k + 1 \in 1 .. Len(p) /\ (c + 1) + k = c + (k + 1)
    BY <1>1, <1>2
  <2>3. Agrees(input, c + 1, v)
    BY <1>3, <2>2, Zenon DEF Agrees
  <2> QED
    BY <2>1, <2>3, RawCells, Zenon
<1> QED
  BY <1>2, <1>4, <1>5, Zenon DEF p

(***************************************************************************)
(* One field of an encoding: it is taken exactly when it is within its     *)
(* limit and whole, and then its value is the one that was written.        *)
(***************************************************************************)
Decodes(field, input, c, v) ==
    LET p == put(field.kind, v)
    IN  /\ Takes(field, input, c) <=> Within(field, v) /\ c + Len(p) <= Len(input)
        /\ Takes(field, input, c) => /\ Value(field, input, c) = v
                                     /\ Size(field, input, c) = Len(p)

(* An integer or a count. *)
LEMMA WordDecodes ==
    ASSUME NEW input \in Seq(Cell), NEW c \in 0 .. Len(input), NEW field, NEW v \in Cell,
           field.kind \in {"word", "list"}, Agrees(input, c, put(field.kind, v))
    PROVE  Decodes(field, input, c, v)
<1>1. put(field.kind, v) = <<v>>
  BY SmallWord DEF put, put_u32
<1>2. Len(put(field.kind, v)) = 1 /\ put(field.kind, v)[1] = v
  BY <1>1
<1>3. Left(input, c) >= 1 <=> c + 1 <= Len(input)
  BY DEF Left
<1>4. c + 1 <= Len(input) => Here(input, c) = v
  BY <1>2 DEF Agrees, Here
<1>5. Size(field, input, c) = 1 /\ Value(field, input, c) = Here(input, c)
  BY DEF Size, Value
<1>6. CASE field.kind = "word"
  <2>1. Takes(field, input, c) <=> Left(input, c) >= 1
    BY <1>6 DEF Takes
  <2>2. Within(field, v)
    BY <1>6 DEF Within
  <2> QED
    BY <1>2, <1>3, <1>4, <1>5, <2>1, <2>2, Zenon DEF Decodes
<1>7. CASE field.kind = "list"
  <2>1. Takes(field, input, c) <=> Left(input, c) >= 1 /\ Here(input, c) <= field.max
    BY <1>7 DEF Takes
  <2>2. Within(field, v) <=> v <= field.max
    BY <1>7 DEF Within
  <2> QED
    BY <1>2, <1>3, <1>4, <1>5, <2>1, <2>2, Zenon DEF Decodes
<1> QED
  BY <1>6, <1>7

(* Bytes, a string or a fixed-size array, behind its length. *)
LEMMA BytesDecodes ==
    ASSUME NEW input \in Seq(Cell), NEW c \in 0 .. Len(input), NEW field, NEW v \in Seq(Cell),
           Len(v) \in Cell, field.kind \in {"bytes", "fixed"},
           Agrees(input, c, put(field.kind, v))
    PROVE  Decodes(field, input, c, v)
<1> DEFINE n == Len(v)
           p == put(field.kind, v)
           whole == c + (1 + n) <= Len(input)
<1>1. p = <<n>> \o v
  BY SmallWord DEF put, put_bytes, put_u32
<1>2. /\ Len(p) = 1 + n
      /\ Left(input, c) >= 1 => Here(input, c) = n
      /\ whole => CellsFrom(input, c + 1, n) = v
  <2>1. n \in Cell /\ Agrees(input, c, <<n>> \o v)
    BY <1>1, Zenon
  <2>2. /\ Len(<<n>> \o v) = 1 + Len(v)
        /\ Left(input, c) >= 1 => Here(input, c) = n
        /\ c + (1 + Len(v)) <= Len(input) => CellsFrom(input, c + 1, Len(v)) = v
    <3> HIDE DEF n
    <3> QED
      BY <2>1, LedCells, Zenon
  <2> QED
    BY <1>1, <2>2, Zenon
<1>3. n \in Nat /\ Len(input) \in Nat /\ c \in Nat
  OBVIOUS
<1>4. /\ whole => Left(input, c) >= 1 /\ Left(input, c) - 1 >= n
      /\ Left(input, c) >= 1 /\ Left(input, c) - 1 >= n => whole
      /\ n <= n
  BY <1>3 DEF Left
<1>5. /\ Size(field, input, c) = 1 + Here(input, c)
      /\ Value(field, input, c) = CellsFrom(input, c + 1, Here(input, c))
  BY DEF Size, Value
<1> HIDE DEF n, p, whole
<1>6. CASE field.kind = "fixed"
  <2>1. Takes(field, input, c) <=> /\ Left(input, c) >= 1
                                   /\ Here(input, c) <= field.len
                                   /\ Left(input, c) - 1 >= Here(input, c)
                                   /\ Here(input, c) = field.len
    BY <1>6 DEF Takes, take_fixed_limited, take_bytes_limited
  <2>2. Within(field, v) <=> n = field.len
    BY <1>6 DEF Within, n
  <2> QED
    BY <1>2, <1>4, <1>5, <2>1, <2>2, Zenon DEF Decodes, p, whole
<1>7. CASE field.kind = "bytes"
  <2>1. Takes(field, input, c) <=>
              /\ Left(input, c) >= 1
              /\ Here(input, c) <= field.max
              /\ Left(input, c) - 1 >= Here(input, c)
              /\ field.text => from_utf8(CellsFrom(input, c + 1, Here(input, c)))
    BY <1>7 DEF Takes, take_str_limited, take_bytes_limited
  <2>2. Within(field, v) <=> n <= field.max /\ (field.text => from_utf8(v))
    BY <1>7 DEF Within, n
  <2> QED
    BY <1>2, <1>4, <1>5, <2>1, <2>2, Zenon DEF Decodes, p, whole
<1> QED
  BY <1>6, <1>7

(* A temporal policy, behind its tag. *)
LEMMA PolicyDecodes ==
    ASSUME NEW input \in Seq(Cell), NEW c \in 0 .. Len(input), NEW field, NEW v,
           v \in [tag : DOMAIN PolicyArgs, args : Seq(Cell)],
           Len(v.args) = PolicyArgs[v.tag],
           field.kind = "policy", Agrees(input, c, put(field.kind, v))
    PROVE  Decodes(field, input, c, v)
<1> DEFINE n == Len(v.args)
           p == put(field.kind, v)
           whole == c + (1 + n) <= Len(input)
           args == v.args
           tag == v.tag
<1>1. p = <<tag>> \o args
  BY DEF put, put_temporal_policy
<1>2. args \in Seq(Cell) /\ tag \in DOMAIN PolicyArgs
  OBVIOUS
<1>3. tag \in Cell
  BY <1>2, WordAssumption DEF PolicyArgs, Cell
<1>4. v = [tag |-> tag, args |-> args]
  OBVIOUS
<1>5. n \in Nat /\ Len(input) \in Nat /\ c \in Nat
  BY <1>2
<1>6. n = Len(args) /\ n = PolicyArgs[tag]
  OBVIOUS
<1> HIDE DEF args, tag, n
<1>7. /\ Len(p) = 1 + n
      /\ Left(input, c) >= 1 => Here(input, c) = tag
      /\ whole => CellsFrom(input, c + 1, n) = args
  <2>1. Agrees(input, c, <<tag>> \o args)
    BY <1>1, Zenon
  <2>2. /\ Len(<<tag>> \o args) = 1 + Len(args)
        /\ Left(input, c) >= 1 => Here(input, c) = tag
        /\ c + (1 + Len(args)) <= Len(input) => CellsFrom(input, c + 1, Len(args)) = args
    BY <1>2, <1>3, <2>1, LedCells, Zenon
  <2> QED
    BY <1>1, <1>6, <2>2, Zenon
<1>8. /\ whole => Left(input, c) >= 1 /\ Left(input, c) - 1 >= n
      /\ Left(input, c) >= 1 /\ Left(input, c) - 1 >= n => whole
  BY <1>5 DEF Left
<1>9. /\ Size(field, input, c) = 1 + PolicyArgs[Here(input, c)]
      /\ Value(field, input, c)
            = [tag |-> Here(input, c),
               args |-> CellsFrom(input, c + 1, PolicyArgs[Here(input, c)])]
  BY DEF Size, Value
<1>10. Takes(field, input, c) <=> /\ Left(input, c) >= 1
                                  /\ Here(input, c) \in DOMAIN PolicyArgs
                                  /\ Left(input, c) - 1 >= PolicyArgs[Here(input, c)]
  BY DEF Takes, take_temporal_policy
<1>11. Within(field, v)
  BY DEF Within
<1> HIDE DEF p, whole
<1>12. Takes(field, input, c) <=> whole
  BY <1>2, <1>6, <1>7, <1>8, <1>10, Zenon
<1>13. whole => Value(field, input, c) = v /\ Size(field, input, c) = Len(p)
  BY <1>4, <1>6, <1>7, <1>8, <1>9, Zenon
<1> QED
  BY <1>7, <1>11, <1>12, <1>13, Zenon DEF Decodes, p, whole

(* A raw signature or the magic. *)
LEMMA RawDecodes ==
    ASSUME NEW input \in Seq(Cell), NEW c \in 0 .. Len(input), NEW field, NEW v \in Seq(Cell),
           \/ field.kind = "sig" /\ Len(v) = SIG_LEN
           \/ field.kind = "magic" /\ v = MAGIC,
           Agrees(input, c, put(field.kind, v))
    PROVE  Decodes(field, input, c, v)
<1>1. put(field.kind, v) = v
  BY DEF put
<1>2. Agrees(input, c, v)
  BY <1>1, Zenon
<1>3. c \in Nat /\ Len(v) \in Nat /\ Len(input) \in Nat
  OBVIOUS
<1>4. c + Len(v) <= Len(input) => CellsFrom(input, c, Len(v)) = v
  BY <1>2, <1>3, RawCells, Zenon
<1>5. Left(input, c) >= Len(v) <=> c + Len(v) <= Len(input)
  BY <1>3 DEF Left
<1>6. Within(field, v)
  BY DEF Within
<1>7. CASE field.kind = "sig" /\ Len(v) = SIG_LEN
  <2>1. /\ Takes(field, input, c) <=> Left(input, c) >= SIG_LEN
        /\ Size(field, input, c) = SIG_LEN
        /\ Value(field, input, c) = CellsFrom(input, c, SIG_LEN)
    BY <1>7 DEF Takes, Size, Value
  <2> QED
    BY <1>1, <1>4, <1>5, <1>6, <1>7, <2>1, Zenon DEF Decodes
<1>8. CASE field.kind = "magic" /\ v = MAGIC
  <2>1. /\ Takes(field, input, c) <=> /\ Left(input, c) >= Len(MAGIC)
                                       /\ CellsFrom(input, c, Len(MAGIC)) = MAGIC
        /\ Size(field, input, c) = Len(MAGIC)
        /\ Value(field, input, c) = MAGIC
    BY <1>8 DEF Takes, Size, Value
  <2> QED
    BY <1>1, <1>4, <1>5, <1>6, <1>8, <2>1, Zenon DEF Decodes
<1> QED
  BY <1>7, <1>8

(* Whatever its kind, a field of an encoding decodes to what was sent. *)
LEMMA FieldDecodes ==
    ASSUME NEW input \in Seq(Cell), NEW c \in 0 .. Len(input), NEW field, NEW v,
           IsValue(field.kind, v), Agrees(input, c, put(field.kind, v))
    PROVE  Decodes(field, input, c, v)
<1>1. CASE field.kind \in {"word", "list"}
  <2>1. v \in Cell
    BY <1>1 DEF IsValue
  <2> QED
    BY <1>1, <2>1, WordDecodes, Zenon
<1>2. CASE field.kind \in {"bytes", "fixed"}
  <2>1. v \in Seq(Cell) /\ Len(v) \in Cell
    BY <1>2 DEF IsValue
  <2> QED
    BY <1>2, <2>1, BytesDecodes, Zenon
<1>3. CASE field.kind = "policy"
  <2>1. /\ v \in [tag : DOMAIN PolicyArgs, args : Seq(Cell)]
        /\ Len(v.args) = PolicyArgs[v.tag]
    BY <1>3 DEF IsValue
  <2> QED
    BY <1>3, <2>1, PolicyDecodes, Zenon
<1>4. CASE field.kind \notin {"word", "list", "bytes", "fixed", "policy"}
  <2>1. \/ field.kind = "sig" /\ Len(v) = SIG_LEN
        \/ field.kind = "magic" /\ v = MAGIC
    BY <1>4 DEF IsValue
  <2>2. v \in Seq(Cell)
    BY <1>4, MagicAssumption DEF IsValue, Cell
  <2> QED
    BY <2>1, <2>2, RawDecodes, Zenon
<1> QED
  BY <1>1, <1>2, <1>3, <1>4, Zenon

------------------------------------------------------------------------------
(***************************************************************************)
(* The decoder on an encoding, whole, cut short or continued: after n      *)
(* fields it has the first n values, what is left of the plan, and its     *)
(* cursor behind the first n fields.                                       *)
(***************************************************************************)
Progress(n) ==
    LET sent == job.sent
        plan == Plan(job.schema, sent)
    IN  /\ n \in 0 .. Len(sent)
        /\ got = [k \in 1 .. n |-> sent[k][2]]
        /\ todo = plan[n]
        /\ cursor = Len(Written(sent)[n])
        /\ \A k \in 1 .. n : Within(Head(plan[k - 1]), sent[k][2])

(* Acceptance means that all was read, and refusal that it could not be. *)
Verdict ==
    /\ outcome \in {"running", "ok", "error"}
    /\ outcome = "ok" => /\ Len(Encode(job.sent)) = Len(job.input)
                         /\ Progress(Len(job.sent))
    /\ outcome = "error" => \/ ~Fits(job.sent, job.schema)
                            \/ Len(Encode(job.sent)) # Len(job.input)

DecodeInv == job \in Encoded => Verdict /\ \E n \in 0 .. Len(job.sent) : Progress(n)

(* The fields a job's bytes were encoded from have values of their kinds. *)
LEMMA SentValued ==
    ASSUME NEW j \in Encoded
    PROVE  Valued(j.sent)
  BY SentAssumption, Zenon DEF Describes, Valued

(* Whole, cut short or continued, the bytes agree with the encoding. *)
LEMMA InputAgrees ==
    ASSUME NEW j \in Encoded, j.input \in Seq(Cell)
    PROVE  Encode(j.sent) \in Seq(Cell) /\ Agrees(j.input, 0, Encode(j.sent))
<1> DEFINE s == j.input
           t == Encode(j.sent)
<1>1. s \in Seq(Cell) /\ t \in Seq(Cell)
  <2>1. Valued(j.sent)
    BY SentValued, Zenon
  <2>2. Len(j.sent) \in 0 .. Len(j.sent)
    BY <2>1 DEF Valued
  <2>3. t = Written(j.sent)[Len(j.sent)]
    BY <2>1, EncodeSteps, Zenon DEF Spells
  <2> QED
    BY <2>1, <2>2, <2>3, WrittenCells, Zenon
<1>2. s = t \/ IsPrefix(s, t) \/ IsPrefix(t, s)
  BY EncodedAssumption DEF Encoded, IsStrictPrefix
<1> HIDE DEF s, t
<1>3. Len(s) \in Nat /\ Len(t) \in Nat
  BY <1>1
<1>4. ASSUME NEW k \in 1 .. Len(t), 0 + k <= Len(s)
      PROVE  s[0 + k] = t[k]
  <2>1. 0 + k = k /\ k \in 1 .. Len(s)
    BY <1>3, <1>4
  <2>2. CASE s = t
    BY <2>1, <2>2, Zenon
  <2>3. ASSUME NEW a \in Seq(Cell), NEW b \in Seq(Cell), IsPrefix(a, b), k \in 1 .. Len(a)
        PROVE  a[k] = b[k]
    <3>1. Len(a) <= Len(b) /\ SubSeq(a, 1, Len(a)) = SubSeq(b, 1, Len(a))
      BY <2>3, Zenon DEF IsPrefix
    <3>2. SubSeq(a, 1, Len(a)) = a
      BY <2>3, SubSeqFull, Zenon
    <3>3. \A i \in 1 .. Len(a) : b[i] \in Cell
      BY <2>3, <3>1, ElementOfSeq
    <3>4. SubSeq(b, 1, Len(a))[k] = b[1 + k - 1]
      <4>1. 1 \in Int /\ Len(a) \in Int /\ k \in 1 .. Len(a) - 1 + 1
        BY <2>3
      <4> QED
        BY <3>3, <4>1, SubSeqProperties
    <3>5. 1 + k - 1 = k
      BY <2>3
    <3> QED
      BY <3>1, <3>2, <3>4, <3>5, Zenon
  <2>4. CASE IsPrefix(s, t)
    BY <1>1, <2>1, <2>3, <2>4, Zenon
  <2>5. CASE IsPrefix(t, s)
    BY <1>1, <1>4, <2>1, <2>3, <2>5, Zenon
  <2> QED
    BY <1>2, <2>2, <2>4, <2>5, Zenon
<1>5. Agrees(s, 0, t)
  BY <1>4, Zenon DEF Agrees
<1> QED
  BY <1>1, <1>5, Zenon DEF s, t

(* At the cursor, after n fields, the next field is to be found. *)
LEMMA NextField ==
    ASSUME NEW j \in Encoded, j.input \in Seq(Cell), NEW n \in Nat, n < Len(j.sent),
           NEW c \in Nat, c = Len(Written(j.sent)[n])
    PROVE  LET p == put(j.sent[n + 1][1], j.sent[n + 1][2])
           IN  /\ Agrees(j.input, c, p)
               /\ Len(Written(j.sent)[n + 1]) = c + Len(p)
               /\ c + Len(p) <= Len(Encode(j.sent))
               /\ Len(p) \in Nat
<1> DEFINE sent == j.sent
           g == Written(sent)
           p == put(sent[n + 1][1], sent[n + 1][2])
           t == Encode(sent)
           s == j.input
<1>1. Valued(sent)
  BY SentValued, Zenon
<1>2. /\ n \in 0 .. Len(sent) /\ n + 1 \in 0 .. Len(sent)
      /\ n + 1 \in 1 .. Len(sent) /\ (n + 1) - 1 = n
  BY <1>1 DEF Valued
<1>3. g[n] \in Seq(Cell) /\ g[n + 1] \in Seq(Cell)
  BY <1>1, <1>2, WrittenCells, Zenon
<1>4. p \in Seq(Cell)
  BY <1>1, <1>2, PutCells, Zenon DEF Valued
<1>5. g[n + 1] = g[n] \o p
  BY <1>1, <1>2, EncodeSteps, Zenon DEF Spells
<1>6. Leads(g[n + 1], t)
  BY <1>1, <1>2, WrittenLeads, Zenon
<1>7. s \in Seq(Cell) /\ t \in Seq(Cell) /\ Agrees(s, 0, t)
  BY InputAgrees, Zenon
<1>8. c = Len(g[n])
  BY Zenon
<1> HIDE DEF g, p, t, s
<1> DEFINE a == g[n]
           b == g[n + 1]
<1>9. a \in Seq(Cell) /\ b = a \o p /\ c = Len(a) /\ Leads(b, t)
  BY <1>3, <1>5, <1>6, <1>8, Zenon
<1> HIDE DEF a, b
<1>10. /\ Len(b) = c + Len(p) /\ Len(p) \in Nat
       /\ \A i \in 1 .. c + Len(p) : b[i] = IF i <= c THEN a[i] ELSE p[i - c]
  BY <1>4, <1>9, ConcatProperties
<1>11. \A k \in 1 .. Len(p) : c + k \in 1 .. Len(b) /\ b[c + k] = p[k]
  <2>1. \A k \in 1 .. Len(p) : c + k \in 1 .. c + Len(p) /\ ~(c + k <= c) /\ (c + k) - c = k
    BY <1>10
  <2> QED
    BY <1>10, <2>1, Zenon
<1>12. Len(b) <= Len(t) /\ \A i \in 1 .. Len(b) : t[i] = b[i]
  BY <1>9, Zenon DEF Leads
<1>13. Agrees(s, c, p)
  <2> SUFFICES ASSUME NEW k \in 1 .. Len(p), c + k <= Len(s)
               PROVE  s[c + k] = p[k]
    BY Zenon DEF Agrees
  <2>1. c + k \in 1 .. Len(t) /\ 0 + (c + k) = c + k
    BY <1>7, <1>10, <1>12
  <2>2. s[c + k] = t[c + k]
    BY <1>7, <2>1, Zenon DEF Agrees
  <2> QED
    BY <1>11, <1>12, <2>2, Zenon
<1> QED
  BY <1>10, <1>12, <1>13, Zenon DEF b, g, p, t, s

(* The first n values and the next are the first n + 1. *)
LEMMA NextValue ==
    ASSUME NEW sent, NEW n \in Nat
    PROVE  Append([k \in 1 .. n |-> sent[k][2]], sent[n + 1][2])
              = [k \in 1 .. n + 1 |-> sent[k][2]]
<1> DEFINE seq == [k \in 1 .. n |-> sent[k][2]]
           S == {sent[k][2] : k \in 1 .. n + 1}
           v == sent[n + 1][2]
           t == Append(seq, v)
           u == [k \in 1 .. n + 1 |-> sent[k][2]]
<1>1. n + 1 \in 1 .. n + 1 /\ \A k \in 1 .. n : k \in 1 .. n + 1
  OBVIOUS
<1>2. v \in S /\ \A k \in 1 .. n + 1 : sent[k][2] \in S
  BY <1>1, Zenon
<1> HIDE DEF S, v
<1>3. seq \in Seq(S) /\ Len(seq) = n /\ \A k \in 1 .. n : seq[k] = sent[k][2]
  BY <1>1, <1>2
<1>4. u \in Seq(S) /\ Len(u) = n + 1 /\ \A k \in 1 .. n + 1 : u[k] = sent[k][2]
  BY <1>2
<1> HIDE DEF u, seq
<1>5. /\ t \in Seq(S) /\ Len(t) = n + 1
      /\ \A i \in 1 .. n : t[i] = seq[i]
      /\ t[n + 1] = v
  BY <1>2, <1>3, AppendProperties
<1> HIDE DEF t
<1>6. \A i \in 1 .. n + 1 : i \in 1 .. n \/ i = n + 1
  OBVIOUS
<1>7. \A i \in 1 .. n + 1 : t[i] = u[i]
  BY <1>3, <1>4, <1>5, <1>6, Zenon DEF v
<1>8. t = u
  BY <1>4, <1>5, <1>7, SeqEqual, Zenon
<1> QED
  BY <1>8, Zenon DEF t, u, v, seq

(* A field is left to be taken exactly while values are left to be read. *)
LEMMA FieldsLeft ==
    ASSUME NEW j \in Encoded, NEW n \in 0 .. Len(j.sent)
    PROVE  LET sent == j.sent
               rest == Plan(j.schema, sent)[n]
           IN  /\ Len(sent) \in Nat
               /\ rest = <<>> => n = Len(sent)
               /\ rest # <<>> =>
                     /\ n \in Nat /\ n < Len(sent)
                     /\ sent[n + 1][1] = Head(rest).kind
                     /\ IsValue(Head(rest).kind, sent[n + 1][2])
                     /\ Plan(j.schema, sent)[n + 1]
                           = Items(Head(rest), sent[n + 1][2]) \o Tail(rest)
<1> DEFINE sent == j.sent
           plan == Plan(j.schema, sent)
<1>1. Describes(sent, j.schema)
  BY SentAssumption, Zenon
<1>2. /\ Len(sent) \in Nat /\ DOMAIN sent = 1 .. Len(sent)
      /\ plan[Len(sent)] = <<>>
      /\ \A k \in 1 .. Len(sent) :
            /\ plan[k - 1] # <<>>
            /\ sent[k][1] = Head(plan[k - 1]).kind
            /\ IsValue(sent[k][1], sent[k][2])
  BY <1>1, Zenon DEF Describes
<1>3. \A k \in 1 .. Len(sent) :
         plan[k] = Items(Head(plan[k - 1]), sent[k][2]) \o Tail(plan[k - 1])
  <2>1. Len(sent) \in Nat
    BY <1>2, Zenon
  <2>2. Planned(plan, j.schema, sent)
    BY <2>1, PlanSteps, Zenon
  <2> HIDE DEF plan
  <2> QED
    BY <2>2, Zenon DEF Planned
<1>4. n # Len(sent) => n \in Nat /\ n < Len(sent) /\ n + 1 \in 1 .. Len(sent) /\ (n + 1) - 1 = n
  BY <1>2
<1> HIDE DEF plan
<1>5. CASE n = Len(sent)
  BY <1>2, <1>5, Zenon DEF plan
<1>6. CASE n # Len(sent)
  <2>1. plan[n] # <<>> /\ sent[n + 1][1] = Head(plan[n]).kind
        /\ IsValue(sent[n + 1][1], sent[n + 1][2])
    BY <1>2, <1>4, <1>6, Zenon
  <2>2. plan[n + 1] = Items(Head(plan[n]), sent[n + 1][2]) \o Tail(plan[n])
    BY <1>3, <1>4, <1>6, Zenon
  <2> QED
    BY <1>2, <1>4, <1>6, <2>1, <2>2, Zenon DEF plan
<1> QED
  BY <1>5, <1>6, Zenon

(* Taking a field of an encoding takes the next value that was sent. *)
LEMMA TakeAdvances ==
    ASSUME TakeField, job \in Encoded, job.input \in Seq(Cell), cursor \in 0 .. Len(job.input),
           NEW n, Progress(n)
    PROVE  n + 1 \in 0 .. Len(job.sent) /\ Progress(n + 1)'
<1> DEFINE sent == job.sent
           schema == job.schema
           plan == Plan(schema, sent)
           v == sent[n + 1][2]
           p == put(sent[n + 1][1], v)
<1>1. /\ n \in 0 .. Len(sent)
      /\ got = [k \in 1 .. n |-> sent[k][2]]
      /\ todo = plan[n]
      /\ cursor = Len(Written(sent)[n])
      /\ \A k \in 1 .. n : Within(Head(plan[k - 1]), sent[k][2])
  BY Zenon DEF Progress
<1>2. /\ todo # <<>> /\ Takes(Field, job.input, cursor)
      /\ cursor' = cursor + Size(Field, job.input, cursor)
      /\ got' = Append(got, Value(Field, job.input, cursor))
      /\ todo' = Items(Field, Value(Field, job.input, cursor)) \o Tail(todo)
      /\ job' = job
  BY DEF TakeField
<1>3. /\ Len(sent) \in Nat /\ n \in Nat /\ n < Len(sent)
      /\ sent[n + 1][1] = Field.kind
      /\ IsValue(Field.kind, v)
      /\ plan[n + 1] = Items(Field, v) \o Tail(todo)
  BY <1>1, <1>2, FieldsLeft, Zenon DEF Field
<1>4. cursor \in Nat
  OBVIOUS
<1>5. /\ Agrees(job.input, cursor, p)
      /\ Len(Written(sent)[n + 1]) = cursor + Len(p)
  BY <1>1, <1>3, <1>4, NextField, Zenon
<1>6. Decodes(Field, job.input, cursor, v)
  BY <1>3, <1>5, FieldDecodes, Zenon
<1>7. /\ Value(Field, job.input, cursor) = v
      /\ Size(Field, job.input, cursor) = Len(p)
      /\ Within(Field, v)
  BY <1>2, <1>3, <1>6, Zenon DEF Decodes
<1>8. got' = [k \in 1 .. n + 1 |-> sent[k][2]]
  <2>1. got' = Append([k \in 1 .. n |-> sent[k][2]], v)
    BY <1>1, <1>2, <1>7, Zenon
  <2> QED
    BY <1>3, <2>1, NextValue, Zenon
<1>9. /\ todo' = plan[n + 1]
      /\ cursor' = Len(Written(sent)[n + 1])
  BY <1>2, <1>3, <1>5, <1>7, Zenon
<1>10. /\ n + 1 \in 0 .. Len(sent) /\ (n + 1) - 1 = n
       /\ \A k \in 1 .. n + 1 : k \in 1 .. n \/ k = n + 1
  BY <1>3
<1>11. \A k \in 1 .. n + 1 : Within(Head(plan[k - 1]), sent[k][2])
  BY <1>1, <1>7, <1>10, Zenon DEF Field
<1>12. job'.sent = sent /\ job'.schema = schema
  BY <1>2, Zenon
<1> QED
  BY <1>8, <1>9, <1>10, <1>11, <1>12, Zenon DEF Progress

(* A field of an encoding is refused when it is over its limit or cut. *)
LEMMA RefuseDecides ==
    ASSUME Refuse, job \in Encoded, job.input \in Seq(Cell), cursor \in 0 .. Len(job.input),
           NEW n, Progress(n)
    PROVE  \/ ~Fits(job.sent, job.schema)
           \/ Len(Encode(job.sent)) # Len(job.input)
<1> DEFINE sent == job.sent
           schema == job.schema
           plan == Plan(schema, sent)
           v == sent[n + 1][2]
           p == put(sent[n + 1][1], v)
<1>1. /\ n \in 0 .. Len(sent)
      /\ todo = plan[n]
      /\ cursor = Len(Written(sent)[n])
  BY Zenon DEF Progress
<1>2. todo # <<>> /\ ~Takes(Field, job.input, cursor)
  BY DEF Refuse
<1>3. /\ Len(sent) \in Nat /\ n \in Nat /\ n < Len(sent)
      /\ sent[n + 1][1] = Field.kind
      /\ IsValue(Field.kind, v)
  BY <1>1, <1>2, FieldsLeft, Zenon DEF Field
<1>4. cursor \in Nat /\ Len(job.input) \in Nat
  OBVIOUS
<1>5. /\ Agrees(job.input, cursor, p)
      /\ cursor + Len(p) <= Len(Encode(sent))
      /\ Len(p) \in Nat
  BY <1>1, <1>3, <1>4, NextField, Zenon
<1>6. Decodes(Field, job.input, cursor, v)
  BY <1>3, <1>5, FieldDecodes, Zenon
<1>7. ~Within(Field, v) \/ ~(cursor + Len(p) <= Len(job.input))
  BY <1>2, <1>3, <1>6, Zenon DEF Decodes
<1>8. ASSUME ~Within(Field, v)
      PROVE  ~Fits(sent, schema)
  <2>1. n + 1 \in 1 .. Len(sent) /\ (n + 1) - 1 = n
    BY <1>3
  <2>2. DOMAIN sent = 1 .. Len(sent)
    BY SentValued, Zenon DEF Valued
  <2> QED
    BY <1>1, <1>8, <2>1, <2>2, Zenon DEF Fits, Field
<1>9. ASSUME ~(cursor + Len(p) <= Len(job.input))
      PROVE  Len(Encode(sent)) # Len(job.input)
  BY <1>5, <1>9, Zenon
<1> QED
  BY <1>7, <1>8, <1>9, Zenon

(* The decoder starts with nothing taken. *)
LEMMA DecodeInvInit == Init => DecodeInv
<1> SUFFICES ASSUME Init, job \in Encoded
             PROVE  Verdict /\ \E n \in 0 .. Len(job.sent) : Progress(n)
  BY DEF DecodeInv
<1> DEFINE sent == job.sent
           plan == Plan(job.schema, sent)
<1>1. cursor = 0 /\ todo = job.schema /\ got = <<>> /\ outcome = "running"
  BY DEF Init
<1>2. Valued(sent)
  BY SentValued, Zenon
<1>3. Len(sent) \in Nat
  BY <1>2, Zenon DEF Valued
<1>4. 0 \in 0 .. Len(sent) /\ 1 .. 0 = {} /\ Len(<<>>) = 0
  BY <1>3
<1>5. plan[0] = job.schema
  BY <1>3, PlanSteps, Zenon DEF Planned
<1>6. Written(sent)[0] = <<>>
  BY <1>2, EncodeSteps, Zenon DEF Spells
<1>7. <<>> = [k \in 1 .. 0 |-> sent[k][2]]
  BY <1>4
<1>8. Progress(0)
  BY <1>1, <1>4, <1>5, <1>6, <1>7, Zenon DEF Progress
<1>9. Verdict
  BY <1>1 DEF Verdict
<1> QED
  BY <1>4, <1>8, <1>9, Zenon

(* Every step keeps the decoder in line with what was sent. *)
LEMMA DecodeInvStep == WireInv /\ DecodeInv /\ [Next]_vars => DecodeInv'
<1> SUFFICES ASSUME WireInv, DecodeInv, [Next]_vars, job' \in Encoded
             PROVE  Verdict' /\ \E n \in 0 .. Len(job'.sent) : Progress(n)'
  BY DEF DecodeInv
<1>1. job' = job
  BY Zenon DEF Next, TakeField, Refuse, Finish, vars
<1>2. job \in Encoded
  BY <1>1, Zenon
<1>3. job.input \in Seq(Cell) /\ cursor \in 0 .. Len(job.input)
  BY JobsAssumption DEF WireInv, RecodesPrefix
<1>4. Verdict
  BY <1>2, Zenon DEF DecodeInv
<1>5. PICK n \in 0 .. Len(job.sent) : Progress(n)
  BY <1>2, Zenon DEF DecodeInv
<1>6. ASSUME UNCHANGED <<cursor, todo, got>>
      PROVE  Progress(n)'
  BY <1>1, <1>5, <1>6, Zenon DEF Progress
<1>7. CASE TakeField
  <2>1. n + 1 \in 0 .. Len(job.sent) /\ Progress(n + 1)'
    BY <1>2, <1>3, <1>5, <1>7, TakeAdvances, Zenon
  <2>2. outcome' = "running"
    BY <1>7 DEF TakeField
  <2>3. Verdict'
    BY <2>2 DEF Verdict
  <2> QED
    BY <1>1, <2>1, <2>3, Zenon
<1>8. CASE Refuse
  <2>1. outcome' = "error" /\ UNCHANGED <<cursor, todo, got>>
    BY <1>8 DEF Refuse
  <2>2. \/ ~Fits(job.sent, job.schema)
        \/ Len(Encode(job.sent)) # Len(job.input)
    BY <1>2, <1>3, <1>5, <1>8, RefuseDecides, Zenon
  <2>3. Verdict'
    BY <1>1, <2>1, <2>2 DEF Verdict
  <2> QED
    BY <1>1, <1>5, <1>6, <2>1, <2>3, Zenon
<1>9. CASE Finish
  <2>1. /\ todo = <<>>
        /\ outcome' = IF cursor = Len(job.input) THEN "ok" ELSE "error"
        /\ UNCHANGED <<cursor, todo, got>>
    BY <1>9 DEF Finish
  <2>2. todo = Plan(job.schema, job.sent)[n] /\ cursor = Len(Written(job.sent)[n])
    BY <1>5, Zenon DEF Progress
  <2>3. n = Len(job.sent)
    BY <1>2, <1>5, <2>1, <2>2, FieldsLeft, Zenon
  <2>4. cursor = Len(Encode(job.sent))
    BY <1>2, <2>2, <2>3, SentValued, EncodeSteps, Zenon DEF Spells
  <2>5. Progress(n)'
    BY <1>6, <2>1, Zenon
  <2>6. Verdict'
    <3>1. CASE cursor = Len(job.input)
      <4>1. outcome' = "ok" /\ Len(Encode(job.sent)) = Len(job.input)
        BY <2>1, <2>4, <3>1, Zenon
      <4>2. Progress(Len(job.sent))'
        BY <1>1, <2>3, <2>5, Zenon DEF Progress
      <4> QED
        BY <1>1, <4>1, <4>2 DEF Verdict
    <3>2. CASE cursor # Len(job.input)
      <4>1. outcome' = "error" /\ Len(Encode(job.sent)) # Len(job.input)
        BY <2>1, <2>4, <3>2, Zenon
      <4> QED
        BY <1>1, <4>1 DEF Verdict
    <3> QED
      BY <3>1, <3>2
  <2> QED
    BY <1>1, <1>5, <2>5, <2>6, Zenon
<1>10. CASE UNCHANGED vars
  <2>1. UNCHANGED <<cursor, todo, got, outcome>>
    BY <1>10 DEF vars
  <2>2. Verdict'
    BY <1>1, <1>4, <2>1, Zenon DEF Verdict, Progress
  <2> QED
    BY <1>1, <1>5, <1>6, <2>1, <2>2, Zenon
<1> QED
  BY <1>7, <1>8, <1>9, <1>10 DEF Next

(* A proper prefix is not of the same length. *)
LEMMA StrictlyShorter ==
    ASSUME NEW s \in Seq(Cell), NEW t \in Seq(Cell), IsStrictPrefix(s, t)
    PROVE  Len(s) # Len(t)
<1>1. s # t /\ SubSeq(s, 1, Len(s)) = SubSeq(t, 1, Len(s))
  BY DEF IsStrictPrefix, IsPrefix
<1>2. SubSeq(s, 1, Len(s)) = s /\ SubSeq(t, 1, Len(t)) = t
  BY SubSeqFull, Zenon
<1> QED
  BY <1>1, <1>2, Zenon

(* The invariant settles every call that has returned. *)
LEMMA VerdictExact == WireInv /\ DecodeInv => DecodesExactly
<1> SUFFICES ASSUME WireInv, DecodeInv, outcome # "running"
             PROVE  /\ job.altered = "none" =>
                          /\ outcome = "ok" <=> job.fits
                          /\ outcome = "ok" => got = ValuesOf(job.sent)
                    /\ job.altered \in {"truncated", "extended"} => outcome = "error"
  BY DEF DecodesExactly
<1>1. job \in Jobs /\ job.input \in Seq(Cell)
  BY JobsAssumption DEF WireInv
<1> SUFFICES ASSUME job.altered \in {"none", "truncated", "extended"}
             PROVE  /\ job.altered = "none" =>
                          /\ outcome = "ok" <=> job.fits
                          /\ outcome = "ok" => got = ValuesOf(job.sent)
                    /\ job.altered \in {"truncated", "extended"} => outcome = "error"
  OBVIOUS
<1>2. job \in Encoded
  BY <1>1 DEF Encoded
<1>3. outcome \in {"ok", "error"}
  BY <1>2 DEF DecodeInv, Verdict
<1>4. outcome = "ok" => /\ Len(Encode(job.sent)) = Len(job.input)
                        /\ Progress(Len(job.sent))
  BY <1>2, Zenon DEF DecodeInv, Verdict
<1>5. outcome = "error" => \/ ~Fits(job.sent, job.schema)
                           \/ Len(Encode(job.sent)) # Len(job.input)
  BY <1>2, Zenon DEF DecodeInv, Verdict
<1>6. Encode(job.sent) \in Seq(Cell)
  BY <1>1, <1>2, InputAgrees, Zenon
<1>7. DOMAIN job.sent = 1 .. Len(job.sent)
  BY <1>2, SentValued, Zenon DEF Valued
<1>8. job.fits <=> Fits(job.sent, job.schema)
  BY <1>2, SentAssumption, Zenon
<1>9. ASSUME job.altered = "none"
      PROVE  /\ outcome = "ok" <=> job.fits
             /\ outcome = "ok" => got = ValuesOf(job.sent)
  <2>1. job.input = Encode(job.sent)
    BY <1>2, <1>9, EncodedAssumption, Zenon
  <2>2. outcome = "error" => ~Fits(job.sent, job.schema)
    BY <1>5, <2>1, Zenon
  <2>3. outcome = "ok" => Fits(job.sent, job.schema) /\ got = ValuesOf(job.sent)
    BY <1>4, <1>7, Zenon DEF Progress, Fits, ValuesOf
  <2> QED
    BY <1>3, <1>8, <2>2, <2>3
<1>10. ASSUME job.altered \in {"truncated", "extended"}
       PROVE  outcome = "error"
  <2>1. \/ IsStrictPrefix(job.input, Encode(job.sent))
        \/ IsStrictPrefix(Encode(job.sent), job.input)
    BY <1>2, <1>10, EncodedAssumption, Zenon
  <2>2. Len(Encode(job.sent)) # Len(job.input)
    BY <1>1, <1>6, <2>1, StrictlyShorter, Zenon
  <2> QED
    BY <1>3, <1>4, <2>2
<1> QED
  BY <1>9, <1>10

(***************************************************************************)
(* decode(encode(x)), for every format, every value and every limit: the   *)
(* encoding of a list of fields is accepted exactly when each of them is   *)
(* within its limit, the values come back, and no proper prefix of an      *)
(* encoding and nothing that continues one is accepted, wherever the cut   *)
(* falls and however often a count repeats its items.                      *)
(***************************************************************************)
THEOREM DecodesWhatWasSent == Spec => []DecodesExactly
<1>1. Init => WireInv /\ DecodeInv
  BY WireInvInit, DecodeInvInit
<1>2. WireInv /\ DecodeInv /\ [Next]_vars => (WireInv /\ DecodeInv)'
  BY WireInvStep, DecodeInvStep
<1>3. WireInv /\ DecodeInv => DecodesExactly
  BY VerdictExact
<1> QED
  BY <1>1, <1>2, <1>3, PTL DEF Spec
==============================================================================
