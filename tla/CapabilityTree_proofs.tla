------------------------ MODULE CapabilityTree_proofs ------------------------
(***************************************************************************)
(* The capability tree for any number of capabilities and stamps: its      *)
(* lists stay canonical, its Merkle roots bind, and inclusion proofs and   *)
(* non-revocation witnesses verify exactly as long as nothing changed.     *)
(*                                                                         *)
(* The argument: a level of a Merkle tree determines the level below it    *)
(* (the sentinel tells an odd level from an even one), so equal roots have *)
(* equal leaves; a path drawn from a tree leads to its root; so a proof    *)
(* drawn from an old tree verifies against the present root only if the    *)
(* two trees have the same leaves.                                         *)
(***************************************************************************)
EXTENDS CapabilityTree, FiniteSetTheorems, SequenceTheorems, WellFoundedInduction, TLAPS

(***************************************************************************)
(* Induction over the naturals, with the set of numbers that satisfy the   *)
(* hypothesis in the place of a predicate.                                 *)
(***************************************************************************)
LessNat == {p \in Nat \X Nat : p[1] < p[2]}

(* No sequence of naturals goes down for ever. *)
LEMMA LessNatWellFounded == IsWellFoundedOn(LessNat, Nat)
  BY NatLessThanWellFounded, Zenon DEF OpToRel, LessNat

(* A pair that is not in LessNat is in order. *)
LEMMA NotLess ==
    ASSUME NEW x \in Nat, NEW y \in Nat, <<y, x>> \notin LessNat
    PROVE  x <= y
  BY DEF LessNat

(* A set of naturals that has a member has a least one. *)
LEMMA Least ==
    ASSUME NEW T, T \subseteq Nat, T # {}
    PROVE  \E x \in T : \A y \in T : x <= y
<1>1. \E x \in T : \A y \in T : ~ (<<y, x>> \in LessNat)
  BY LessNatWellFounded, WFMin, Zenon
<1> QED
  BY <1>1, NotLess, Zenon

(* A set of naturals with 0 and every successor has all of them. *)
LEMMA Induction ==
    ASSUME NEW T, T \subseteq Nat, 0 \in T, \A n \in T : n + 1 \in T
    PROVE  T = Nat
<1> SUFFICES ASSUME Nat \ T # {}
             PROVE  FALSE
  BY Zenon
<1>1. PICK x \in Nat \ T : \A y \in Nat \ T : x <= y
  <2>1. Nat \ T \subseteq Nat
    BY Zenon
  <2> QED
    BY <2>1, Least, Zenon
<1>2. x # 0
  BY <1>1, Zenon
<1>3. x - 1 \in Nat /\ x = (x - 1) + 1 /\ ~(x <= x - 1)
  BY <1>1, <1>2, SMT
<1>4. x - 1 \in T
  BY <1>1, <1>3, Zenon
<1> QED
  BY <1>1, <1>3, <1>4, Zenon

------------------------------------------------------------------------------
(***************************************************************************)
(* The loops of the Merkle code, as recursive functions of the number of   *)
(* turns: the levels of a tree, the index on each of them, and the hash    *)
(* climbing a path.  That a recursive function exists is the same argument *)
(* for the three, so it is given once, for a loop with any of their turns. *)
(***************************************************************************)
(* One turn of the loop of merkle_root_from_proof. *)
Paired(siblings, index, d, hash) ==
    IF merkle_sibling_is_right(IndexAt(index, d - 1))
    THEN hash_transparency_node(hash, siblings[d])
    ELSE hash_transparency_node(siblings[d], hash)

Turn(loop, d, x) ==
    CASE loop[1] = "level" -> NextLevel(x)
      [] loop[1] = "index" -> next_merkle_index(x)
      [] OTHER             -> Paired(loop[2], loop[3], d, x)

Turns(loop, start, f, n) ==
    f[0] = start /\ \A d \in 1 .. n : f[d] = Turn(loop, d, f[d - 1])

IsLoop(loop, start, F) ==
    F = [d \in Nat |-> IF d = 0 THEN start ELSE Turn(loop, d, F[d - 1])]

(* Any number of turns can be taken. *)
LEMMA TurnsExist ==
    ASSUME NEW loop, NEW start, NEW n \in Nat
    PROVE  \E f : Turns(loop, start, f, n)
<1> DEFINE T == {m \in Nat : \E f : Turns(loop, start, f, m)}
<1>1. 0 \in T
  <2>1. Turns(loop, start, [d \in 0 .. 0 |-> start], 0)
    BY DEF Turns
  <2> QED
    BY <2>1
<1>2. ASSUME NEW m \in T
      PROVE  m + 1 \in T
  <2>1. PICK f : Turns(loop, start, f, m)
    BY <1>2
  <2> DEFINE g == [d \in 0 .. m + 1 |-> IF d = 0 THEN start ELSE Turn(loop, d, f[d - 1])]
  <2>2. m \in Nat
    BY <1>2
  <2>3. \A d \in 0 .. m : g[d] = f[d]
    BY <2>1, <2>2 DEF Turns
  <2>4. g[0] = start /\ \A d \in 1 .. m + 1 : g[d] = Turn(loop, d, f[d - 1])
    BY <2>2
  <2> HIDE DEF g
  <2>5. \A d \in 1 .. m + 1 : g[d - 1] = f[d - 1]
    BY <2>2, <2>3
  <2>6. Turns(loop, start, g, m + 1)
    BY <2>4, <2>5, Zenon DEF Turns
  <2> QED
    BY <2>2, <2>6
<1> HIDE DEF T
<1>3. T = Nat
  <2>1. T \subseteq Nat
    BY DEF T
  <2> QED
    BY <1>1, <1>2, <2>1, Induction, Zenon
<1> QED
  BY <1>3, Zenon DEF T

(* Turns taken from the same start agree as far as both go. *)
LEMMA TurnsAgree ==
    ASSUME NEW loop, NEW start, NEW m \in Nat, NEW n \in Nat, NEW f, NEW g,
           Turns(loop, start, f, m), Turns(loop, start, g, n)
    PROVE  \A d \in Nat : d <= m /\ d <= n => f[d] = g[d]
<1> DEFINE T == {d \in Nat : d <= m /\ d <= n => f[d] = g[d]}
<1>1. 0 \in T
  BY DEF Turns
<1>2. ASSUME NEW d \in T
      PROVE  d + 1 \in T
  <2>1. d \in Nat /\ (d <= m /\ d <= n => f[d] = g[d])
    BY <1>2
  <2>2. CASE d + 1 <= m /\ d + 1 <= n
    <3>1. d + 1 \in 1 .. m /\ d + 1 \in 1 .. n /\ (d + 1) - 1 = d /\ f[d] = g[d]
      BY <2>1, <2>2, SMT
    <3>2. f[d + 1] = g[d + 1]
      BY <3>1, Zenon DEF Turns
    <3> QED
      BY <2>1, <3>2
  <2> QED
    BY <2>1, <2>2
<1> HIDE DEF T
<1>3. T = Nat
  <2>1. T \subseteq Nat
    BY DEF T
  <2> QED
    BY <1>1, <1>2, <2>1, Induction, Zenon
<1> QED
  BY <1>3, Zenon DEF T

(* So a function of all numbers of turns exists. *)
LEMMA LoopExists ==
    ASSUME NEW loop, NEW start
    PROVE  \E F : IsLoop(loop, start, F)
<1> DEFINE Upto(d) == CHOOSE f : Turns(loop, start, f, d)
           F == [d \in Nat |-> Upto(d)[d]]
<1>1. \A d \in Nat : Turns(loop, start, Upto(d), d)
  BY TurnsExist, Zenon
<1> HIDE DEF Upto
<1>2. F[0] = start
  BY <1>1 DEF Turns
<1>3. ASSUME NEW d \in Nat, d # 0
      PROVE  F[d] = Turn(loop, d, F[d - 1])
  <2>1. d - 1 \in Nat /\ d \in 1 .. d /\ d - 1 <= d /\ d - 1 <= d - 1
    BY <1>3
  <2>2. Upto(d)[d - 1] = Upto(d - 1)[d - 1]
    <3>1. Turns(loop, start, Upto(d), d) /\ Turns(loop, start, Upto(d - 1), d - 1)
      BY <1>1, <2>1, Zenon
    <3>2. \A e \in Nat : e <= d /\ e <= d - 1 => Upto(d)[e] = Upto(d - 1)[e]
      BY <2>1, <3>1, TurnsAgree
    <3> QED
      BY <2>1, <3>2, Zenon
  <2>3. Upto(d)[d] = Turn(loop, d, Upto(d)[d - 1])
    BY <1>1, <2>1, Zenon DEF Turns
  <2> QED
    BY <2>1, <2>2, <2>3
<1>4. F = [d \in Nat |-> IF d = 0 THEN start ELSE Turn(loop, d, F[d - 1])]
  BY <1>2, <1>3
<1> HIDE DEF F
<1> QED
  BY <1>4, Zenon DEF IsLoop

(* The levels of a tree. *)
LEMMA LevelSteps ==
    ASSUME NEW leaves
    PROVE  /\ Level(leaves, 0) = leaves
           /\ \A d \in Nat : Level(leaves, d + 1) = NextLevel(Level(leaves, d))
<1> DEFINE Is(f) == f = [d \in Nat |-> IF d = 0 THEN leaves ELSE NextLevel(f[d - 1])]
           G == CHOOSE f : Is(f)
<1>1. \E f : Is(f)
  <2> DEFINE loop == <<"level">>
  <2>1. PICK f : IsLoop(loop, leaves, f)
    BY LoopExists, Zenon
  <2>2. \A d, x : Turn(loop, d, x) = NextLevel(x)
    BY DEF Turn
  <2> HIDE DEF loop
  <2>3. f = [d \in Nat |-> IF d = 0 THEN leaves ELSE NextLevel(f[d - 1])]
    BY <2>1, <2>2 DEF IsLoop
  <2> QED
    BY <2>3, Zenon
<1>2. Is(G)
  BY <1>1, Zenon
<1>3. \A e : Level(leaves, e) = G[e]
  BY Zenon DEF Level
<1> HIDE DEF G
<1>4. \A e \in Nat : G[e] = IF e = 0 THEN leaves ELSE NextLevel(G[e - 1])
  BY <1>2, Zenon
<1>5. G[0] = leaves
  BY <1>4
<1>6. ASSUME NEW d \in Nat
      PROVE  G[d + 1] = NextLevel(G[d])
  <2>1. d + 1 \in Nat /\ d + 1 # 0 /\ (d + 1) - 1 = d
    OBVIOUS
  <2> QED
    BY <1>4, <2>1, Zenon
<1> QED
  BY <1>3, <1>5, <1>6, Zenon

(* The index on every level. *)
LEMMA IndexSteps ==
    ASSUME NEW index
    PROVE  /\ IndexAt(index, 0) = index
           /\ \A d \in Nat : IndexAt(index, d + 1) = next_merkle_index(IndexAt(index, d))
<1> DEFINE Is(f) == f = [d \in Nat |-> IF d = 0 THEN index ELSE next_merkle_index(f[d - 1])]
           G == CHOOSE f : Is(f)
<1>1. \E f : Is(f)
  <2> DEFINE loop == <<"index">>
  <2>1. PICK f : IsLoop(loop, index, f)
    BY LoopExists, Zenon
  <2>2. \A d, x : Turn(loop, d, x) = next_merkle_index(x)
    BY DEF Turn
  <2> HIDE DEF loop
  <2>3. f = [d \in Nat |-> IF d = 0 THEN index ELSE next_merkle_index(f[d - 1])]
    BY <2>1, <2>2 DEF IsLoop
  <2> QED
    BY <2>3, Zenon
<1>2. Is(G)
  BY <1>1, Zenon
<1>3. \A e : IndexAt(index, e) = G[e]
  BY Zenon DEF IndexAt
<1> HIDE DEF G
<1>4. \A e \in Nat : G[e] = IF e = 0 THEN index ELSE next_merkle_index(G[e - 1])
  BY <1>2, Zenon
<1>5. G[0] = index
  BY <1>4
<1>6. ASSUME NEW d \in Nat
      PROVE  G[d + 1] = next_merkle_index(G[d])
  <2>1. d + 1 \in Nat /\ d + 1 # 0 /\ (d + 1) - 1 = d
    OBVIOUS
  <2> QED
    BY <1>4, <2>1, Zenon
<1> QED
  BY <1>3, <1>5, <1>6, Zenon

(* The hash that climbs a path. *)
Climbs(leaf, siblings, index, acc) ==
    /\ acc[0] = leaf
    /\ \A d \in Nat : acc[d + 1] = Paired(siblings, index, d + 1, acc[d])
    /\ merkle_root_from_proof(leaf, siblings, index) = acc[Len(siblings)]

(* The loop of merkle_root_from_proof is such a climb. *)
LEMMA ClimbSteps ==
    ASSUME NEW leaf, NEW siblings, NEW index
    PROVE  \E acc : Climbs(leaf, siblings, index, acc)
<1> DEFINE Is(f) == f = [d \in Nat |-> IF d = 0 THEN leaf ELSE Paired(siblings, index, d, f[d - 1])]
           G == CHOOSE f : Is(f)
<1>1. \E f : Is(f)
  <2> DEFINE loop == <<"climb", siblings, index>>
  <2>1. PICK f : IsLoop(loop, leaf, f)
    BY LoopExists, Zenon
  <2>2. \A d, x : Turn(loop, d, x) = Paired(siblings, index, d, x)
    BY DEF Turn
  <2> HIDE DEF loop
  <2>3. f = [d \in Nat |-> IF d = 0 THEN leaf ELSE Paired(siblings, index, d, f[d - 1])]
    BY <2>1, <2>2 DEF IsLoop
  <2> QED
    BY <2>3, Zenon
<1>2. Is(G)
  BY <1>1, Zenon
<1>3. merkle_root_from_proof(leaf, siblings, index) = G[Len(siblings)]
  BY Zenon DEF merkle_root_from_proof, Paired
<1> HIDE DEF G
<1>4. \A e \in Nat : G[e] = IF e = 0 THEN leaf ELSE Paired(siblings, index, e, G[e - 1])
  BY <1>2, Zenon
<1>5. G[0] = leaf
  BY <1>4
<1>6. ASSUME NEW d \in Nat
      PROVE  G[d + 1] = Paired(siblings, index, d + 1, G[d])
  <2>1. d + 1 \in Nat /\ d + 1 # 0 /\ (d + 1) - 1 = d
    OBVIOUS
  <2> QED
    BY <1>4, <2>1, Zenon
<1> QED
  <2>1. Climbs(leaf, siblings, index, G)
    BY <1>3, <1>5, <1>6, Zenon DEF Climbs
  <2> QED
    BY <2>1, Zenon

------------------------------------------------------------------------------
IsSeq(s) == \E S : s \in Seq(S)

NoLone(level) == \A i \in DOMAIN level : level[i] # LONE_NODE_SENTINEL

Nodes(level) == \A i \in DOMAIN level : \E l, r : level[i] = hash_transparency_node(l, r)

LeafList(s) ==
    /\ IsSeq(s)
    /\ NoLone(s)
    /\ \A i \in DOMAIN s : /\ s[i] # EmptyRoot
                           /\ \A l, r : s[i] # hash_transparency_node(l, r)

(* A sequence is a function on 1 .. Len. *)
LEMMA SeqFacts ==
    ASSUME NEW s, IsSeq(s)
    PROVE  Len(s) \in Nat /\ DOMAIN s = 1 .. Len(s) /\ s = [i \in 1 .. Len(s) |-> s[i]]
  BY DEF IsSeq

(* A function on 1 .. n is a sequence of length n. *)
LEMMA ListMade ==
    ASSUME NEW n \in Nat, NEW f, f = [k \in 1 .. n |-> f[k]]
    PROVE  IsSeq(f) /\ Len(f) = n
<1>1. f \in [1 .. n -> {f[k] : k \in 1 .. n}]
  BY Zenon
<1>2. f \in Seq({f[k] : k \in 1 .. n})
  BY <1>1
<1>3. Len(f) = n
  BY <1>1, <1>2, LenProperties
<1> QED
  BY <1>2, <1>3, Zenon DEF IsSeq

(* The level above: its length, and what each of its nodes is made of. *)
LEMMA NextLevelFacts ==
    ASSUME NEW s, IsSeq(s)
    PROVE  /\ IsSeq(NextLevel(s))
           /\ Len(NextLevel(s)) = (Len(s) + 1) \div 2
           /\ \A k \in 1 .. Len(NextLevel(s)) :
                 NextLevel(s)[k] =
                     hash_transparency_node(
                         s[2 * k - 1], IF 2 * k <= Len(s) THEN s[2 * k] ELSE LONE_NODE_SENTINEL)
<1> DEFINE n == (Len(s) + 1) \div 2
           f == NextLevel(s)
<1>1. n \in Nat
  BY SeqFacts
<1>2. f = [k \in 1 .. n |->
              hash_transparency_node(
                  s[2 * k - 1], IF 2 * k <= Len(s) THEN s[2 * k] ELSE LONE_NODE_SENTINEL)]
  BY DEF NextLevel
<1> HIDE DEF n, f
<1>3. f = [k \in 1 .. n |-> f[k]]
  BY <1>2, Zenon
<1>4. IsSeq(f) /\ Len(f) = n
  BY <1>1, <1>3, ListMade, Zenon
<1>5. \A k \in 1 .. n : f[k] =
          hash_transparency_node(
              s[2 * k - 1], IF 2 * k <= Len(s) THEN s[2 * k] ELSE LONE_NODE_SENTINEL)
  BY <1>2, Zenon
<1> QED
  BY <1>4, <1>5, Zenon DEF f, n

(* A node hash determines the two it was made of. *)
LEMMA NodeParts ==
    ASSUME NEW a, NEW b, NEW c, NEW d,
           hash_transparency_node(a, b) = hash_transparency_node(c, d)
    PROVE  a = c /\ b = d
  BY DEF hash_transparency_node

(* A node hash is neither the sentinel nor the empty root. *)
LEMMA NodeIsNew ==
    ASSUME NEW a, NEW b
    PROVE  /\ hash_transparency_node(a, b) # LONE_NODE_SENTINEL
           /\ hash_transparency_node(a, b) # EmptyRoot
  BY DEF hash_transparency_node, LONE_NODE_SENTINEL, EmptyRoot

(* The level above a level consists of nodes. *)
LEMMA NextLevelNodes ==
    ASSUME NEW s, IsSeq(s)
    PROVE  Nodes(NextLevel(s)) /\ NoLone(NextLevel(s))
<1>1. DOMAIN NextLevel(s) = 1 .. Len(NextLevel(s))
  BY NextLevelFacts, SeqFacts, Zenon
<1>2. ASSUME NEW k \in DOMAIN NextLevel(s)
      PROVE  \E l, r : NextLevel(s)[k] = hash_transparency_node(l, r)
  <2> DEFINE x == IF 2 * k <= Len(s) THEN s[2 * k] ELSE LONE_NODE_SENTINEL
  <2>1. NextLevel(s)[k] = hash_transparency_node(s[2 * k - 1], x)
    BY <1>1, NextLevelFacts, Zenon
  <2> HIDE DEF x
  <2> QED
    BY <2>1, Zenon
<1>3. Nodes(NextLevel(s))
  BY <1>2, Zenon DEF Nodes
<1> QED
  BY <1>3, NodeIsNew, Zenon DEF Nodes, NoLone

(* Two lengths with as many pairs: the longer one is even, the shorter odd. *)
LEMMA HalfUp ==
    ASSUME NEW m \in Nat, NEW n \in Nat, (m + 1) \div 2 = (n + 1) \div 2, m < n
    PROVE  LET k == (n + 1) \div 2
           IN  /\ k \in 1 .. (m + 1) \div 2
               /\ 2 * k \in 1 .. n /\ 2 * k <= n /\ ~(2 * k <= m)
  OBVIOUS

(* A level that ends in a lone node and a longer one have no level above in common. *)
LEMMA NextLevelShorter ==
    ASSUME NEW a, NEW b, IsSeq(a), IsSeq(b), NoLone(b),
           NextLevel(a) = NextLevel(b), Len(a) < Len(b)
    PROVE  FALSE
<1> DEFINE k == (Len(b) + 1) \div 2
<1>1. Len(a) \in Nat /\ Len(b) \in Nat /\ DOMAIN b = 1 .. Len(b)
  BY SeqFacts, Zenon
<1>2. (Len(a) + 1) \div 2 = (Len(b) + 1) \div 2
  BY NextLevelFacts, Zenon
<1>3. /\ k \in 1 .. Len(NextLevel(a)) /\ k \in 1 .. Len(NextLevel(b))
      /\ 2 * k \in DOMAIN b /\ 2 * k <= Len(b) /\ ~(2 * k <= Len(a))
  <2>1. /\ k \in 1 .. (Len(a) + 1) \div 2
        /\ 2 * k \in 1 .. Len(b) /\ 2 * k <= Len(b) /\ ~(2 * k <= Len(a))
    BY <1>1, <1>2, HalfUp, Zenon
  <2> QED
    BY <1>1, <1>2, <2>1, NextLevelFacts, Zenon
<1> HIDE DEF k
<1>4. NextLevel(a)[k] = hash_transparency_node(a[2 * k - 1], LONE_NODE_SENTINEL)
  BY <1>3, NextLevelFacts, Zenon
<1>5. NextLevel(b)[k] = hash_transparency_node(b[2 * k - 1], b[2 * k])
  BY <1>3, NextLevelFacts, Zenon
<1>6. b[2 * k] = LONE_NODE_SENTINEL
  <2>1. hash_transparency_node(a[2 * k - 1], LONE_NODE_SENTINEL)
            = hash_transparency_node(b[2 * k - 1], b[2 * k])
    BY <1>4, <1>5, Zenon
  <2> QED
    BY <2>1, NodeParts
<1> QED
  BY <1>3, <1>6, Zenon DEF NoLone

(* The level above determines the level: this is what LONE_NODE_SENTINEL is for. *)
LEMMA NextLevelInjective ==
    ASSUME NEW a, NEW b, IsSeq(a), IsSeq(b), NoLone(a), NoLone(b),
           NextLevel(a) = NextLevel(b)
    PROVE  a = b
<1>1. Len(a) \in Nat /\ Len(b) \in Nat
  BY SeqFacts, Zenon
<1>2. ~(Len(a) < Len(b)) /\ ~(Len(b) < Len(a))
  BY NextLevelShorter, Zenon
<1>3. Len(a) = Len(b)
  BY <1>1, <1>2, SMT
<1>4. ASSUME NEW i \in 1 .. Len(a)
      PROVE  a[i] = b[i]
  <2> DEFINE k == (i + 1) \div 2
  <2>1. /\ k \in 1 .. (Len(a) + 1) \div 2 /\ k \in Nat
        /\ i = 2 * k - 1 \/ (i = 2 * k /\ 2 * k <= Len(a))
    BY <1>1
  <2>2. k \in 1 .. Len(NextLevel(a)) /\ k \in 1 .. Len(NextLevel(b))
    BY <2>1, <1>3, NextLevelFacts, Zenon
  <2> HIDE DEF k
  <2>3. /\ NextLevel(a)[k] =
              hash_transparency_node(
                  a[2 * k - 1], IF 2 * k <= Len(a) THEN a[2 * k] ELSE LONE_NODE_SENTINEL)
        /\ NextLevel(b)[k] =
              hash_transparency_node(
                  b[2 * k - 1], IF 2 * k <= Len(b) THEN b[2 * k] ELSE LONE_NODE_SENTINEL)
    BY <2>2, NextLevelFacts, Zenon
  <2>4. /\ a[2 * k - 1] = b[2 * k - 1]
        /\ (IF 2 * k <= Len(a) THEN a[2 * k] ELSE LONE_NODE_SENTINEL)
               = (IF 2 * k <= Len(b) THEN b[2 * k] ELSE LONE_NODE_SENTINEL)
    <3> DEFINE x == IF 2 * k <= Len(a) THEN a[2 * k] ELSE LONE_NODE_SENTINEL
               y == IF 2 * k <= Len(b) THEN b[2 * k] ELSE LONE_NODE_SENTINEL
    <3>1. hash_transparency_node(a[2 * k - 1], x) = hash_transparency_node(b[2 * k - 1], y)
      BY <2>3, Zenon
    <3> HIDE DEF x, y
    <3>2. a[2 * k - 1] = b[2 * k - 1] /\ x = y
      BY <3>1, NodeParts
    <3> QED
      BY <3>2, Zenon DEF x, y
  <2> QED
    BY <1>3, <2>1, <2>4, Zenon
<1> QED
  BY <1>3, <1>4, SeqFacts

------------------------------------------------------------------------------
(* Every level is a sequence; levels shrink until one node is left. *)
LEMMA LevelFacts ==
    ASSUME NEW s, IsSeq(s)
    PROVE  \A d \in Nat : /\ IsSeq(Level(s, d))
                          /\ s # <<>> => Len(Level(s, d)) >= 1
                          /\ Len(Level(s, d)) <= 1 \/ Len(Level(s, d)) + d <= Len(s)
<1> DEFINE P(d) == /\ IsSeq(Level(s, d))
                   /\ s # <<>> => Len(Level(s, d)) >= 1
                   /\ Len(Level(s, d)) <= 1 \/ Len(Level(s, d)) + d <= Len(s)
           T == {d \in Nat : P(d)}
<1>1. 0 \in T
  <2>1. Level(s, 0) = s
    BY LevelSteps, Zenon
  <2>2. s # <<>> => Len(s) >= 1
    BY DEF IsSeq
  <2>3. Len(s) + 0 <= Len(s)
    BY SeqFacts
  <2> QED
    BY <2>1, <2>2, <2>3
<1>2. ASSUME NEW d \in T
      PROVE  d + 1 \in T
  <2>1. d \in Nat /\ P(d)
    BY <1>2
  <2> DEFINE n == Len(Level(s, d))
             m == Len(Level(s, d + 1))
  <2>2. Level(s, d + 1) = NextLevel(Level(s, d))
    BY <2>1, LevelSteps, Zenon
  <2>3. IsSeq(Level(s, d + 1)) /\ m = (n + 1) \div 2
    BY <2>1, <2>2, NextLevelFacts, Zenon
  <2>4. n \in Nat /\ Len(s) \in Nat
    BY <2>1, SeqFacts, Zenon
  <2>5. /\ s # <<>> => n >= 1
        /\ n <= 1 \/ n + d <= Len(s)
    BY <2>1, Zenon
  <2> HIDE DEF n, m
  <2>6. /\ s # <<>> => m >= 1
        /\ m <= 1 \/ m + (d + 1) <= Len(s)
    BY <2>1, <2>3, <2>4, <2>5
  <2>7. P(d + 1)
    BY <2>3, <2>6, Zenon DEF m
  <2> QED
    BY <2>1, <2>7
<1> HIDE DEF T
<1>3. T = Nat
  <2>1. T \subseteq Nat
    BY DEF T
  <2> QED
    BY <1>1, <1>2, <2>1, Induction, Zenon
<1> QED
  BY <1>3, Zenon DEF T

(* No level holds the sentinel, and above the leaves there are only nodes. *)
LEMMA LevelKinds ==
    ASSUME NEW s, LeafList(s), NEW d \in Nat
    PROVE  /\ NoLone(Level(s, d))
           /\ d # 0 => Nodes(Level(s, d))
<1>1. CASE d = 0
  BY <1>1, LevelSteps, Zenon DEF LeafList
<1>2. CASE d # 0
  <2>1. d - 1 \in Nat /\ (d - 1) + 1 = d
    BY <1>2
  <2>2. IsSeq(Level(s, d - 1))
    BY <2>1, LevelFacts, Zenon DEF LeafList
  <2>3. Level(s, d) = NextLevel(Level(s, d - 1))
    BY <2>1, LevelSteps
  <2> QED
    BY <2>2, <2>3, NextLevelNodes, Zenon
<1> QED
  BY <1>1, <1>2

(* The loop of merkle_root ends on a level of one node. *)
LEMMA DepthFacts ==
    ASSUME NEW s, IsSeq(s), s # <<>>
    PROVE  /\ Depth(s) \in Nat
           /\ Len(Level(s, Depth(s))) = 1
           /\ \A e \in 0 .. Depth(s) - 1 : Len(Level(s, e)) > 1
<1> DEFINE T == {d \in Nat : Len(Level(s, d)) <= 1}
<1>1. Len(s) \in Nat
  BY SeqFacts, Zenon
<1>2. \A d \in Nat : /\ Len(Level(s, d)) \in Nat
                     /\ Len(Level(s, d)) >= 1
                     /\ Len(Level(s, d)) <= 1 \/ Len(Level(s, d)) + d <= Len(s)
  BY LevelFacts, SeqFacts, Zenon
<1>3. Len(s) \in T
  BY <1>1, <1>2
<1>4. PICK d \in T : \A e \in T : d <= e
  <2>1. T \subseteq Nat /\ T # {}
    BY <1>3
  <2> HIDE DEF T
  <2> QED
    BY <2>1, Least, Zenon
<1>5. /\ d \in 0 .. Len(s)
      /\ Len(Level(s, d)) <= 1
      /\ \A e \in 0 .. d - 1 : Len(Level(s, e)) > 1
  <2>1. d \in Nat /\ d <= Len(s) /\ Len(Level(s, d)) <= 1
    BY <1>3, <1>4
  <2>2. ASSUME NEW e \in 0 .. d - 1
        PROVE  Len(Level(s, e)) > 1
    <3>1. e \in Nat /\ ~(d <= e)
      BY <2>1
    <3>2. e \notin T
      BY <1>4, <3>1, Zenon
    <3> QED
      BY <1>2, <3>1, <3>2
  <2> QED
    BY <1>1, <2>1, <2>2
<1>6. /\ Depth(s) \in 0 .. Len(s)
      /\ Len(Level(s, Depth(s))) <= 1
      /\ \A e \in 0 .. Depth(s) - 1 : Len(Level(s, e)) > 1
  BY <1>5, Zenon DEF Depth
<1>7. Depth(s) \in Nat
  BY <1>1, <1>6
<1>8. Len(Level(s, Depth(s))) = 1
  <2> DEFINE n == Len(Level(s, Depth(s)))
  <2>1. n \in Nat /\ n >= 1 /\ n <= 1
    BY <1>2, <1>6, <1>7, Zenon
  <2> HIDE DEF n
  <2>2. n = 1
    BY <2>1
  <2> QED
    BY <2>2 DEF n
<1> QED
  BY <1>6, <1>7, <1>8, Zenon

(* The root is the one node of that level. *)
LEMMA RootIs ==
    ASSUME NEW s, IsSeq(s), s # <<>>
    PROVE  /\ merkle_root(s) = Level(s, Depth(s))[1]
           /\ DOMAIN Level(s, Depth(s)) = {1}
           /\ Level(s, Depth(s)) = [i \in {1} |-> merkle_root(s)]
<1> DEFINE top == Level(s, Depth(s))
<1>1. merkle_root(s) = top[1]
  BY Zenon DEF merkle_root
<1>2. IsSeq(top) /\ Len(top) = 1
  BY DepthFacts, LevelFacts, Zenon
<1> HIDE DEF top
<1>3. 1 .. 1 = {1}
  OBVIOUS
<1>4. DOMAIN top = {1} /\ top = [i \in {1} |-> top[i]]
  BY <1>2, <1>3, SeqFacts
<1>5. top = [i \in {1} |-> top[1]]
  BY <1>4
<1> QED
  BY <1>1, <1>4, <1>5, Zenon DEF top

(* The root of a tree with leaves is not the empty root. *)
LEMMA RootNotEmpty ==
    ASSUME NEW s, LeafList(s), s # <<>>
    PROVE  merkle_root(s) # EmptyRoot
<1> DEFINE d == Depth(s)
<1>1. IsSeq(s)
  BY DEF LeafList
<1>2. d \in Nat /\ merkle_root(s) = Level(s, d)[1] /\ 1 \in DOMAIN Level(s, d)
  BY <1>1, DepthFacts, RootIs, Zenon
<1> HIDE DEF d
<1>3. CASE d = 0
  BY <1>2, <1>3, LevelSteps, Zenon DEF LeafList
<1>4. CASE d # 0
  <2>1. Nodes(Level(s, d))
    BY <1>2, <1>4, LevelKinds, Zenon
  <2>2. PICK l, r : Level(s, d)[1] = hash_transparency_node(l, r)
    BY <1>2, <2>1, Zenon DEF Nodes
  <2> QED
    BY <1>2, <2>2, NodeIsNew, Zenon
<1> QED
  BY <1>3, <1>4

------------------------------------------------------------------------------
(* Two trees that agree on a level agree on the level below. *)
LEMMA LevelsAgreeDownwards ==
    ASSUME NEW s, NEW t, LeafList(s), LeafList(t), NEW d \in Nat, NEW e \in Nat,
           Level(s, d + 1) = Level(t, e + 1)
    PROVE  Level(s, d) = Level(t, e)
<1>1. /\ Level(s, d + 1) = NextLevel(Level(s, d))
      /\ Level(t, e + 1) = NextLevel(Level(t, e))
  BY LevelSteps, Zenon
<1>2. /\ IsSeq(Level(s, d)) /\ NoLone(Level(s, d))
      /\ IsSeq(Level(t, e)) /\ NoLone(Level(t, e))
  BY LevelFacts, LevelKinds, Zenon DEF LeafList
<1> QED
  BY <1>1, <1>2, NextLevelInjective, Zenon

(* Two trees that agree on a level agree on all levels below, as far as both have them. *)
LEMMA TopsAgree ==
    ASSUME NEW s, NEW t, LeafList(s), LeafList(t), NEW d \in Nat, NEW e \in Nat,
           Level(s, d) = Level(t, e)
    PROVE  \A k \in Nat : k <= d /\ k <= e => Level(s, d - k) = Level(t, e - k)
<1> DEFINE T == {k \in Nat : k <= d /\ k <= e => Level(s, d - k) = Level(t, e - k)}
<1>1. 0 \in T
  <2>1. d - 0 = d /\ e - 0 = e
    OBVIOUS
  <2> QED
    BY <2>1
<1>2. ASSUME NEW k \in T
      PROVE  k + 1 \in T
  <2>1. k \in Nat /\ (k <= d /\ k <= e => Level(s, d - k) = Level(t, e - k))
    BY <1>2
  <2>2. CASE k + 1 <= d /\ k + 1 <= e
    <3>1. /\ d - (k + 1) \in Nat /\ (d - (k + 1)) + 1 = d - k
          /\ e - (k + 1) \in Nat /\ (e - (k + 1)) + 1 = e - k
          /\ k <= d /\ k <= e
      BY <2>1, <2>2
    <3>2. Level(s, d - (k + 1)) = Level(t, e - (k + 1))
      <4>1. Level(s, (d - (k + 1)) + 1) = Level(t, (e - (k + 1)) + 1)
        BY <2>1, <3>1
      <4> QED
        BY <3>1, <4>1, LevelsAgreeDownwards
    <3> QED
      BY <2>1, <3>2
  <2> QED
    BY <2>1, <2>2
<1> HIDE DEF T
<1>3. T = Nat
  <2>1. T \subseteq Nat
    BY DEF T
  <2> QED
    BY <1>1, <1>2, <2>1, Induction, Zenon
<1> QED
  BY <1>3, Zenon DEF T

(* Trees with one root have the same leaves: leaves are no nodes, so none is deeper. *)
LEMMA RootsBindDeeper ==
    ASSUME NEW s, NEW t, LeafList(s), LeafList(t), s # <<>>, t # <<>>,
           merkle_root(s) = merkle_root(t), Depth(s) <= Depth(t)
    PROVE  s = t
<1>1. IsSeq(s) /\ IsSeq(t)
  BY DEF LeafList
<1> DEFINE d == Depth(s)
           e == Depth(t)
<1>2. d \in Nat /\ e \in Nat /\ Level(s, d) = Level(t, e)
  BY <1>1, DepthFacts, RootIs, Zenon
<1>3. d <= e
  OBVIOUS
<1> HIDE DEF d, e
<1>4. Level(s, d - d) = Level(t, e - d)
  <2>1. d <= d
    BY <1>2
  <2> QED
    BY <1>2, <1>3, <2>1, TopsAgree
<1>5. d - d = 0 /\ e - d \in Nat
  BY <1>2, <1>3
<1>6. s = Level(t, e - d)
  BY <1>4, <1>5, LevelSteps
<1>7. CASE e - d = 0
  BY <1>6, <1>7, LevelSteps
<1>8. CASE e - d # 0
  <2>1. 1 \in DOMAIN s
    BY <1>1 DEF IsSeq
  <2>2. Nodes(s)
    BY <1>5, <1>6, <1>8, LevelKinds
  <2> QED
    BY <2>1, <2>2, Zenon DEF Nodes, LeafList
<1> QED
  BY <1>7, <1>8, Zenon

(***************************************************************************)
(* merkle_root binds: two lists of leaf hashes have the same root only if  *)
(* they are equal, whatever their lengths.                                 *)
(***************************************************************************)
LEMMA MerkleRootBinds ==
    ASSUME NEW s, NEW t, LeafList(s), LeafList(t), merkle_root(s) = merkle_root(t)
    PROVE  s = t
<1>1. CASE s = <<>> \/ t = <<>>
  BY <1>1, RootNotEmpty, Zenon DEF merkle_root
<1>2. CASE s # <<>> /\ t # <<>>
  <2>1. Depth(s) \in Nat /\ Depth(t) \in Nat
    BY <1>2, DepthFacts, Zenon DEF LeafList
  <2>2. Depth(s) <= Depth(t) \/ Depth(t) <= Depth(s)
    BY <2>1
  <2> QED
    BY <1>2, <2>2, RootsBindDeeper, Zenon
<1> QED
  BY <1>1, <1>2, Zenon

------------------------------------------------------------------------------
(* On every level the index is that of the node above the leaf. *)
LEMMA IndexInLevel ==
    ASSUME NEW s, IsSeq(s), NEW index \in 0 .. Len(s) - 1
    PROVE  \A d \in Nat : IndexAt(index, d) \in 0 .. Len(Level(s, d)) - 1
<1> DEFINE T == {d \in Nat : IndexAt(index, d) \in 0 .. Len(Level(s, d)) - 1}
<1>1. 0 \in T
  <2>1. IndexAt(index, 0) = index /\ Level(s, 0) = s
    BY IndexSteps, LevelSteps, Zenon
  <2> QED
    BY <2>1
<1>2. ASSUME NEW d \in T
      PROVE  d + 1 \in T
  <2> DEFINE i == IndexAt(index, d)
             n == Len(Level(s, d))
  <2>1. d \in Nat /\ i \in 0 .. n - 1
    BY <1>2
  <2>2. IsSeq(Level(s, d)) /\ n \in Nat
    BY <2>1, LevelFacts, SeqFacts, Zenon
  <2>3. IndexAt(index, d + 1) = i \div 2
    BY <2>1, IndexSteps, Zenon DEF next_merkle_index
  <2>4. Len(Level(s, d + 1)) = (n + 1) \div 2
    BY <2>1, <2>2, LevelSteps, NextLevelFacts, Zenon
  <2> HIDE DEF i, n
  <2>5. i \div 2 \in 0 .. ((n + 1) \div 2) - 1
    BY <2>1, <2>2
  <2>6. IndexAt(index, d + 1) \in 0 .. Len(Level(s, d + 1)) - 1
    BY <2>3, <2>4, <2>5, Zenon
  <2> QED
    BY <2>1, <2>6
<1> HIDE DEF T
<1>3. T = Nat
  <2>1. T \subseteq Nat
    BY DEF T
  <2> QED
    BY <1>1, <1>2, <2>1, Induction, Zenon
<1> QED
  BY <1>3, Zenon DEF T

(* A node and its sibling, in the order of their positions, make the node above. *)
LEMMA PairedIsAbove ==
    ASSUME NEW level, IsSeq(level), NEW i \in 0 .. Len(level) - 1
    PROVE  NextLevel(level)[(i \div 2) + 1] =
               IF merkle_sibling_is_right(i)
               THEN hash_transparency_node(level[i + 1], Sibling(level, i))
               ELSE hash_transparency_node(Sibling(level, i), level[i + 1])
<1> DEFINE n == Len(level)
           k == (i \div 2) + 1
<1>1. n \in Nat
  BY SeqFacts, Zenon
<1>2. k \in 1 .. (n + 1) \div 2 /\ k \in Nat
  BY <1>1
<1>3. NextLevel(level)[k] =
          hash_transparency_node(
              level[2 * k - 1], IF 2 * k <= n THEN level[2 * k] ELSE LONE_NODE_SENTINEL)
  <2>1. k \in 1 .. Len(NextLevel(level))
    BY <1>2, NextLevelFacts
  <2> QED
    BY <2>1, NextLevelFacts
<1>4. CASE merkle_sibling_is_right(i)
  <2>1. i % 2 = 0
    BY <1>4 DEF merkle_sibling_is_right
  <2>2. 2 * k - 1 = i + 1 /\ 2 * k = i + 2 /\ (2 * k <= n <=> i + 1 < n)
    BY <1>1, <2>1
  <2>3. Sibling(level, i) = IF 2 * k <= n THEN level[2 * k] ELSE LONE_NODE_SENTINEL
    BY <1>4, <2>2 DEF Sibling
  <2> HIDE DEF n, k
  <2> QED
    BY <1>3, <1>4, <2>2, <2>3, Zenon DEF k
<1>5. CASE ~merkle_sibling_is_right(i)
  <2>1. i % 2 # 0
    BY <1>5 DEF merkle_sibling_is_right
  <2>2. 2 * k - 1 = i /\ 2 * k = i + 1 /\ 2 * k <= n
    BY <1>1, <2>1
  <2>3. Sibling(level, i) = level[i]
    BY <1>5, Zenon DEF Sibling
  <2> HIDE DEF n, k
  <2> QED
    BY <1>3, <1>5, <2>2, <2>3, Zenon DEF k
<1> QED
  BY <1>4, <1>5, Zenon

(***************************************************************************)
(* A path drawn from a tree leads from its leaf to the tree's root.        *)
(***************************************************************************)
LEMMA PathLeadsToRoot ==
    ASSUME NEW s, IsSeq(s), NEW index \in 0 .. Len(s) - 1
    PROVE  merkle_root_from_proof(s[index + 1], merkle_proof_for_index(s, index), index)
               = merkle_root(s)
<1> DEFINE path == merkle_proof_for_index(s, index)
           D == Depth(s)
<1>1. s # <<>> /\ ~(index >= Len(s)) /\ Len(s) \in Nat
  BY SeqFacts
<1>2. D \in Nat /\ Len(Level(s, D)) = 1 /\ merkle_root(s) = Level(s, D)[1]
  BY <1>1, DepthFacts, RootIs, Zenon
<1>3. path = [d \in 1 .. D |-> Sibling(Level(s, d - 1), IndexAt(index, d - 1))]
  BY <1>1, Zenon DEF merkle_proof_for_index
<1> HIDE DEF path, D
<1>4. \A d \in 1 .. D : path[d] = Sibling(Level(s, d - 1), IndexAt(index, d - 1))
  BY <1>3, Zenon
<1>5. Len(path) = D
  <2>1. path = [d \in 1 .. D |-> path[d]]
    BY <1>3, Zenon
  <2> QED
    BY <1>2, <2>1, ListMade, Zenon
<1>6. PICK acc : Climbs(s[index + 1], path, index, acc)
  BY ClimbSteps, Zenon
<1> DEFINE T == {d \in Nat : d <= D => acc[d] = Level(s, d)[IndexAt(index, d) + 1]}
<1>7. 0 \in T
  <2>1. IndexAt(index, 0) = index /\ Level(s, 0) = s
    BY IndexSteps, LevelSteps, Zenon
  <2> QED
    BY <1>6, <2>1, Zenon DEF Climbs
<1>8. ASSUME NEW d \in T
      PROVE  d + 1 \in T
  <2> DEFINE i == IndexAt(index, d)
             level == Level(s, d)
  <2>1. d \in Nat /\ (d <= D => acc[d] = level[i + 1])
    BY <1>8
  <2>2. CASE d + 1 <= D
    <3>1. d + 1 \in 1 .. D /\ (d + 1) - 1 = d /\ d <= D
      BY <1>2, <2>1, <2>2
    <3>2. path[d + 1] = Sibling(level, i)
      BY <1>4, <3>1
    <3>3. acc[d + 1] = IF merkle_sibling_is_right(i)
                       THEN hash_transparency_node(acc[d], path[d + 1])
                       ELSE hash_transparency_node(path[d + 1], acc[d])
      <4>1. acc[d + 1] = Paired(path, index, d + 1, acc[d])
        BY <1>6, <2>1, Zenon DEF Climbs
      <4> QED
        BY <3>1, <4>1 DEF Paired
    <3>4. IsSeq(level) /\ i \in 0 .. Len(level) - 1
      BY <2>1, LevelFacts, IndexInLevel, Zenon
    <3>5. Level(s, d + 1) = NextLevel(level) /\ IndexAt(index, d + 1) = i \div 2
      BY <2>1, LevelSteps, IndexSteps, Zenon DEF next_merkle_index
    <3> HIDE DEF i, level
    <3>6. acc[d + 1] = NextLevel(level)[(i \div 2) + 1]
      <4>1. NextLevel(level)[(i \div 2) + 1] =
                IF merkle_sibling_is_right(i)
                THEN hash_transparency_node(level[i + 1], Sibling(level, i))
                ELSE hash_transparency_node(Sibling(level, i), level[i + 1])
        BY <3>4, PairedIsAbove, Zenon
      <4>2. acc[d] = level[i + 1]
        BY <2>1, <3>1, Zenon
      <4> QED
        BY <3>2, <3>3, <4>1, <4>2
    <3>7. acc[d + 1] = Level(s, d + 1)[IndexAt(index, d + 1) + 1]
      BY <3>5, <3>6, Zenon
    <3> QED
      BY <2>1, <3>7
  <2> QED
    BY <2>1, <2>2
<1> HIDE DEF T
<1>9. T = Nat
  <2>1. T \subseteq Nat
    BY DEF T
  <2> QED
    BY <1>7, <1>8, <2>1, Induction, Zenon
<1>10. acc[D] = Level(s, D)[IndexAt(index, D) + 1]
  <2>1. D <= D
    BY <1>2
  <2> QED
    BY <1>2, <1>9, <2>1, Zenon DEF T
<1>11. IndexAt(index, D) + 1 = 1
  <2>1. IndexAt(index, D) \in 0 .. Len(Level(s, D)) - 1
    BY <1>2, IndexInLevel, Zenon
  <2> QED
    BY <1>2, <2>1
<1> QED
  BY <1>2, <1>5, <1>6, <1>10, <1>11, Zenon DEF path, Climbs

------------------------------------------------------------------------------
(***************************************************************************)
(* The lists of the tree.                                                  *)
(***************************************************************************)
Sorted(list) == \A i, j \in DOMAIN list : i < j => list[i] < list[j]

StampList(list) == list \in Seq(Stamp) /\ Sorted(list)

LeafHash == {"leaf"} \X Capability

TreeInv ==
    /\ leaf_hashes \in Seq(LeafHash)
    /\ \A i, j \in DOMAIN leaf_hashes : leaf_hashes[i] = leaf_hashes[j] => i = j
    /\ StampList(revoked_stamps)
    /\ \A old \in pastLeaves : old \in Seq(LeafHash)
    /\ \A old \in pastRevoked :
          StampList(old) /\ \A i \in DOMAIN old : Contains(revoked_stamps, old[i])

(* Stamps are numbers. *)
LEMMA StampListFacts ==
    ASSUME NEW list, StampList(list), NEW x \in Stamp
    PROVE  /\ Len(list) \in Nat /\ DOMAIN list = 1 .. Len(list)
           /\ \A i \in 1 .. Len(list) : list[i] \in Stamp /\ list[i] \in Nat
           /\ x \in Nat
<1>1. list \in Seq(Stamp)
  BY Zenon DEF StampList
<1>2. Len(list) \in Nat /\ DOMAIN list = 1 .. Len(list)
  BY <1>1
<1>3. \A i \in 1 .. Len(list) : list[i] \in Stamp
  BY <1>1, <1>2, ElementOfSeq
<1>4. \A y \in Stamp : y \in Nat
  BY OrderAssumption, Zenon
<1> QED
  BY <1>2, <1>3, <1>4, Zenon

(* The stamps below a stamp come first, and partition_point counts them. *)
LEMMA PartitionPoint ==
    ASSUME NEW list, StampList(list), NEW x \in Stamp
    PROVE  /\ partition_point(list, x) \in 0 .. Len(list)
           /\ \A i \in 1 .. Len(list) : i <= partition_point(list, x) <=> list[i] < x
<1>1. /\ Len(list) \in Nat /\ DOMAIN list = 1 .. Len(list)
      /\ \A i \in 1 .. Len(list) : list[i] \in Nat
      /\ x \in Nat
  BY StampListFacts, Zenon
<1> DEFINE n == Len(list)
           T == {i \in 1 .. n + 1 : i = n + 1 \/ ~(list[i] < x)}
<1>2. PICK m \in T : \A i \in T : m <= i
  <2>1. T \subseteq Nat /\ T # {}
    BY <1>1
  <2> HIDE DEF T
  <2> QED
    BY <2>1, Least, Zenon
<1>3. m \in 1 .. n + 1
  BY <1>2
<1>4. ASSUME NEW i \in 1 .. n
      PROVE  i <= m - 1 <=> list[i] < x
  <2>1. CASE i <= m - 1
    <3>1. i \notin T
      BY <1>1, <1>2, <1>3, <2>1
    <3> QED
      BY <1>1, <2>1, <3>1
  <2>2. CASE ~(i <= m - 1)
    <3>1. m \in 1 .. n /\ m <= i
      BY <1>1, <1>3, <2>2
    <3>2. ~(list[m] < x)
      BY <1>1, <1>2, <3>1
    <3>3. list[m] <= list[i]
      <4>1. CASE m = i
        BY <1>1, <3>1, <4>1
      <4>2. CASE m # i
        <5>1. m < i
          BY <1>1, <3>1, <4>2
        <5>2. list[m] < list[i]
          BY <1>1, <3>1, <5>1, Zenon DEF StampList, Sorted
        <5> QED
          BY <1>1, <3>1, <5>2
      <4> QED
        BY <4>1, <4>2
    <3> QED
      BY <1>1, <2>2, <3>1, <3>2, <3>3
  <2> QED
    BY <2>1, <2>2
<1>5. {i \in DOMAIN list : list[i] < x} = 1 .. m - 1
  BY <1>1, <1>3, <1>4
<1>6. Cardinality(1 .. m - 1) = m - 1
  <2>1. m - 1 \in Nat
    BY <1>1, <1>3
  <2>2. Cardinality(1 .. m - 1) = IF 1 > m - 1 THEN 0 ELSE (m - 1) - 1 + 1
    BY <2>1, FS_Interval
  <2> QED
    BY <2>1, <2>2
<1>7. partition_point(list, x) = m - 1
  BY <1>5, <1>6, Zenon DEF partition_point
<1> QED
  BY <1>1, <1>3, <1>4, <1>7

(* revoke_stamp finds a stamp where the partition point is, or nowhere. *)
LEMMA FoundAtPoint ==
    ASSUME NEW list, StampList(list), NEW x \in Stamp
    PROVE  Contains(list, x)
               <=> /\ partition_point(list, x) < Len(list)
                   /\ list[partition_point(list, x) + 1] = x
<1> DEFINE k == partition_point(list, x)
           n == Len(list)
<1>1. /\ n \in Nat /\ DOMAIN list = 1 .. n
      /\ \A i \in 1 .. n : list[i] \in Nat
      /\ x \in Nat
  BY StampListFacts, Zenon
<1>2. k \in 0 .. n /\ \A i \in 1 .. n : i <= k <=> list[i] < x
  BY PartitionPoint, Zenon
<1> HIDE DEF k
<1>3. ASSUME k < n, list[k + 1] = x
      PROVE  Contains(list, x)
  <2>1. k + 1 \in DOMAIN list
    BY <1>1, <1>2, <1>3
  <2> QED
    BY <1>3, <2>1, Zenon DEF Contains
<1>4. ASSUME Contains(list, x)
      PROVE  k < n /\ list[k + 1] = x
  <2>1. PICK j \in 1 .. n : list[j] = x
    BY <1>1, <1>4 DEF Contains
  <2>2. ~(j <= k)
    BY <1>1, <1>2, <2>1
  <2>3. k + 1 \in 1 .. n /\ k < n
    BY <1>1, <1>2, <2>2
  <2>4. ~(list[k + 1] < x)
    BY <1>1, <1>2, <2>3
  <2>5. ~(k + 1 < j)
    BY <1>1, <2>1, <2>3, <2>4, Zenon DEF StampList, Sorted
  <2>6. j = k + 1
    BY <1>1, <1>2, <2>1, <2>2, <2>5
  <2> QED
    BY <2>1, <2>3, <2>6
<1> QED
  BY <1>3, <1>4, Zenon DEF k

(* Inserting an absent stamp at the partition point keeps the order. *)
LEMMA InsertKeepsOrder ==
    ASSUME NEW list, StampList(list), NEW x \in Stamp, ~Contains(list, x)
    PROVE  LET new == InsertedAt(list, partition_point(list, x), x)
           IN  /\ StampList(new)
               /\ \A i \in DOMAIN list : Contains(new, list[i])
               /\ Contains(new, x)
<1> DEFINE k == partition_point(list, x)
           n == Len(list)
           new == InsertedAt(list, k, x)
<1>1. /\ n \in Nat /\ DOMAIN list = 1 .. n
      /\ \A i \in 1 .. n : list[i] \in Stamp /\ list[i] \in Nat
      /\ x \in Nat
  BY StampListFacts, Zenon
<1>2. k \in 0 .. n /\ \A i \in 1 .. n : i <= k <=> list[i] < x
  BY PartitionPoint, Zenon
<1> HIDE DEF k
<1>3. new = [i \in 1 .. n + 1 |->
                CASE i <= k     -> list[i]
                  [] i = k + 1  -> x
                  [] i > k + 1  -> list[i - 1]]
  BY DEF InsertedAt
<1> HIDE DEF new, n
<1>4. /\ \A i \in 1 .. n + 1 : i <= k => new[i] = list[i]
      /\ new[k + 1] = x
      /\ \A i \in 1 .. n + 1 : i > k + 1 => new[i] = list[i - 1]
  BY <1>1, <1>2, <1>3
<1>5. /\ new \in Seq(Stamp) /\ DOMAIN new = 1 .. n + 1
      /\ \A i \in 1 .. n + 1 : new[i] \in Stamp
  <2>1. ASSUME NEW i \in 1 .. n + 1
        PROVE  new[i] \in Stamp
    <3>1. i <= k \/ i = k + 1 \/ i > k + 1
      BY <1>1, <1>2
    <3> QED
      BY <1>1, <1>2, <1>4, <3>1
  <2>2. new \in [1 .. n + 1 -> Stamp]
    BY <1>3, <2>1, Zenon
  <2> QED
    BY <1>1, <2>1, <2>2
<1>6. ASSUME NEW i \in 1 .. n + 1, NEW j \in 1 .. n + 1, i < j
      PROVE  new[i] < new[j]
  <2>1. \A a, b \in 1 .. n : a < b => list[a] < list[b]
    BY <1>1, Zenon DEF StampList, Sorted
  <2>2. \A a \in 1 .. n : ~(a <= k) => x < list[a]
    <3> SUFFICES ASSUME NEW a \in 1 .. n, ~(a <= k)
                 PROVE  x < list[a]
      OBVIOUS
    <3>1. ~(list[a] < x)
      BY <1>2
    <3>2. list[a] # x
      BY <1>1, Zenon DEF Contains
    <3> QED
      BY <1>1, <3>1, <3>2
  <2>3. CASE j <= k
    BY <1>1, <1>2, <1>4, <1>6, <2>1, <2>3
  <2>4. CASE j = k + 1
    <3>1. i \in 1 .. n /\ i <= k
      BY <1>1, <1>2, <1>6, <2>4
    <3> QED
      BY <1>2, <1>4, <2>4, <3>1
  <2>5. CASE j > k + 1
    <3>1. new[j] = list[j - 1] /\ j - 1 \in 1 .. n /\ ~(j - 1 <= k)
      BY <1>1, <1>2, <1>4, <2>5
    <3>2. CASE i <= k
      <4>1. i \in 1 .. n /\ i < j - 1 /\ new[i] = list[i]
        BY <1>1, <1>2, <1>4, <2>5, <3>2
      <4> QED
        BY <2>1, <3>1, <4>1, Zenon
    <3>3. CASE i = k + 1
      BY <1>4, <2>2, <3>1, <3>3, Zenon
    <3>4. CASE i > k + 1
      <4>1. i - 1 \in 1 .. n /\ i - 1 < j - 1 /\ new[i] = list[i - 1]
        BY <1>1, <1>2, <1>4, <1>6, <3>4
      <4> QED
        BY <2>1, <3>1, <4>1, Zenon
    <3> QED
      BY <1>1, <1>2, <3>2, <3>3, <3>4
  <2> QED
    BY <1>1, <1>2, <2>3, <2>4, <2>5
<1>7. StampList(new)
  BY <1>5, <1>6, Zenon DEF StampList, Sorted
<1>8. ASSUME NEW i \in DOMAIN list
      PROVE  Contains(new, list[i])
  <2>1. CASE i <= k
    <3>1. i \in DOMAIN new /\ new[i] = list[i]
      BY <1>1, <1>2, <1>4, <1>5, <2>1
    <3> QED
      BY <3>1, Zenon DEF Contains
  <2>2. CASE ~(i <= k)
    <3>1. i + 1 \in DOMAIN new /\ new[i + 1] = list[i]
      <4>1. i + 1 \in 1 .. n + 1 /\ i + 1 > k + 1 /\ (i + 1) - 1 = i
        BY <1>1, <1>2, <2>2
      <4> QED
        BY <1>4, <1>5, <4>1
    <3> QED
      BY <3>1, Zenon DEF Contains
  <2> QED
    BY <2>1, <2>2
<1>9. Contains(new, x)
  <2>1. k + 1 \in DOMAIN new
    BY <1>1, <1>2, <1>5
  <2> QED
    BY <1>4, <2>1, Zenon DEF Contains
<1> QED
  BY <1>7, <1>8, <1>9, Zenon DEF new, k

------------------------------------------------------------------------------
(* The empty tree satisfies the invariant. *)
LEMMA TreeInvInit == Init => TreeInv
<1> SUFFICES ASSUME Init
             PROVE  TreeInv
  OBVIOUS
<1>1. \A S : <<>> \in Seq(S) /\ DOMAIN <<>> = {}
  OBVIOUS
<1>2. StampList(<<>>)
  BY <1>1, Zenon DEF StampList, Sorted
<1> QED
  BY <1>1, <1>2, Zenon DEF Init, TreeInv

(* add_capability keeps L_e free of duplicates. *)
LEMMA AddKeepsInv ==
    ASSUME TreeInv, NEW cap \in Capability, add_capability(cap)
    PROVE  TreeInv'
<1> DEFINE hash == capability_leaf_hash(cap)
<1>1. hash \in LeafHash
  BY DEF capability_leaf_hash, LeafHash
<1>2. UNCHANGED <<revoked_stamps, pastRevoked>> /\ pastLeaves' = pastLeaves \cup {leaf_hashes'}
  BY Zenon DEF add_capability
<1>3. leaf_hashes \in Seq(LeafHash)
  BY Zenon DEF TreeInv
<1>4. CASE Contains(leaf_hashes, hash)
  <2>1. leaf_hashes' = leaf_hashes
    BY <1>4, Zenon DEF add_capability
  <2> QED
    BY <1>2, <1>3, <2>1, Zenon DEF TreeInv, StampList, Sorted, Contains
<1>5. CASE ~Contains(leaf_hashes, hash)
  <2>1. leaf_hashes' = Append(leaf_hashes, hash)
    BY <1>5, Zenon DEF add_capability
  <2> HIDE DEF hash
  <2>2. /\ leaf_hashes' \in Seq(LeafHash)
        /\ Len(leaf_hashes) \in Nat
        /\ DOMAIN leaf_hashes = 1 .. Len(leaf_hashes)
        /\ DOMAIN leaf_hashes' = 1 .. Len(leaf_hashes) + 1
        /\ leaf_hashes'[Len(leaf_hashes) + 1] = hash
        /\ \A i \in 1 .. Len(leaf_hashes) : leaf_hashes'[i] = leaf_hashes[i]
    BY <1>1, <1>3, <2>1
  <2>3. ASSUME NEW i \in DOMAIN leaf_hashes', NEW j \in DOMAIN leaf_hashes',
               leaf_hashes'[i] = leaf_hashes'[j]
        PROVE  i = j
    <3>1. \A k \in DOMAIN leaf_hashes : leaf_hashes[k] # hash
      BY <1>5, Zenon DEF Contains
    <3>2. \A k, l \in DOMAIN leaf_hashes : leaf_hashes[k] = leaf_hashes[l] => k = l
      BY Zenon DEF TreeInv
    <3>3. \A k \in DOMAIN leaf_hashes' : k \in DOMAIN leaf_hashes \/ k = Len(leaf_hashes) + 1
      BY <2>2
    <3> QED
      BY <2>2, <2>3, <3>1, <3>2, <3>3, Zenon
  <2>4. \A old \in pastLeaves' : old \in Seq(LeafHash)
    BY <1>2, <2>2, Zenon DEF TreeInv
  <2>5. (\A i, j \in DOMAIN leaf_hashes : leaf_hashes[i] = leaf_hashes[j] => i = j)'
    BY <2>3, Zenon
  <2>6. /\ StampList(revoked_stamps)'
        /\ (\A old \in pastRevoked :
               StampList(old) /\ \A i \in DOMAIN old : Contains(revoked_stamps, old[i]))'
    BY <1>2, Zenon DEF TreeInv, StampList, Sorted, Contains
  <2> QED
    BY <2>2, <2>4, <2>5, <2>6, Zenon DEF TreeInv, LeafHash
<1> QED
  BY <1>4, <1>5, Zenon

(* revoke_stamp keeps V_e ascending and every stamp revoked before in it. *)
LEMMA RevokeKeepsInv ==
    ASSUME TreeInv, NEW stamp \in Revocable, revoke_stamp(stamp)
    PROVE  TreeInv'
<1> DEFINE pos == partition_point(revoked_stamps, stamp)
<1>1. stamp \in Stamp
  BY OrderAssumption, Zenon
<1>2. StampList(revoked_stamps)
  BY Zenon DEF TreeInv
<1>3. UNCHANGED <<leaf_hashes, pastLeaves>> /\ pastRevoked' = pastRevoked \cup {revoked_stamps'}
  BY Zenon DEF revoke_stamp
<1>4. revoked_stamps' = IF Contains(revoked_stamps, stamp)
                        THEN revoked_stamps
                        ELSE InsertedAt(revoked_stamps, pos, stamp)
  BY <1>1, <1>2, FoundAtPoint, Zenon DEF revoke_stamp
<1>5. /\ StampList(revoked_stamps')
      /\ \A i \in DOMAIN revoked_stamps : Contains(revoked_stamps', revoked_stamps[i])
  <2>1. CASE Contains(revoked_stamps, stamp)
    BY <1>2, <1>4, <2>1, Zenon DEF Contains
  <2>2. CASE ~Contains(revoked_stamps, stamp)
    BY <1>1, <1>2, <1>4, <2>2, InsertKeepsOrder, Zenon
  <2> QED
    BY <2>1, <2>2, Zenon
<1>6. ASSUME NEW old \in pastRevoked'
      PROVE  StampList(old) /\ \A i \in DOMAIN old : Contains(revoked_stamps', old[i])
  <2>1. CASE old = revoked_stamps'
    BY <1>5, <2>1, Zenon DEF Contains
  <2>2. CASE old \in pastRevoked
    <3>1. StampList(old) /\ \A i \in DOMAIN old : Contains(revoked_stamps, old[i])
      BY <2>2, Zenon DEF TreeInv
    <3> QED
      BY <1>5, <3>1, Zenon DEF Contains
  <2> QED
    BY <1>3, <2>1, <2>2, Zenon
<1>7. StampList(revoked_stamps)'
  BY <1>5, Zenon DEF StampList, Sorted
<1>8. (\A old \in pastRevoked :
          StampList(old) /\ \A i \in DOMAIN old : Contains(revoked_stamps, old[i]))'
  BY <1>6, Zenon DEF StampList, Sorted, Contains
<1> QED
  BY <1>3, <1>7, <1>8, Zenon DEF TreeInv

(***************************************************************************)
(* The invariant: L_e has no duplicates, V_e is strictly ascending, and    *)
(* what was ever revoked still is (add_capability, revoke_stamp).          *)
(***************************************************************************)
THEOREM TreeInvariant == Spec => []TreeInv
<1>1. TreeInv /\ [Next]_vars => TreeInv'
  <2> SUFFICES ASSUME TreeInv, [Next]_vars
               PROVE  TreeInv'
    OBVIOUS
  <2>1. ASSUME NEW cap \in Capability, add_capability(cap)
        PROVE  TreeInv'
    BY <2>1, AddKeepsInv, Zenon
  <2>2. ASSUME NEW stamp \in Revocable, revoke_stamp(stamp)
        PROVE  TreeInv'
    BY <2>2, RevokeKeepsInv, Zenon
  <2>3. CASE UNCHANGED vars
    BY <2>3, Zenon DEF vars, TreeInv, StampList, Sorted, Contains
  <2> QED
    BY <2>1, <2>2, <2>3, Zenon DEF Next
<1> QED
  BY TreeInvInit, <1>1, PTL DEF Spec

(***************************************************************************)
(* add_capability and revoke_stamp keep L_e free of duplicates and V_e     *)
(* strictly ascending, for any capabilities and stamps in any order.       *)
(***************************************************************************)
THEOREM ListsStayCanonical == Spec => []ListsCanonical
<1>1. TreeInv => ListsCanonical
  BY Zenon DEF TreeInv, ListsCanonical, StampList, Sorted
<1> QED
  BY TreeInvariant, <1>1, PTL

------------------------------------------------------------------------------
(* Capability leaf hashes are told apart from nodes and from the sentinel. *)
LEMMA LeavesAreLeaves ==
    ASSUME NEW s \in Seq(LeafHash)
    PROVE  LeafList(s)
<1>1. IsSeq(s)
  BY Zenon DEF IsSeq
<1>2. \A h \in LeafHash : /\ h # LONE_NODE_SENTINEL /\ h # EmptyRoot
                          /\ \A l, r : h # hash_transparency_node(l, r)
  BY DEF LeafHash, LONE_NODE_SENTINEL, EmptyRoot, hash_transparency_node
<1>3. \A i \in DOMAIN s : s[i] \in LeafHash
  OBVIOUS
<1> QED
  BY <1>1, <1>2, <1>3, Zenon DEF LeafList, NoLone

(* Stamp hashes are told apart from nodes and from the sentinel. *)
LEMMA HashesAreLeaves ==
    ASSUME NEW list \in Seq(Stamp)
    PROVE  /\ LeafList(Hashes(list))
           /\ Len(Hashes(list)) = Len(list)
           /\ DOMAIN Hashes(list) = 1 .. Len(list)
           /\ \A i \in 1 .. Len(list) : Hashes(list)[i] = StampHash(list[i])
<1> DEFINE h == Hashes(list)
<1>1. Len(list) \in Nat /\ DOMAIN list = 1 .. Len(list)
  OBVIOUS
<1>2. h = [i \in 1 .. Len(list) |-> StampHash(list[i])]
  BY <1>1, Zenon DEF Hashes
<1> HIDE DEF h
<1>3. h = [i \in 1 .. Len(list) |-> h[i]]
  BY <1>2, Zenon
<1>4. IsSeq(h) /\ Len(h) = Len(list)
  BY <1>1, <1>3, ListMade, Zenon
<1>5. DOMAIN h = 1 .. Len(list) /\ \A i \in 1 .. Len(list) : h[i] = StampHash(list[i])
  BY <1>2, Zenon
<1>6. \A x : /\ StampHash(x) # LONE_NODE_SENTINEL /\ StampHash(x) # EmptyRoot
             /\ \A l, r : StampHash(x) # hash_transparency_node(l, r)
  BY DEF StampHash, LONE_NODE_SENTINEL, EmptyRoot, hash_transparency_node
<1>7. LeafList(h)
  BY <1>4, <1>5, <1>6, Zenon DEF LeafList, NoLone
<1> QED
  BY <1>4, <1>5, <1>7, Zenon DEF h

(* The hashes of a list of stamps determine the stamps. *)
LEMMA HashesBind ==
    ASSUME NEW a \in Seq(Stamp), NEW b \in Seq(Stamp), Hashes(a) = Hashes(b)
    PROVE  a = b
<1>1. Len(a) = Len(b)
  BY HashesAreLeaves, Zenon
<1>2. \A i \in 1 .. Len(a) : StampHash(a[i]) = StampHash(b[i])
  BY <1>1, HashesAreLeaves, Zenon
<1>3. \A x, y : StampHash(x) = StampHash(y) => x = y
  BY DEF StampHash
<1>4. \A i \in 1 .. Len(a) : a[i] = b[i]
  BY <1>2, <1>3, Zenon
<1> QED
  BY <1>1, <1>4

(* R_e determines L_e. *)
LEMMA AuthorityRootBinds ==
    ASSUME NEW a \in Seq(LeafHash), NEW b \in Seq(LeafHash), authority_root(a) = authority_root(b)
    PROVE  a = b
  BY LeavesAreLeaves, MerkleRootBinds, Zenon DEF authority_root

(* V_e determines the list of revoked stamps. *)
LEMMA RevocationRootBinds ==
    ASSUME NEW a \in Seq(Stamp), NEW b \in Seq(Stamp), revocation_root(a) = revocation_root(b)
    PROVE  a = b
  BY HashesAreLeaves, HashesBind, MerkleRootBinds, Zenon DEF revocation_root

(***************************************************************************)
(* authority_root and revocation_root never take the same value for two    *)
(* different lists that the tree has had.                                  *)
(***************************************************************************)
THEOREM RootsAlwaysBind == Spec => []RootsBind
<1>1. TreeInv => RootsBind
  <2> SUFFICES ASSUME TreeInv
               PROVE  RootsBind
    OBVIOUS
  <2>1. /\ leaf_hashes \in Seq(LeafHash) /\ revoked_stamps \in Seq(Stamp)
        /\ \A old \in pastLeaves : old \in Seq(LeafHash)
        /\ \A old \in pastRevoked : old \in Seq(Stamp)
    BY Zenon DEF TreeInv, StampList
  <2> QED
    BY <2>1, AuthorityRootBinds, RevocationRootBinds, Zenon DEF RootsBind
<1> QED
  BY TreeInvariant, <1>1, PTL

(* A proof of inclusion_proof verifies against the root it was drawn under, and no other. *)
LEMMA InclusionProofLeads ==
    ASSUME NEW s \in Seq(LeafHash), NEW cap \in Capability, NEW p \in inclusion_proof(s, cap),
           NEW root
    PROVE  verify_capability_inclusion(cap, p, root) <=> root = authority_root(s)
<1>1. PICK i \in DOMAIN s :
          /\ s[i] = capability_leaf_hash(cap)
          /\ p = [leaf_hash      |-> s[i],
                  sibling_hashes |-> merkle_proof_for_index(s, i - 1),
                  leaf_index     |-> i - 1]
  BY Zenon DEF inclusion_proof
<1>2. /\ p.leaf_hash = s[i]
      /\ p.sibling_hashes = merkle_proof_for_index(s, i - 1)
      /\ p.leaf_index = i - 1
  BY <1>1
<1>3. i - 1 \in 0 .. Len(s) - 1 /\ (i - 1) + 1 = i
  BY <1>1
<1>4. IsSeq(s)
  BY Zenon DEF IsSeq
<1>5. merkle_root_from_proof(s[(i - 1) + 1], merkle_proof_for_index(s, i - 1), i - 1)
          = merkle_root(s)
  BY <1>3, <1>4, PathLeadsToRoot, Zenon
<1>6. merkle_root_from_proof(p.leaf_hash, p.sibling_hashes, p.leaf_index) = authority_root(s)
  BY <1>2, <1>3, <1>5, Zenon DEF authority_root
<1> QED
  BY <1>1, <1>2, <1>6, Zenon DEF verify_capability_inclusion, verify_merkle_path

(***************************************************************************)
(* verify_capability_inclusion accepts a proof drawn from any tree the     *)
(* authority has had exactly if the tree still has the same leaves.        *)
(***************************************************************************)
THEOREM InclusionIsExact == Spec => []InclusionExact
<1>1. TreeInv => InclusionExact
  <2> SUFFICES ASSUME TreeInv, NEW old \in pastLeaves, NEW cap \in Capability,
                      NEW p \in inclusion_proof(old, cap)
               PROVE  verify_capability_inclusion(cap, p, authority_root(leaf_hashes))
                          <=> old = leaf_hashes
    BY Zenon DEF InclusionExact
  <2>1. leaf_hashes \in Seq(LeafHash) /\ old \in Seq(LeafHash)
    BY Zenon DEF TreeInv
  <2>2. verify_capability_inclusion(cap, p, authority_root(leaf_hashes))
            <=> authority_root(leaf_hashes) = authority_root(old)
    BY <2>1, InclusionProofLeads, Zenon
  <2> QED
    BY <2>1, <2>2, AuthorityRootBinds, Zenon
<1> QED
  BY TreeInvariant, <1>1, PTL

(* A bound of a witness verifies against the root it was drawn under, and no other. *)
LEMMA BoundLeads ==
    ASSUME NEW list \in Seq(Stamp), NEW index \in 0 .. Len(list) - 1, NEW root
    PROVE  /\ BoundVerifies(Bound(list, index), root) <=> root = revocation_root(list)
           /\ Bound(list, index).stamp = list[index + 1]
           /\ Bound(list, index).proof.leaf_index = index
<1> DEFINE b == Bound(list, index)
           h == Hashes(list)
<1>1. /\ b.stamp = list[index + 1]
      /\ b.proof.leaf_hash = StampHash(list[index + 1])
      /\ b.proof.sibling_hashes = merkle_proof_for_index(h, index)
      /\ b.proof.leaf_index = index
  BY DEF Bound
<1> HIDE DEF b
<1>2. index + 1 \in 1 .. Len(list)
  OBVIOUS
<1>3. IsSeq(h) /\ index \in 0 .. Len(h) - 1 /\ h[index + 1] = StampHash(list[index + 1])
  BY <1>2, HashesAreLeaves, Zenon DEF LeafList
<1>4. merkle_root_from_proof(h[index + 1], merkle_proof_for_index(h, index), index)
          = merkle_root(h)
  BY <1>3, PathLeadsToRoot, Zenon
<1>5. merkle_root_from_proof(StampHash(b.stamp), b.proof.sibling_hashes, b.proof.leaf_index)
          = revocation_root(list)
  BY <1>1, <1>3, <1>4, Zenon DEF revocation_root
<1>6. BoundVerifies(b, root) <=> root = revocation_root(list)
  BY <1>1, <1>5, Zenon DEF BoundVerifies, verify_merkle_path
<1> QED
  BY <1>1, <1>6, Zenon DEF b

(* What a witness holds: the neighbours of the stamp, where it has any. *)
LEMMA WitnessParts ==
    ASSUME NEW list, StampList(list), NEW stamp \in Stamp,
           NEW w \in non_revocation_witness(list, stamp)
    PROVE  LET pos == partition_point(list, stamp)
           IN  /\ ~Contains(list, stamp)
               /\ w.stamp = stamp
               /\ w.total_revoked = Len(list)
               /\ w.left = IF pos > 0 THEN {Bound(list, pos - 1)} ELSE {}
               /\ w.right = IF pos < Len(list) THEN {Bound(list, pos)} ELSE {}
<1> DEFINE pos == partition_point(list, stamp)
<1>1. ~Contains(list, stamp)
  BY FoundAtPoint, Zenon DEF non_revocation_witness
<1>2. w = [stamp         |-> stamp,
           total_revoked |-> Len(list),
           left          |-> IF pos > 0 THEN {Bound(list, pos - 1)} ELSE {},
           right         |-> IF pos < Len(list) THEN {Bound(list, pos)} ELSE {}]
  BY <1>1, FoundAtPoint, Zenon DEF non_revocation_witness
<1> HIDE DEF pos
<1>3. /\ w.stamp = stamp
      /\ w.total_revoked = Len(list)
      /\ w.left = IF pos > 0 THEN {Bound(list, pos - 1)} ELSE {}
      /\ w.right = IF pos < Len(list) THEN {Bound(list, pos)} ELSE {}
  BY <1>2
<1> QED
  BY <1>1, <1>3, Zenon DEF pos

(* A witness drawn from the present list verifies. *)
LEMMA FreshWitnessVerifies ==
    ASSUME NEW list, StampList(list), NEW stamp \in Stamp,
           NEW w \in non_revocation_witness(list, stamp)
    PROVE  verify_non_revocation(w, revocation_root(list), revocation_count(list))
<1> DEFINE pos == partition_point(list, stamp)
           n == Len(list)
           root == revocation_root(list)
<1>1. /\ n \in Nat
      /\ \A i \in 1 .. n : list[i] \in Stamp /\ list[i] \in Nat
      /\ stamp \in Nat
  BY StampListFacts, Zenon
<1>2. pos \in 0 .. n /\ \A i \in 1 .. n : i <= pos <=> list[i] < stamp
  BY PartitionPoint, Zenon
<1>3. /\ ~Contains(list, stamp)
      /\ w.stamp = stamp
      /\ w.total_revoked = n
      /\ w.left = IF pos > 0 THEN {Bound(list, pos - 1)} ELSE {}
      /\ w.right = IF pos < n THEN {Bound(list, pos)} ELSE {}
  BY WitnessParts, Zenon
<1>4. revocation_count(list) = n
  BY DEF revocation_count
<1>5. list \in Seq(Stamp) /\ DOMAIN list = 1 .. n
  BY StampListFacts, Zenon DEF StampList
<1> HIDE DEF pos, n
<1>6. CASE n = 0
  <2>1. pos = 0 /\ ~(pos > 0) /\ ~(pos < n)
    BY <1>2, <1>6
  <2>2. list = <<>>
    BY <1>5, <1>6 DEF n
  <2>3. Hashes(list) = <<>>
    BY <2>2 DEF Hashes
  <2>4. root = EmptyRoot
    BY <2>3, Zenon DEF revocation_root, merkle_root
  <2> QED
    BY <1>3, <1>4, <1>6, <2>1, <2>4, Zenon DEF verify_non_revocation
<1>7. CASE n # 0
  <2>1. ASSUME NEW l \in w.left
        PROVE  /\ BoundVerifies(l, root) /\ l.stamp < w.stamp
               /\ l.proof.leaf_index = pos - 1 /\ pos > 0
    <3>1. pos > 0 /\ l = Bound(list, pos - 1)
      BY <1>3, Zenon
    <3>2. pos - 1 \in 0 .. n - 1 /\ (pos - 1) + 1 = pos /\ pos \in 1 .. n /\ pos <= pos
      BY <1>1, <1>2, <3>1
    <3>3. /\ BoundVerifies(l, root)
          /\ l.stamp = list[(pos - 1) + 1]
          /\ l.proof.leaf_index = pos - 1
      BY <1>5, <3>1, <3>2, BoundLeads, Zenon DEF n
    <3>4. list[pos] < stamp
      BY <1>2, <3>2, Zenon
    <3> QED
      BY <1>3, <3>1, <3>2, <3>3, <3>4, Zenon
  <2>2. ASSUME NEW r \in w.right
        PROVE  /\ BoundVerifies(r, root) /\ w.stamp < r.stamp
               /\ r.proof.leaf_index = pos /\ pos < n
    <3>1. pos < n /\ r = Bound(list, pos)
      BY <1>3, Zenon
    <3>2. pos \in 0 .. n - 1 /\ pos + 1 \in 1 .. n /\ ~(pos + 1 <= pos)
      BY <1>1, <1>2, <3>1
    <3>3. /\ BoundVerifies(r, root)
          /\ r.stamp = list[pos + 1]
          /\ r.proof.leaf_index = pos
      BY <1>5, <3>1, <3>2, BoundLeads, Zenon DEF n
    <3>4. ~(list[pos + 1] < stamp)
      BY <1>2, <3>2, Zenon
    <3>5. list[pos + 1] # stamp
      BY <1>3, <1>5, <3>2, Zenon DEF Contains
    <3>6. stamp < list[pos + 1]
      BY <1>1, <3>2, <3>4, <3>5
    <3> QED
      BY <1>3, <3>1, <3>3, <3>6, Zenon
  <2>3. pos > 0 => w.left # {}
    BY <1>3, Zenon
  <2>4. pos < n => w.right # {}
    BY <1>3, Zenon
  <2>5. w.left # {} \/ w.right # {}
    <3>1. pos > 0 \/ pos < n
      BY <1>1, <1>2, <1>7
    <3> QED
      BY <2>3, <2>4, <3>1, Zenon
  <2>6. ASSUME w.right = {}, NEW l \in w.left
        PROVE  l.proof.leaf_index = n - 1
    <3>1. pos = n
      <4>1. ~(pos < n)
        BY <2>4, <2>6, Zenon
      <4> QED
        BY <1>1, <1>2, <4>1
    <3> QED
      BY <2>1, <3>1, Zenon
  <2>7. ASSUME w.left = {}, NEW r \in w.right
        PROVE  r.proof.leaf_index = 0
    <3>1. pos = 0
      <4>1. ~(pos > 0)
        BY <2>3, <2>7, Zenon
      <4> QED
        BY <1>1, <1>2, <4>1
    <3> QED
      BY <2>2, <3>1, Zenon
  <2>8. ASSUME NEW l \in w.left, NEW r \in w.right
        PROVE  l.proof.leaf_index + 1 = r.proof.leaf_index
    <3>1. (pos - 1) + 1 = pos
      BY <1>2
    <3>2. l.proof.leaf_index = pos - 1 /\ r.proof.leaf_index = pos
      BY <2>1, <2>2, Zenon
    <3> QED
      BY <3>1, <3>2, Zenon
  <2> QED
    BY <1>3, <1>4, <1>7, <2>1, <2>2, <2>5, <2>6, <2>7, <2>8, Zenon DEF verify_non_revocation
<1> QED
  BY <1>6, <1>7, Zenon

(* A witness that verifies was drawn from the present list. *)
LEMMA VerifyingWitnessIsFresh ==
    ASSUME NEW old, StampList(old), NEW list, StampList(list), NEW stamp \in Stamp,
           NEW w \in non_revocation_witness(old, stamp),
           verify_non_revocation(w, revocation_root(list), revocation_count(list))
    PROVE  old = list
<1> DEFINE pos == partition_point(old, stamp)
           n == Len(old)
           root == revocation_root(list)
<1>1. old \in Seq(Stamp) /\ list \in Seq(Stamp) /\ n \in Nat
  BY StampListFacts, Zenon DEF StampList
<1>2. pos \in 0 .. n
  BY PartitionPoint, Zenon
<1>3. /\ w.total_revoked = n
      /\ w.left = IF pos > 0 THEN {Bound(old, pos - 1)} ELSE {}
      /\ w.right = IF pos < n THEN {Bound(old, pos)} ELSE {}
  BY WitnessParts, Zenon
<1>4. w.total_revoked = Len(list)
  BY Zenon DEF verify_non_revocation, revocation_count
<1> HIDE DEF pos
<1>5. CASE n = 0
  <2>1. Len(old) = 0 /\ Len(list) = 0
    BY <1>3, <1>4, <1>5, Zenon
  <2>2. old = <<>> /\ list = <<>>
    BY <1>1, <2>1
  <2> QED
    BY <2>2, Zenon
<1>6. CASE n # 0
  <2>1. /\ \A l \in w.left : BoundVerifies(l, root)
        /\ \A r \in w.right : BoundVerifies(r, root)
    BY <1>3, <1>6, Zenon DEF verify_non_revocation
  <2>2. CASE pos > 0
    <3>1. pos - 1 \in 0 .. n - 1
      BY <1>1, <1>2, <2>2
    <3>2. BoundVerifies(Bound(old, pos - 1), root)
      BY <1>3, <2>1, <2>2, Zenon
    <3>3. root = revocation_root(old)
      BY <1>1, <3>1, <3>2, BoundLeads, Zenon
    <3> QED
      BY <1>1, <3>3, RevocationRootBinds, Zenon
  <2>3. CASE ~(pos > 0)
    <3>1. pos < n /\ pos \in 0 .. n - 1
      BY <1>1, <1>2, <1>6, <2>3
    <3>2. BoundVerifies(Bound(old, pos), root)
      BY <1>3, <2>1, <3>1, Zenon
    <3>3. root = revocation_root(old)
      BY <1>1, <3>1, <3>2, BoundLeads, Zenon
    <3> QED
      BY <1>1, <3>3, RevocationRootBinds, Zenon
  <2> QED
    BY <2>2, <2>3, Zenon
<1> QED
  BY <1>5, <1>6, Zenon

(***************************************************************************)
(* verify_non_revocation accepts a witness drawn from any list the         *)
(* authority has had exactly if nothing was revoked since, and a stamp once *)
(* revoked never gets a witness again.                                     *)
(***************************************************************************)
THEOREM WitnessIsExact == Spec => []WitnessExact
<1>1. TreeInv => WitnessExact
  <2> SUFFICES ASSUME TreeInv, NEW old \in pastRevoked, NEW stamp \in Stamp
               PROVE  /\ \A w \in non_revocation_witness(old, stamp) :
                            verify_non_revocation(w, revocation_root(revoked_stamps),
                                                  revocation_count(revoked_stamps))
                                <=> old = revoked_stamps
                      /\ Contains(old, stamp)
                             => non_revocation_witness(revoked_stamps, stamp) = {}
    BY Zenon DEF WitnessExact
  <2>1. /\ StampList(revoked_stamps) /\ StampList(old)
        /\ \A i \in DOMAIN old : Contains(revoked_stamps, old[i])
    BY Zenon DEF TreeInv
  <2>2. ASSUME NEW w \in non_revocation_witness(old, stamp)
        PROVE  verify_non_revocation(w, revocation_root(revoked_stamps),
                                     revocation_count(revoked_stamps))
                   <=> old = revoked_stamps
    BY <2>1, <2>2, FreshWitnessVerifies, VerifyingWitnessIsFresh, Zenon
  <2>3. ASSUME Contains(old, stamp)
        PROVE  non_revocation_witness(revoked_stamps, stamp) = {}
    <3>1. Contains(revoked_stamps, stamp)
      BY <2>1, <2>3, Zenon DEF Contains
    <3> QED
      BY <2>1, <3>1, FoundAtPoint, Zenon DEF non_revocation_witness
  <2> QED
    BY <2>2, <2>3, Zenon
<1> QED
  BY TreeInvariant, <1>1, PTL
==============================================================================
