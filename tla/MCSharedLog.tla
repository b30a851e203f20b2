----------------------------- MODULE MCSharedLog -----------------------------
(***************************************************************************)
(* Two authorities, two epochs each, two rival states per epoch.           *)
(***************************************************************************)
EXTENDS SharedLog, TLC

CONSTANTS a1, a2, r1, r2, h1

MCAuthorityId == {a1, a2}
MCRoot == {r1, r2}
MCChainHash == {<<h1>>}
Symmetry == Permutations(MCAuthorityId) \cup Permutations(MCRoot)
==============================================================================
