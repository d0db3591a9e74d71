---------------------------- MODULE MCInventory ----------------------------
EXTENDS Inventory, TLC

CONSTANTS a1, a2, c1, s1, o0

\* Both artifacts share one contract.
SharedContract == (a1 :> c1) @@ (a2 :> c1)

\* Artifact a2 has no contract, so the two may be installed together.
MixedContract == (a1 :> c1) @@ (a2 :> None)

\* Connectors are interchangeable.
AnyId == Permutations(Ids)
============================================================================
