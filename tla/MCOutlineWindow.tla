-------------------------- MODULE MCOutlineWindow --------------------------
(* Small instances of OutlineWindow, started from a few trees. *)
EXTENDS OutlineWindow, TLC

CONSTANTS x, y, a, b, s

Edge(p, n, k) == [parent |-> p, child |-> n, key |-> k]

(* A list with no room left between two keys, a chain, a node with two parents *)
Tight == {Edge(x, a, 1), Edge(x, b, 2), Edge(x, y, Unit)}
Chain == {Edge(x, a, Unit), Edge(a, b, Unit)}
TwoParents == {Edge(x, a, Unit), Edge(y, a, Unit), Edge(x, b, 2 * Unit)}

AllOutlines == {Tight, Chain, TwoParents}
PlainOutlines == {Tight, Chain}
Symmetry == Permutations(Callers)

=============================================================================
