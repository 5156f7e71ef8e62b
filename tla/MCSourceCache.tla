--------------------------- MODULE MCSourceCache ---------------------------
(***************************************************************************)
(* Instances of SourceCache for TLC.                                       *)
(***************************************************************************)
EXTENDS SourceCache, TLC

CONSTANTS m1, m2, m3, m4, m5, d1, p1, c1, c2, c3

Symmetric == Permutations(Callers)

\* m1 is a model larger than each of the others.
Sizes == [m \in Models |-> IF m = m1 THEN 2 ELSE 1]
=============================================================================
