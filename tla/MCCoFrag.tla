------------------------------ MODULE MCCoFrag ------------------------------
(***************************************************************************)
(* A file for TLC: two fragments with a cluster without storage between    *)
(* them.  When it is moved, the first goes on behind that cluster.         *)
(***************************************************************************)
EXTENDS CoFrag, TLC

MCLayouts == {[v \in 0 .. 2 |-> CASE v = 0 -> 5 [] v = 1 -> Virtual [] v = 2 -> 3]}

\* Enumerators are alike.
MCSymmetry == Permutations(Enums)
=============================================================================
