--------------------------- MODULE MCFactorFiles ---------------------------
(* Small instances of FactorFiles for TLC. *)
EXTENDS FactorFiles, TLC

CONSTANTS m, a, b          \* a manual column and two ML columns

MCOwner == [c \in Columns |-> IF c = m THEN "manual" ELSE "ml"]

Symmetry == Permutations(ManualWriters) \union Permutations(MlWriters)
=============================================================================
