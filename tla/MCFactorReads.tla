--------------------------- MODULE MCFactorReads ---------------------------
(* Small instances of FactorReads for TLC. *)
EXTENDS FactorReads, TLC

CONSTANTS m, a, b          \* a manual column and two ML columns

MCOwner == [c \in Columns |-> IF c = m THEN "manual" ELSE "ml"]

Symmetry == Permutations(ManualWriters) \union Permutations(MlWriters)
=============================================================================
