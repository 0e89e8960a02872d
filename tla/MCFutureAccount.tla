--------------------------- MODULE MCFutureAccount ---------------------------
(* Small runs of FutureAccount. *)
EXTENDS FutureAccount

CONSTANTS F, G

Multipliers == [s \in Symbols |-> IF s = F THEN 1 ELSE 2]
TwoOrThree == {2, -3}
AllBars == [open : {10, 20}, close : {10, 20}]
=============================================================================
