----------------------------- MODULE MCRawCache -----------------------------
(* Small runs of RawCache. *)
EXTENDS RawCache, TLC

\* The documented order: versions published, two owners, then a prepared run; an inline
\* run goes on beside them.
KindOf == [p \in Programs |->
  CASE p = "m" -> "publish" [] p \in {"o1", "o2"} -> "owned" [] p = "c" -> "prepared" [] OTHER -> "inline"]
Prepared == [p \in Programs |->
  CASE p \in {"o1", "o2"} -> {"m"} [] p = "c" -> {"m", "o1", "o2"} [] OTHER -> {}]

\* An owner's batches are disjoint; those of the others overlap by their lookback.
Overlapping == [p \in Programs |->
  CASE p = "o1" -> <<{1}>> [] p = "o2" -> <<{2}, {3}>> [] OTHER -> <<{1}, {1, 2, 3}>>]

Symmetry == Permutations(Raws)

AtTwo == [p \in Programs |-> 2]
=============================================================================
