----------------------------- MODULE MCThreadRun -----------------------------
(* Small instances of ThreadRun for TLC. *)
EXTENDS ThreadRun, TLC

\* X's ids are only compared for equality.
PostIdSymmetry == Permutations(PostIds)
=============================================================================
