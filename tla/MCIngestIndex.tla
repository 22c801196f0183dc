----------------------------- MODULE MCIngestIndex -----------------------------
(***************************************************************************)
(* Instances of IngestIndex for TLC: an upload and one or two syncs.       *)
(***************************************************************************)
EXTENDS IngestIndex, TLC

\* Syncs are alike.
Symmetry == Permutations(Run \ {First})
================================================================================
