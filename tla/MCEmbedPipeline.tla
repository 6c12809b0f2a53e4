--------------------------- MODULE MCEmbedPipeline ---------------------------
(***************************************************************************)
(* Small instances of EmbedPipeline.                                       *)
(***************************************************************************)
EXTENDS EmbedPipeline, TLC

CONSTANTS a, b, w1, w2

\* Images are alike, and so are workers.
ClaimSymmetry == Permutations(Images) \cup Permutations(Workers)
=============================================================================
