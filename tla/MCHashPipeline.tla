--------------------------- MODULE MCHashPipeline ---------------------------
(* Model-checking instance of HashPipeline.                                *)
EXTENDS HashPipeline

MCLeftOver == <<1, 0, 1, 0>>

=============================================================================
