------------------------- MODULE MCCapturePipeline -------------------------
(* TLC instances of CapturePipeline. *)
EXTENDS CapturePipeline, TLC

CONSTANTS f1, f2, overload

Groups == Permutations({f1, f2})
=============================================================================
