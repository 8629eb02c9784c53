--------------------------- MODULE MCEdrPipeline ---------------------------
(* Small instance of EdrPipeline: see the .cfg files for the bounds.       *)
EXTENDS EdrPipeline
=============================================================================
