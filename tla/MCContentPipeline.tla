--------------------------- MODULE MCContentPipeline ---------------------------
(* Small instances of ContentPipeline: the values are in the .cfg files. *)
EXTENDS ContentPipeline
================================================================================
