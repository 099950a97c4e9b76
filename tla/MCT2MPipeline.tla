--------------------------- MODULE MCT2MPipeline ----------------------------
(* Instances of T2MPipeline for TLC; the constants are in the .cfg files. *)
EXTENDS T2MPipeline, TLC
=============================================================================
