--------------------------- MODULE MCEventPipeline --------------------------
(* Two different pictures, so that sending the wrong one shows.             *)
EXTENDS EventPipeline
=============================================================================
