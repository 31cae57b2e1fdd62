-------------------------- MODULE MCPublishPipeline -------------------------
(* The queue and the publisher on small instances.                          *)
EXTENDS PublishPipeline
=============================================================================
