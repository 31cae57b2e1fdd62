---------------------------- MODULE MCPublisher -----------------------------
(* The publisher on small instances, under arbitrary redelivery.            *)
EXTENDS Publisher
=============================================================================
