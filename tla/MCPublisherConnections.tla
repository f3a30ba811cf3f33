----------------------- MODULE MCPublisherConnections -----------------------
(* The model checker's instances of PublisherConnections.                  *)
EXTENDS PublisherConnections
=============================================================================
