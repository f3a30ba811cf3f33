--------------------------- MODULE MCRoutingTables ---------------------------
(* The model checker's instances of RoutingTables.                         *)
EXTENDS RoutingTables

=============================================================================
