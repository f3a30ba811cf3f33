-------------------------- MODULE MCTcpWriteQueue --------------------------
(* The model checker's instances of TcpWriteQueue.                         *)
EXTENDS TcpWriteQueue

=============================================================================
