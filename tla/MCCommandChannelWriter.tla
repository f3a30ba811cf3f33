---------------------- MODULE MCCommandChannelWriter ----------------------
(* The model checker's instances of CommandChannelWriter: the threads that *)
(* send are interchangeable.                                               *)
EXTENDS CommandChannelWriter, TLC

SenderSymmetry == Permutations(Senders)

=============================================================================
